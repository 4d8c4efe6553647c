--------------------------- MODULE EthFrameProof ----------------------------
(***************************************************************************)
(* Frames of every size: their bounds, that a frame which the wire has     *)
(* left alone is accepted and gives back its payload, and that one damaged *)
(* within 32 consecutive bits is not.  Of crc32 the first two use no more  *)
(* than that it is a function of the bytes it is given; the third follows  *)
(* the difference of two runs of its loop backwards, from the end.         *)
(***************************************************************************)
EXTENDS EthFrame, FiniteSetTheorems, TLAPS, WellFoundedInduction

Byte == SUBSET (0..7)

LEMMA Sizes ==
  /\ kEthernetPayloadMin \in Nat /\ kEthernetPayloadMax \in Nat /\ FlipMax \in Nat
  /\ kEthernetPayloadMin <= kEthernetPayloadMax /\ kEthernetOverhead \in Nat
<1>1. Len(Header) \in Nat
  BY EthFrameAssumption
<1> QED BY <1>1, EthFrameAssumption DEF kEthernetOverhead, kCrcSize

LEMMA BufferSizeType == ASSUME NEW size \in Nat PROVE BufferSize(size) \in Nat
BY Sizes DEF BufferSize

LEMMA MaxOfTwo ==
  ASSUME NEW a \in Nat, NEW b \in Nat
  PROVE  /\ Max({a, b}) = (IF a >= b THEN a ELSE b)
         /\ Min({a, b}) = (IF a <= b THEN a ELSE b)
<1>1. \E x \in {a, b} : \A y \in {a, b} : x >= y
  OBVIOUS
<1>2. \E x \in {a, b} : \A y \in {a, b} : x <= y
  OBVIOUS
<1>3. Max({a, b}) \in {a, b} /\ \A y \in {a, b} : Max({a, b}) >= y
  BY <1>1, Zenon DEF Max
<1>4. Min({a, b}) \in {a, b} /\ \A y \in {a, b} : Min({a, b}) <= y
  BY <1>2, Zenon DEF Min
<1> QED BY <1>3, <1>4

\* The two parts of a concatenation.
LEMMA Parts ==
  ASSUME NEW a \in Seq(Byte), NEW b \in Seq(Byte)
  PROVE  /\ a \o b \in Seq(Byte) /\ Len(a \o b) = Len(a) + Len(b)
         /\ SubSeq(a \o b, 1, Len(a)) = a
         /\ SubSeq(a \o b, Len(a) + 1, Len(a) + Len(b)) = b
<1> DEFINE c == a \o b
           x == SubSeq(c, 1, Len(a))
           y == SubSeq(c, Len(a) + 1, Len(a) + Len(b))
<1>1. /\ c \in Seq(Byte) /\ Len(c) = Len(a) + Len(b)
      /\ \A i \in 1..Len(a) : c[i] = a[i]
      /\ \A i \in 1..Len(b) : c[i + Len(a)] = b[i]
  OBVIOUS
<1> HIDE DEF c
<1>2. x \in Seq(Byte) /\ Len(x) = Len(a) /\ \A i \in 1..Len(a) : x[i] = c[i]
  BY <1>1
<1>3. y \in Seq(Byte) /\ Len(y) = Len(b) /\ \A i \in 1..Len(b) : y[i] = c[i + Len(a)]
  BY <1>1
<1> HIDE DEF x, y
<1>4. x = a
  BY <1>1, <1>2
<1>5. y = b
  <2>1. \A i \in 1..Len(b) : y[i] = b[i]
    BY <1>1, <1>3, Zenon
  <2> QED BY <1>3, <2>1
<1> QED BY <1>1, <1>4, <1>5, Zenon DEF c, x, y

LEMMA TableIsSeq ==
  ASSUME NEW n \in Nat, NEW f \in [1..n -> Byte]
  PROVE  f \in Seq(Byte) /\ Len(f) = n
OBVIOUS

LEMMA CrcBytesType ==
  ASSUME NEW crc PROVE CrcBytes(crc) \in Seq(Byte) /\ Len(CrcBytes(crc)) = 4
<1>1. \A k \in 1..4 : {i \in 0..7 : i + 8 * (k - 1) \in crc} \in Byte
  BY DEF Byte
<1>2. CrcBytes(crc) \in [1..4 -> Byte]
  BY <1>1, Zenon DEF CrcBytes, kCrcSize
<1>3. 4 \in Nat
  OBVIOUS
<1> QED BY <1>2, <1>3, TableIsSeq, Zenon

\* The padding fills a payload up to the minimum and is all that is added.
LEMMA PaddedType ==
  ASSUME NEW payload \in Seq(Byte)
  PROVE  /\ Padded(payload) \in Seq(Byte)
         /\ Len(Padded(payload)) = (IF Len(payload) >= kEthernetPayloadMin
                                    THEN Len(payload) ELSE kEthernetPayloadMin)
<1> DEFINE n == Max({Len(payload), kEthernetPayloadMin})
<1>1. n = (IF Len(payload) >= kEthernetPayloadMin THEN Len(payload) ELSE kEthernetPayloadMin)
  BY MaxOfTwo, Sizes
<1>2. n \in Nat
  BY <1>1, Sizes
<1>3. Padded(payload) \in [1..n -> Byte]
  <2>1. \A i \in 1..n : (IF i <= Len(payload) THEN payload[i] ELSE {}) \in Byte
    BY <1>2 DEF Byte
  <2> QED BY <2>1, Zenon DEF Padded
<1> HIDE DEF n
<1> QED BY <1>1, <1>2, <1>3, TableIsSeq

\* What SendEthernetFrame lays out: header, padded payload and the four bytes.
LEMMA FrameLayout ==
  ASSUME NEW payload \in Seq(Byte)
  PROVE  LET frame == MakeFrame(payload)
             pad == Padded(payload)
         IN  /\ frame \in Seq(Byte)
             /\ Len(frame) = Len(pad) + kEthernetOverhead
             /\ CrcMatches(frame)
             /\ ExtractPayload(frame) = pad
<1> DEFINE pad == Padded(payload)
           body == Header \o pad
           fcs == CrcBytes(crc32(body))
           frame == body \o fcs
<1>1. frame = MakeFrame(payload)
  BY DEF MakeFrame
<1>2. Header \in Seq(Byte) /\ pad \in Seq(Byte)
  BY EthFrameAssumption, PaddedType DEF Byte
<1>3. fcs \in Seq(Byte) /\ Len(fcs) = 4
  BY CrcBytesType
<1> HIDE DEF fcs, pad
<1>4. body \in Seq(Byte) /\ Len(body) = Len(Header) + Len(pad)
  BY <1>2, Parts
<1>5. SubSeq(body, Len(Header) + 1, Len(Header) + Len(pad)) = pad
  BY <1>2, Parts
<1> HIDE DEF body
<1>6. /\ frame \in Seq(Byte) /\ Len(frame) = Len(body) + 4
      /\ SubSeq(frame, 1, Len(body)) = body
      /\ SubSeq(frame, Len(body) + 1, Len(body) + 4) = fcs
  <2>1. /\ body \o fcs \in Seq(Byte) /\ Len(body \o fcs) = Len(body) + Len(fcs)
        /\ SubSeq(body \o fcs, 1, Len(body)) = body
        /\ SubSeq(body \o fcs, Len(body) + 1, Len(body) + Len(fcs)) = fcs
    BY <1>3, <1>4, Parts, Zenon
  <2> QED BY <1>3, <2>1, Zenon
<1> HIDE DEF frame
<1>7. Len(Header) \in Nat /\ Len(pad) \in Nat /\ Len(body) \in Nat
  BY <1>2, <1>4
<1>8. Len(frame) - 4 = Len(body) /\ Len(frame) - 4 + 1 = Len(body) + 1
  BY <1>6, <1>7
<1>9. CrcMatches(frame)
  BY <1>6, <1>8, Zenon DEF CrcMatches, kCrcSize, fcs
<1>10. SubSeq(frame, Len(Header) + 1, Len(body)) = pad
  <2> DEFINE z == SubSeq(frame, Len(Header) + 1, Len(body))
             w == SubSeq(body, Len(Header) + 1, Len(body))
  <2>1. \A i \in 1..Len(body) : frame[i] = body[i]
    BY <1>4, <1>6, <1>7
  <2>2. z = w
    BY <1>4, <1>6, <1>7, <2>1
  <2> QED BY <1>4, <1>5, <2>2
<1>11. ExtractPayload(frame) = pad
  BY <1>8, <1>10 DEF ExtractPayload, kCrcSize
<1>12. Len(frame) = Len(pad) + kEthernetOverhead
  BY <1>4, <1>6, <1>7 DEF kEthernetOverhead, kCrcSize
<1> QED BY <1>1, <1>6, <1>9, <1>11, <1>12 DEF pad

-----------------------------------------------------------------------------
(* Induction, and functions defined by recursion.                          *)

LEMMA LeastNumber ==
  ASSUME NEW T \in SUBSET Nat, T # {}
  PROVE  \E n \in T : \A k \in T : n <= k
<1> DEFINE R == OpToRel(<, Nat)
<1>1. IsWellFoundedOn(R, Nat)
  BY NatLessThanWellFounded, Zenon
<1>2. ASSUME NEW x \in Nat, NEW y \in Nat, <<x, y>> \notin R PROVE y <= x
  BY <1>2 DEF OpToRel
<1> HIDE DEF R
<1>3. \E x \in T : \A y \in T : <<y, x>> \notin R
  BY <1>1, WFMin, Zenon
<1> QED BY <1>2, <1>3, Zenon

\* A set of numbers that has 0, and with each number the next, has all of them.
LEMMA Induction ==
  ASSUME NEW T, 0 \in T, \A n \in Nat : n \in T => n + 1 \in T
  PROVE  \A n \in Nat : n \in T
<1> SUFFICES ASSUME NEW m \in Nat, m \notin T PROVE FALSE
  OBVIOUS
<1> DEFINE U == {n \in Nat : n \notin T}
<1>1. PICK n \in U : \A k \in U : n <= k
  BY LeastNumber, Zenon
<1>2. n # 0 /\ n - 1 \in Nat /\ n - 1 \notin U
  BY <1>1
<1>3. (n - 1) + 1 \in T
  BY <1>2
<1> QED BY <1>2, <1>3

\* Of h, the values up to n: a at 0, and g[i] takes the i-th one to the next.
Iterates(h, n, a, g) == h[0] = a /\ \A i \in Nat : i < n => h[i + 1] = g[i][h[i]]

Iteration(f, a, g) == f[0] = a /\ \A n \in Nat : f[n + 1] = g[n][f[n]]

\* There is a function that makes infinitely many such steps.
LEMMA PrimitiveRecursion ==
  ASSUME NEW S, NEW a \in S, NEW g \in [Nat -> [S -> S]]
  PROVE  \E f \in [Nat -> S] : Iteration(f, a, g)
<1> DEFINE T == {n \in Nat : \E h \in [Nat -> S] : Iterates(h, n, a, g)}
<1>1. 0 \in T
  <2>1. [i \in Nat |-> a] \in [Nat -> S] /\ Iterates([i \in Nat |-> a], 0, a, g)
    BY DEF Iterates
  <2> QED BY <2>1
<1>2. ASSUME NEW n \in Nat, n \in T PROVE n + 1 \in T
  <2>1. PICK h \in [Nat -> S] : Iterates(h, n, a, g)
    BY <1>2
  <2> DEFINE k == [h EXCEPT ![n + 1] = g[n][h[n]]]
  <2>2. k \in [Nat -> S] /\ k[n + 1] = g[n][h[n]] /\ \A i \in Nat : i # n + 1 => k[i] = h[i]
    OBVIOUS
  <2> HIDE DEF k
  <2>3. k[0] = a
    BY <2>1, <2>2 DEF Iterates
  <2>4. ASSUME NEW i \in Nat, i < n + 1 PROVE k[i + 1] = g[i][k[i]]
    <3>1. CASE i = n
      BY <2>2, <3>1
    <3>2. CASE i # n
      <4>1. i < n /\ i # n + 1 /\ i + 1 # n + 1 /\ i + 1 \in Nat
        BY <2>4, <3>2
      <4>2. h[i + 1] = g[i][h[i]]
        BY <2>1, <4>1 DEF Iterates
      <4> QED BY <2>2, <4>1, <4>2, Zenon
    <3> QED BY <3>1, <3>2
  <2>5. Iterates(k, n + 1, a, g)
    BY <2>3, <2>4, Zenon DEF Iterates
  <2> QED BY <2>2, <2>5
<1>3. \A n \in Nat : n \in T
  <2> HIDE DEF T
  <2> QED BY <1>1, <1>2, Induction
<1> DEFINE H(n) == CHOOSE h \in [Nat -> S] : Iterates(h, n, a, g)
<1>4. ASSUME NEW n \in Nat PROVE H(n) \in [Nat -> S] /\ Iterates(H(n), n, a, g)
  <2>1. \E h \in [Nat -> S] : Iterates(h, n, a, g)
    BY <1>3
  <2> QED BY <2>1, Zenon
<1> HIDE DEF H, T
\* Two of them agree as far as both go.
<1>5. ASSUME NEW n \in Nat, NEW j, NEW k, Iterates(j, n, a, g), Iterates(k, n, a, g)
      PROVE  j[n] = k[n]
  <2> DEFINE U == {i \in Nat : i <= n => j[i] = k[i]}
  <2>1. 0 \in U
    BY <1>5 DEF Iterates
  <2>2. ASSUME NEW i \in Nat, i \in U PROVE i + 1 \in U
    <3> SUFFICES ASSUME i + 1 <= n PROVE j[i + 1] = k[i + 1]
      OBVIOUS
    <3>1. i < n /\ i <= n
      OBVIOUS
    <3>2. j[i] = k[i]
      BY <2>2, <3>1
    <3> QED BY <1>5, <3>1, <3>2, Zenon DEF Iterates
  <2>3. n \in U
    <3> HIDE DEF U
    <3> QED BY <2>1, <2>2, Induction
  <2> QED BY <2>3
<1> DEFINE f == [n \in Nat |-> H(n)[n]]
<1>6. f \in [Nat -> S] /\ \A n \in Nat : f[n] = H(n)[n]
  BY <1>4
<1> HIDE DEF f
<1>7. f[0] = a
  BY <1>4, <1>6 DEF Iterates
<1>8. ASSUME NEW n \in Nat PROVE f[n + 1] = g[n][f[n]]
  <2>1. n + 1 \in Nat /\ n < n + 1
    OBVIOUS
  <2>2. H(n + 1)[n + 1] = g[n][H(n + 1)[n]]
    BY <1>4, <2>1, Zenon DEF Iterates
  <2>3. Iterates(H(n + 1), n, a, g)
    <3>1. \A i \in Nat : i < n => i < n + 1
      OBVIOUS
    <3> QED BY <1>4, <2>1, <3>1, Zenon DEF Iterates
  <2>4. H(n + 1)[n] = H(n)[n]
    BY <1>4, <1>5, <2>3, Zenon
  <2> QED BY <1>6, <2>1, <2>2, <2>4, Zenon
<1> QED BY <1>6, <1>7, <1>8, Zenon DEF Iteration

-----------------------------------------------------------------------------
(* The turns of crc32's loops *)

Word == SUBSET (0..31)

\* Whether a turn of the inner loop sets bit i.
Turned(c, i) == ~(i + 1 \in c <=> 0 \in c /\ i \in Polynomial)

LEMMA TurnBits ==
  ASSUME NEW c \in Word
  PROVE  /\ CrcBit(c) \in Word
         /\ \A i \in 0..31 : i \in CrcBit(c) <=> Turned(c, i)
<1> DEFINE shifted == {i - 1 : i \in c \ {0}}
<1>1. \A i \in Int : i \in shifted <=> i \in 0..31 /\ i + 1 \in c
  BY DEF Word
<1>2. shifted \in Word /\ Polynomial \in Word
  BY DEF Word, Polynomial
<1>3. CrcBit(c) = IF 0 \in c THEN SymDiff(shifted, Polynomial) ELSE shifted
  BY Zenon DEF CrcBit
<1> HIDE DEF shifted
<1>4. CrcBit(c) \in Word
  BY <1>2, <1>3, Zenon DEF SymDiff, Word
<1>5. ASSUME NEW i \in 0..31 PROVE i \in shifted <=> i + 1 \in c
  BY <1>1
<1>6. ASSUME NEW i \in 0..31 PROVE i \in CrcBit(c) <=> Turned(c, i)
  BY <1>3, <1>5, Zenon DEF SymDiff, Turned
<1> QED BY <1>4, <1>6

\* Exclusive or, bit by bit.
LEMMA XorBits ==
  ASSUME NEW a, NEW b, NEW i
  PROVE  i \in SymDiff(a, b) <=> ~(i \in a <=> i \in b)
BY Zenon DEF SymDiff

LEMMA XorType ==
  ASSUME NEW a \in Word, NEW b \in Word
  PROVE  SymDiff(a, b) \in Word
BY Zenon DEF SymDiff, Word

\* A turn is linear.
LEMMA TurnLinear ==
  ASSUME NEW a \in Word, NEW b \in Word
  PROVE  CrcBit(SymDiff(a, b)) = SymDiff(CrcBit(a), CrcBit(b))
<1> DEFINE x == SymDiff(a, b)
           y == SymDiff(CrcBit(a), CrcBit(b))
<1>1. x \in Word
  BY XorType, Zenon
<1>2. CrcBit(a) \in Word /\ CrcBit(b) \in Word /\ CrcBit(x) \in Word
  BY <1>1, TurnBits, Zenon
<1>3. y \in Word
  BY <1>2, XorType, Zenon
<1>4. ASSUME NEW i \in 0..31 PROVE i \in CrcBit(x) <=> i \in y
  <2>1. i \in CrcBit(x) <=> Turned(x, i)
    BY <1>1, TurnBits, Zenon
  <2>2. i \in y <=> ~(Turned(a, i) <=> Turned(b, i))
    BY TurnBits, XorBits, Zenon
  <2>3. /\ i + 1 \in x <=> ~(i + 1 \in a <=> i + 1 \in b)
        /\ 0 \in x <=> ~(0 \in a <=> 0 \in b)
    <3>1. i + 1 \in x <=> ~(i + 1 \in a <=> i + 1 \in b)
      BY Zenon DEF SymDiff
    <3>2. 0 \in x <=> ~(0 \in a <=> 0 \in b)
      BY XorBits, Zenon
    <3> QED BY <3>1, <3>2
  <2>4. Turned(x, i) <=> ~(Turned(a, i) <=> Turned(b, i))
    <3> HIDE DEF x
    <3> QED BY <2>3, Zenon DEF Turned
  <2> QED BY <2>1, <2>2, <2>4, Zenon
<1> HIDE DEF x, y
<1>5. CrcBit(x) = y
  BY <1>2, <1>3, <1>4, Zenon DEF Word
<1> QED BY <1>5, Zenon DEF x, y

Within(c, l, k) == c \subseteq l..k

\* A turn that leaves bits l to k only was made from bits l + 1 to k + 1: bit 31
\* of the result tells bit 0 of the argument.
LEMMA TurnBack ==
  ASSUME NEW c \in Word, NEW l \in Nat, NEW k \in Int, k <= 30, Within(CrcBit(c), l, k)
  PROVE  Within(c, l + 1, k + 1)
<1>1. 31 \in Polynomial
  BY DEF Polynomial
<1>0. CrcBit(c) \subseteq l..k
  BY Zenon DEF Within
<1>2. 31 \in 0..31 /\ 31 + 1 \notin c /\ 31 \notin l..k
  BY DEF Word
<1>3. 0 \notin c
  BY <1>0, <1>1, <1>2, TurnBits, Zenon DEF Turned
<1>4. ASSUME NEW i \in c PROVE i \in l+1..k+1
  <2>1. i \in 0..31 /\ i # 0
    BY <1>3 DEF Word
  <2>2. i - 1 \in 0..31 /\ (i - 1) + 1 = i
    BY <2>1
  <2>3. i - 1 \in CrcBit(c)
    <3>1. Turned(c, i - 1)
      BY <1>3, <2>2 DEF Turned
    <3> QED BY <2>2, <3>1, TurnBits, Zenon
  <2>4. i - 1 \in l..k
    BY <1>0, <2>3
  <2> QED BY <2>1, <2>4
<1> QED BY <1>4, Zenon DEF Within

\* The equation of the recursive function in CrcBits.
BitsEq(f, c) == f = [j \in Nat |-> IF j = 0 THEN c ELSE CrcBit(f[j - 1])]

LEMMA BitsUnfold ==
  ASSUME NEW c \in Word
  PROVE  /\ CrcBits[c][0] = c
         /\ \A j \in Nat : /\ CrcBits[c][j] \in Word
                           /\ CrcBits[c][j + 1] = CrcBit(CrcBits[c][j])
<1> DEFINE g == [n \in Nat |-> [w \in Word |-> CrcBit(w)]]
           b == CrcBits[c]
<1>1. g \in [Nat -> [Word -> Word]]
  BY TurnBits
<1>2. ASSUME NEW n \in Nat, NEW w \in Word PROVE g[n][w] = CrcBit(w)
  OBVIOUS
<1> HIDE DEF g
<1>3. PICK f \in [Nat -> Word] : Iteration(f, c, g)
  BY <1>1, PrimitiveRecursion, Zenon
<1>4. BitsEq(f, c)
  <2> DEFINE R(j) == IF j = 0 THEN c ELSE CrcBit(f[j - 1])
  <2>1. ASSUME NEW j \in Nat PROVE f[j] = R(j)
    <3>1. CASE j = 0
      BY <1>3, <3>1, Zenon DEF Iteration
    <3>2. CASE j # 0
      <4>1. j - 1 \in Nat /\ (j - 1) + 1 = j
        BY <3>2
      <4>2. f[j] = CrcBit(f[j - 1])
        BY <1>2, <1>3, <4>1, Zenon DEF Iteration
      <4> QED BY <3>2, <4>2, Zenon
    <3> QED BY <3>1, <3>2, Zenon
  <2>2. f = [j \in Nat |-> f[j]]
    OBVIOUS
  <2> HIDE DEF R
  <2>3. f = [j \in Nat |-> R(j)]
    BY <2>1, <2>2
  <2> QED BY <2>3, Zenon DEF BitsEq, R
<1>5. BitsEq(b, c)
  BY <1>4, Zenon DEF BitsEq, CrcBits, Word
<1> HIDE DEF b
<1>6. b[0] = c
  BY <1>5, Zenon DEF BitsEq
<1>7. ASSUME NEW n \in Nat PROVE b[n + 1] = CrcBit(b[n])
  <2> DEFINE j == n + 1
  <2>1. j \in Nat /\ j # 0 /\ j - 1 = n
    OBVIOUS
  <2> HIDE DEF j
  <2>2. b[j] = CrcBit(b[j - 1])
    BY <1>5, <2>1, Zenon DEF BitsEq
  <2> QED BY <2>1, <2>2 DEF j
<1>8. \A j \in Nat : b[j] \in Word
  <2> DEFINE T == {j \in Nat : b[j] \in Word}
  <2>1. 0 \in T
    BY <1>6, Zenon
  <2>2. ASSUME NEW n \in Nat, n \in T PROVE n + 1 \in T
    <3>1. n + 1 \in Nat
      OBVIOUS
    <3> QED BY <1>7, <2>2, <3>1, TurnBits, Zenon
  <2>3. \A n \in Nat : n \in T
    <3> HIDE DEF T
    <3> QED BY <2>1, <2>2, Induction, Zenon
  <2> QED BY <2>3, Zenon
<1> QED BY <1>6, <1>7, <1>8, Zenon DEF b

\* The turns for one byte are linear.
LEMMA BitsLinear ==
  ASSUME NEW a \in Word, NEW b \in Word, NEW n \in Nat
  PROVE  CrcBits[SymDiff(a, b)][n] = SymDiff(CrcBits[a][n], CrcBits[b][n])
<1> DEFINE x == SymDiff(a, b)
           T == {j \in Nat : CrcBits[x][j] = SymDiff(CrcBits[a][j], CrcBits[b][j])}
<1>0. x \in Word
  BY XorType, Zenon
<1> HIDE DEF x
<1>1. 0 \in T
  BY <1>0, BitsUnfold, Zenon DEF x
<1>2. ASSUME NEW j \in Nat, j \in T PROVE j + 1 \in T
  <2>1. j + 1 \in Nat
    OBVIOUS
  <2>2. CrcBits[x][j + 1] = CrcBit(CrcBits[x][j])
    BY <1>0, BitsUnfold, Zenon
  <2>3. /\ CrcBits[a][j] \in Word /\ CrcBits[a][j + 1] = CrcBit(CrcBits[a][j])
        /\ CrcBits[b][j] \in Word /\ CrcBits[b][j + 1] = CrcBit(CrcBits[b][j])
    BY BitsUnfold, Zenon
  <2>4. CrcBit(SymDiff(CrcBits[a][j], CrcBits[b][j]))
          = SymDiff(CrcBits[a][j + 1], CrcBits[b][j + 1])
    BY <2>3, TurnLinear, Zenon
  <2> QED BY <1>2, <2>1, <2>2, <2>4, Zenon
<1>3. n \in T
  <2> HIDE DEF T
  <2> QED BY <1>1, <1>2, Induction, Zenon
<1> QED BY <1>3, Zenon DEF x

\* Bits l to k after j turns were bits l + i to k + i at i turns earlier.
LEMMA BitsBack ==
  ASSUME NEW c \in Word, NEW j \in Nat, NEW l \in Nat, NEW k \in Int,
         Within(CrcBits[c][j], l, k), NEW n \in Nat, n <= j, k + n <= 31
  PROVE  Within(CrcBits[c][j - n], l + n, k + n)
<1> DEFINE T == {i \in Nat : i <= j /\ k + i <= 31 => Within(CrcBits[c][j - i], l + i, k + i)}
<1>1. 0 \in T
  <2>1. j - 0 = j /\ l + 0 = l /\ k + 0 = k /\ 0 \in Nat
    OBVIOUS
  <2>2. Within(CrcBits[c][j - 0], l + 0, k + 0)
    BY <2>1
  <2> QED BY <2>2
<1>2. ASSUME NEW i \in Nat, i \in T PROVE i + 1 \in T
  <2>0. i + 1 \in Nat
    OBVIOUS
  <2> SUFFICES ASSUME i + 1 <= j, k + (i + 1) <= 31
               PROVE  Within(CrcBits[c][j - (i + 1)], l + (i + 1), k + (i + 1))
    BY <2>0, Zenon
  <2> DEFINE u == j - (i + 1)
  <2>1. u \in Nat /\ u + 1 = j - i /\ i <= j /\ k + i <= 31 /\ k + i <= 30
    OBVIOUS
  <2> HIDE DEF u
  <2>2. Within(CrcBits[c][j - i], l + i, k + i)
    BY <1>2, <2>1, Zenon
  <2>3. CrcBits[c][u] \in Word /\ CrcBits[c][j - i] = CrcBit(CrcBits[c][u])
    BY <2>1, BitsUnfold, Zenon
  <2>4. l + i \in Nat /\ k + i \in Int
    OBVIOUS
  <2>5. Within(CrcBits[c][u], (l + i) + 1, (k + i) + 1)
    BY <2>1, <2>2, <2>3, <2>4, TurnBack, Zenon
  <2>6. (l + i) + 1 = l + (i + 1) /\ (k + i) + 1 = k + (i + 1)
    OBVIOUS
  <2> QED BY <2>5, <2>6, Zenon DEF u
<1>3. n \in T
  <2> HIDE DEF T
  <2> QED BY <1>1, <1>2, Induction, Zenon
<1> QED BY <1>3, Zenon

\* The bits of d are those of c, j places down.
Down(c, d, j) == \A i \in 0..31 : i \in d <=> i + j \in c

\* Zero bits at the low end are shifted out.
LEMMA BitsShift ==
  ASSUME NEW c \in Word, NEW l \in Nat, c \subseteq l..31, NEW n \in Nat, n <= l
  PROVE  Down(c, CrcBits[c][n], n)
<1> DEFINE T == {j \in Nat : j <= l => Down(c, CrcBits[c][j], j)}
<1>1. 0 \in T
  <2>1. \A i \in 0..31 : i + 0 = i
    OBVIOUS
  <2>2. CrcBits[c][0] = c
    BY BitsUnfold, Zenon
  <2> QED BY <2>1, <2>2, Zenon DEF Down
<1>2. ASSUME NEW j \in Nat, j \in T PROVE j + 1 \in T
  <2>0. j + 1 \in Nat
    OBVIOUS
  <2> SUFFICES ASSUME j + 1 <= l PROVE Down(c, CrcBits[c][j + 1], j + 1)
    BY <2>0, Zenon
  <2> DEFINE x == CrcBits[c][j]
  <2>1. x \in Word /\ CrcBits[c][j + 1] = CrcBit(x)
    BY BitsUnfold, Zenon
  <2>2. j <= l /\ j \notin c
    BY DEF Word
  <2>3. Down(c, x, j)
    BY <1>2, <2>2, Zenon
  <2> HIDE DEF x
  <2>4. 0 \notin x
    <3>1. 0 \in 0..31 /\ 0 + j = j
      OBVIOUS
    <3> QED BY <2>2, <2>3, <3>1, Zenon DEF Down
  <2>5. ASSUME NEW i \in 0..31 PROVE i \in CrcBit(x) <=> i + (j + 1) \in c
    <3>1. i \in CrcBit(x) <=> i + 1 \in x
      BY <2>1, <2>4, TurnBits, Zenon DEF Turned
    <3>2. CASE i + 1 \in 0..31
      <4>1. (i + 1) + j = i + (j + 1)
        OBVIOUS
      <4>2. i + 1 \in x <=> (i + 1) + j \in c
        BY <2>3, <3>2, Zenon DEF Down
      <4> QED BY <3>1, <4>1, <4>2, Zenon
    <3>3. CASE i + 1 \notin 0..31
      <4>1. i + 1 \notin x
        BY <2>1, <3>3, Zenon DEF Word
      <4>2. i + (j + 1) \notin 0..31
        BY <3>3
      <4>3. i + (j + 1) \notin c
        BY <4>2, Zenon DEF Word
      <4> QED BY <3>1, <4>1, <4>3, Zenon
    <3> QED BY <3>2, <3>3, Zenon
  <2> QED BY <2>1, <2>5, Zenon DEF Down
<1>3. n \in T
  <2> HIDE DEF T
  <2> QED BY <1>1, <1>2, Induction, Zenon
<1> QED BY <1>3, Zenon

LEMMA ByteTurns ==
  ASSUME NEW c \in Word, NEW b \in Byte
  PROVE  /\ SymDiff(c, b) \in Word /\ CrcByte[c][b] \in Word
         /\ CrcByte[c][b] = CrcBits[SymDiff(c, b)][8]
<1>1. b \in Word
  BY DEF Byte, Word
<1>2. SymDiff(c, b) \in Word
  BY <1>1, XorType, Zenon
<1>3. CrcByte[c][b] = CrcBits[SymDiff(c, b)][8]
  BY DEF CrcByte, Word, Byte
<1>4. 8 \in Nat
  OBVIOUS
<1> QED BY <1>2, <1>3, <1>4, BitsUnfold, Zenon

\* The equation of the recursive function in CrcLoop.
LoopEq(f, m) ==
  f = [n \in 0..Len(m) |-> IF n = 0 THEN 0..31 ELSE CrcByte[f[n - 1]][m[n]]]

LoopStep(m, n) ==
  CrcLoop(m)[n + 1] = CrcBits[SymDiff(CrcLoop(m)[n], m[n + 1])][8]

LEMMA LoopUnfold ==
  ASSUME NEW m \in Seq(Byte)
  PROVE  /\ CrcLoop(m)[0] = 0..31
         /\ \A n \in 0..Len(m) : CrcLoop(m)[n] \in Word
         /\ \A n \in 0..Len(m) : n < Len(m) => m[n + 1] \in Byte /\ LoopStep(m, n)
<1> DEFINE N == Len(m)
           G(n, w) == IF n < N THEN CrcByte[w][m[n + 1]] ELSE w
           g == [n \in Nat |-> [w \in Word |-> G(n, w)]]
           b == CrcLoop(m)
<1>0. N \in Nat /\ \A n \in Nat : n < N => m[n + 1] \in Byte
  OBVIOUS
<1> HIDE DEF N
<1>1. ASSUME NEW n \in Nat, NEW w \in Word PROVE G(n, w) \in Word
  BY <1>0, ByteTurns, Zenon
<1> HIDE DEF G
<1>2. g \in [Nat -> [Word -> Word]] /\ \A n \in Nat, w \in Word : g[n][w] = G(n, w)
  BY <1>1
<1>3. 0..31 \in Word
  BY DEF Word
<1> HIDE DEF g
<1>4. PICK f \in [Nat -> Word] : Iteration(f, 0..31, g)
  BY <1>2, <1>3, PrimitiveRecursion, Zenon
<1> DEFINE h == [n \in 0..N |-> f[n]]
<1>5. LoopEq(h, m)
  <2> DEFINE R(n) == IF n = 0 THEN 0..31 ELSE CrcByte[h[n - 1]][m[n]]
  <2>1. ASSUME NEW n \in 0..N PROVE f[n] = R(n)
    <3>1. CASE n = 0
      BY <1>4, <3>1, Zenon DEF Iteration
    <3>2. CASE n # 0
      <4>1. n - 1 \in Nat /\ n - 1 \in 0..N /\ (n - 1) + 1 = n /\ n - 1 < N
        BY <1>0, <3>2
      <4>2. f[n] = G(n - 1, f[n - 1])
        BY <1>2, <1>4, <4>1, Zenon DEF Iteration
      <4>3. f[n] = CrcByte[f[n - 1]][m[n]]
        BY <4>1, <4>2, Zenon DEF G
      <4>4. h[n - 1] = f[n - 1]
        BY <4>1, Zenon
      <4> HIDE DEF h
      <4> QED BY <3>2, <4>3, <4>4, Zenon
    <3> QED BY <3>1, <3>2, Zenon
  <2> HIDE DEF R
  <2>2. h = [n \in 0..N |-> R(n)]
    BY <2>1, Zenon
  <2> QED BY <2>2, Zenon DEF LoopEq, R, N
<1>6. LoopEq(b, m)
  BY <1>5, Zenon DEF LoopEq, CrcLoop
<1> HIDE DEF b, h
<1>7. b[0] = 0..31
  <2>1. 0 \in 0..N
    BY <1>0
  <2> QED BY <1>6, <2>1, Zenon DEF LoopEq, N
<1>8. ASSUME NEW n \in Nat, n < N PROVE b[n + 1] = CrcByte[b[n]][m[n + 1]]
  <2> DEFINE j == n + 1
  <2>1. j \in 0..N /\ j # 0 /\ j - 1 = n
    BY <1>0, <1>8
  <2> HIDE DEF j
  <2>2. b[j] = CrcByte[b[j - 1]][m[j]]
    BY <1>6, <2>1, Zenon DEF LoopEq, N
  <2> QED BY <2>1, <2>2, Zenon DEF j
<1>9. \A n \in Nat : n <= N => b[n] \in Word
  <2> DEFINE T == {n \in Nat : n <= N => b[n] \in Word}
  <2>1. 0 \in T
    BY <1>3, <1>7, Zenon
  <2>2. ASSUME NEW n \in Nat, n \in T PROVE n + 1 \in T
    <3>1. n + 1 \in Nat /\ (n + 1 <= N => n < N /\ n <= N)
      BY <1>0
    <3> QED BY <1>0, <1>8, <2>2, <3>1, ByteTurns, Zenon
  <2>3. \A n \in Nat : n \in T
    <3> HIDE DEF T
    <3> QED BY <2>1, <2>2, Induction, Zenon
  <2> QED BY <2>3, Zenon
<1>10. \A n \in 0..N : n \in Nat /\ n <= N
  BY <1>0
<1>11. ASSUME NEW n \in 0..N, n < N
       PROVE  m[n + 1] \in Byte /\ b[n + 1] = CrcBits[SymDiff(b[n], m[n + 1])][8]
  BY <1>0, <1>8, <1>9, <1>10, <1>11, ByteTurns, Zenon
<1> QED BY <1>7, <1>9, <1>10, <1>11, Zenon DEF LoopStep, N, b

\* The loop reads only as far as it counts.
LEMMA LoopPrefix ==
  ASSUME NEW f \in Seq(Byte), NEW N \in Nat, N <= Len(f)
  PROVE  /\ SubSeq(f, 1, N) \in Seq(Byte) /\ Len(SubSeq(f, 1, N)) = N
         /\ CrcLoop(SubSeq(f, 1, N))[N] = CrcLoop(f)[N]
<1> DEFINE p == SubSeq(f, 1, N)
           T == {n \in Nat : n <= N => CrcLoop(p)[n] = CrcLoop(f)[n]}
<1>1. p \in Seq(Byte) /\ Len(p) = N /\ Len(f) \in Nat /\ \A i \in 1..N : p[i] = f[i]
  OBVIOUS
<1> HIDE DEF p
<1>2. 0 \in T
  BY <1>1, LoopUnfold, Zenon
<1>3. ASSUME NEW n \in Nat, n \in T PROVE n + 1 \in T
  <2>1. n + 1 \in Nat
    OBVIOUS
  <2> SUFFICES ASSUME n + 1 <= N PROVE CrcLoop(p)[n + 1] = CrcLoop(f)[n + 1]
    BY <2>1, Zenon
  <2>2. /\ n \in 0..Len(p) /\ n < Len(p) /\ n \in 0..Len(f) /\ n < Len(f)
        /\ n <= N /\ n + 1 \in 1..N
    BY <1>1
  <2>3. LoopStep(p, n) /\ LoopStep(f, n)
    BY <1>1, <2>2, LoopUnfold, Zenon
  <2>4. p[n + 1] = f[n + 1] /\ CrcLoop(p)[n] = CrcLoop(f)[n]
    BY <1>1, <1>3, <2>2, Zenon
  <2> QED BY <2>3, <2>4, Zenon DEF LoopStep
<1>4. N \in T
  <2> HIDE DEF T
  <2> QED BY <1>2, <1>3, Induction, Zenon
<1>5. CrcLoop(p)[N] = CrcLoop(f)[N]
  <2>1. N <= N
    OBVIOUS
  <2> QED BY <1>4, <2>1, Zenon
<1> QED BY <1>1, <1>5, Zenon DEF p

-----------------------------------------------------------------------------
(* Two frames, f as sent and g as received *)

Twins(f, g) == f \in Seq(Byte) /\ g \in Seq(Byte) /\ Len(f) = Len(g)

\* In what the two differ, in byte n and in the crc of the first n bytes.
Err(f, g, n) == SymDiff(f[n], g[n])
Diff(f, g, n) == SymDiff(CrcLoop(f)[n], CrcLoop(g)[n])

\* The difference at the end of turn n + 1.
DiffStep(f, g, n) ==
  LET c == SymDiff(Diff(f, g, n), Err(f, g, n + 1))
  IN  c \in Word /\ Diff(f, g, n + 1) = CrcBits[c][8]

Regrouped(a, b, x, y) ==
  SymDiff(SymDiff(a, x), SymDiff(b, y)) = SymDiff(SymDiff(a, b), SymDiff(x, y))

LEMMA XorMiddle ==
  ASSUME NEW a, NEW b, NEW x, NEW y
  PROVE  Regrouped(a, b, x, y)
<1> DEFINE l == SymDiff(SymDiff(a, x), SymDiff(b, y))
           r == SymDiff(SymDiff(a, b), SymDiff(x, y))
<1>1. ASSUME NEW i PROVE i \in l <=> i \in r
  <2>1. /\ i \in SymDiff(a, x) <=> ~(i \in a <=> i \in x)
        /\ i \in SymDiff(b, y) <=> ~(i \in b <=> i \in y)
        /\ i \in SymDiff(a, b) <=> ~(i \in a <=> i \in b)
        /\ i \in SymDiff(x, y) <=> ~(i \in x <=> i \in y)
    BY Zenon DEF SymDiff
  <2>2. i \in l <=> ~(i \in SymDiff(a, x) <=> i \in SymDiff(b, y))
    BY Zenon DEF SymDiff
  <2>3. i \in r <=> ~(i \in SymDiff(a, b) <=> i \in SymDiff(x, y))
    BY Zenon DEF SymDiff
  <2> QED BY <2>1, <2>2, <2>3, Zenon
<1> HIDE DEF l, r
<1>2. l = r
  BY <1>1, Zenon
<1> QED BY <1>2, Zenon DEF l, r, Regrouped

LEMMA DiffUnfold ==
  ASSUME NEW f, NEW g, Twins(f, g)
  PROVE  /\ Diff(f, g, 0) = {}
         /\ \A n \in 0..Len(f) : Diff(f, g, n) \in Word
         /\ \A n \in 0..Len(f) : n < Len(f) => Err(f, g, n + 1) \in Byte /\ DiffStep(f, g, n)
<1>0. f \in Seq(Byte) /\ g \in Seq(Byte) /\ Len(g) = Len(f)
  BY Zenon DEF Twins
<1>1. CrcLoop(f)[0] = 0..31 /\ CrcLoop(g)[0] = 0..31
  BY <1>0, LoopUnfold, Zenon
<1>2. Diff(f, g, 0) = {}
  BY <1>1, Zenon DEF Diff, SymDiff
<1>3. ASSUME NEW n \in 0..Len(f) PROVE CrcLoop(f)[n] \in Word /\ CrcLoop(g)[n] \in Word
  BY <1>0, LoopUnfold, Zenon
<1>4. ASSUME NEW n \in 0..Len(f) PROVE Diff(f, g, n) \in Word
  BY <1>3, XorType, Zenon DEF Diff
<1>5. ASSUME NEW n \in 0..Len(f), n < Len(f)
      PROVE  Err(f, g, n + 1) \in Byte /\ DiffStep(f, g, n)
  <2> DEFINE a == CrcLoop(f)[n]
             b == CrcLoop(g)[n]
             x == f[n + 1]
             y == g[n + 1]
  <2>1. a \in Word /\ b \in Word
    BY <1>3
  <2>2. x \in Byte /\ y \in Byte /\ LoopStep(f, n) /\ LoopStep(g, n)
    BY <1>0, <1>5, LoopUnfold, Zenon
  <2>3. /\ CrcLoop(f)[n + 1] = CrcBits[SymDiff(a, x)][8]
        /\ CrcLoop(g)[n + 1] = CrcBits[SymDiff(b, y)][8]
    BY <2>2, Zenon DEF LoopStep
  <2>4. Err(f, g, n + 1) = SymDiff(x, y) /\ Diff(f, g, n) = SymDiff(a, b)
    BY Zenon DEF Err, Diff
  <2>5. Diff(f, g, n + 1) = SymDiff(CrcBits[SymDiff(a, x)][8], CrcBits[SymDiff(b, y)][8])
    BY <2>3, Zenon DEF Diff
  <2> HIDE DEF a, b, x, y
  <2>6. x \in Word /\ y \in Word
    BY <2>2 DEF Byte, Word
  <2>7. SymDiff(a, x) \in Word /\ SymDiff(b, y) \in Word /\ 8 \in Nat
    BY <2>1, <2>6, XorType, Zenon
  <2>8. Diff(f, g, n + 1) = CrcBits[SymDiff(SymDiff(a, x), SymDiff(b, y))][8]
    BY <2>5, <2>7, BitsLinear, Zenon
  <2>9. SymDiff(x, y) \in Byte
    BY <2>2, Zenon DEF SymDiff, Byte
  <2>10. SymDiff(SymDiff(a, x), SymDiff(b, y)) \in Word
    BY <2>7, XorType, Zenon
  <2>11. SymDiff(SymDiff(a, x), SymDiff(b, y)) = SymDiff(Diff(f, g, n), Err(f, g, n + 1))
    <3>1. SymDiff(SymDiff(a, x), SymDiff(b, y)) = SymDiff(SymDiff(a, b), SymDiff(x, y))
      <4>1. Regrouped(a, b, x, y)
        BY XorMiddle, Zenon
      <4> QED BY <4>1, Zenon DEF Regrouped
    <3> QED BY <2>4, <3>1, Zenon
  <2>12. DiffStep(f, g, n)
    BY <2>8, <2>10, <2>11, Zenon DEF DiffStep
  <2> QED BY <2>4, <2>9, <2>12, Zenon
<1> QED BY <1>2, <1>4, <1>5, Zenon

\* Where no byte differs, neither does the crc.
LEMMA NoDiff ==
  ASSUME NEW f, NEW g, Twins(f, g), NEW w \in 0..Len(f),
         \A n \in 0..Len(f) : n < w => Err(f, g, n + 1) = {}
  PROVE  Diff(f, g, w) = {}
<1> DEFINE T == {n \in Nat : n <= w => Diff(f, g, n) = {}}
<1>0. Len(f) \in Nat /\ w \in Nat /\ w <= Len(f) /\ w <= w
  BY DEF Twins
<1>1. 0 \in T
  BY DiffUnfold, Zenon
<1>2. CrcBits[{}][8] = {}
  <2>1. {} \in Word /\ {} \subseteq 8..31 /\ 8 \in Nat /\ 8 <= 8
    BY DEF Word
  <2>2. Down({}, CrcBits[{}][8], 8) /\ CrcBits[{}][8] \in Word
    BY <2>1, BitsShift, BitsUnfold, Zenon
  <2> QED BY <2>2, Zenon DEF Down, Word
<1>3. ASSUME NEW n \in Nat, n \in T PROVE n + 1 \in T
  <2>1. n + 1 \in Nat
    OBVIOUS
  <2> SUFFICES ASSUME n + 1 <= w PROVE Diff(f, g, n + 1) = {}
    BY <2>1, Zenon
  <2>2. n \in 0..Len(f) /\ n < Len(f) /\ n < w /\ n <= w
    BY <1>0
  <2>3. Diff(f, g, n) = {} /\ Err(f, g, n + 1) = {} /\ DiffStep(f, g, n)
    BY <1>3, <2>2, DiffUnfold, Zenon
  <2>4. SymDiff({}, {}) = {}
    BY Zenon DEF SymDiff
  <2> QED BY <1>2, <2>3, <2>4, Zenon DEF DiffStep
<1>4. w \in T
  <2> HIDE DEF T
  <2> QED BY <1>0, <1>1, <1>3, Induction, Zenon
<1> QED BY <1>0, <1>4, Zenon

LEMMA NextByte ==
  ASSUME NEW i \in 0..31, NEW k \in Nat
  PROVE  /\ i + 8 \notin 0..7 /\ (i + 8) + 8 * k = i + 8 * (k + 1)
         /\ i + 8 \notin 0..31 => i + 8 * (k + 1) \notin 0..31
OBVIOUS

\* Reading a crc of its own leaves every frame with the same value: the four
\* bytes take the difference away, eight bits at a time.
LEMMA TrailerByte ==
  ASSUME NEW f, NEW g, Twins(f, g), NEW n \in 0..Len(f), n < Len(f),
         NEW k \in Nat, NEW D \in Word, Down(D, Diff(f, g, n), 8 * k),
         \A i \in 0..7 : i \in Err(f, g, n + 1) <=> i + 8 * k \in D
  PROVE  Down(D, Diff(f, g, n + 1), 8 * (k + 1))
<1> DEFINE x == Diff(f, g, n)
           e == Err(f, g, n + 1)
           c == SymDiff(x, e)
<1>1. e \in Byte /\ c \in Word /\ Diff(f, g, n + 1) = CrcBits[c][8]
  BY DiffUnfold, Zenon DEF DiffStep
<1> HIDE DEF c, x, e
<1>2. ASSUME NEW i \in 0..7 PROVE i \notin c
  <2>1. i \in 0..31
    OBVIOUS
  <2>2. i \in x <=> i + 8 * k \in D
    BY <2>1, Zenon DEF Down, x
  <2>3. i \in c <=> ~(i \in x <=> i \in e)
    BY Zenon DEF SymDiff, c
  <2>4. i \in e <=> i + 8 * k \in D
    BY Zenon DEF e
  <2> QED BY <2>2, <2>3, <2>4, Zenon
<1>3. c \subseteq 8..31 /\ 8 \in Nat /\ 8 <= 8
  <2>1. ASSUME NEW i \in c PROVE i \in 8..31
    <3>1. i \in 0..31 /\ i \notin 0..7
      BY <1>1, <1>2, Zenon DEF Word
    <3> QED BY <3>1
  <2> QED BY <2>1
<1>4. Down(c, CrcBits[c][8], 8)
  BY <1>1, <1>3, BitsShift, Zenon
<1>5. ASSUME NEW i \in 0..31 PROVE i \in CrcBits[c][8] <=> i + 8 * (k + 1) \in D
  <2>1. i \in CrcBits[c][8] <=> i + 8 \in c
    BY <1>4, Zenon DEF Down
  <2>2. CASE i + 8 \in 0..31
    <3>1. i + 8 \notin e
      BY <1>1, NextByte, Zenon DEF Byte
    <3>2. i + 8 \in x <=> (i + 8) + 8 * k \in D
      BY <2>2, Zenon DEF Down, x
    <3>3. i + 8 \in c <=> i + 8 \in x
      BY <3>1, Zenon DEF SymDiff, c
    <3> QED BY <2>1, <3>2, <3>3, NextByte, Zenon
  <2>3. CASE i + 8 \notin 0..31
    <3>1. i + 8 \notin c
      BY <1>1, <2>3, Zenon DEF Word
    <3>2. i + 8 * (k + 1) \notin 0..31
      BY <2>3, NextByte, Zenon
    <3>3. i + 8 * (k + 1) \notin D
      BY <3>2, Zenon DEF Word
    <3> QED BY <2>1, <3>1, <3>3, Zenon
  <2> QED BY <2>2, <2>3, Zenon
<1> QED BY <1>1, <1>5, Zenon DEF Down

\* Byte k of the trailer of a frame whose crc is right.
Trails(f, N, k) ==
  f[N + k] = {i \in 0..7 : i + 8 * (k - 1) \in (0..31) \ CrcLoop(f)[N]}

LEMMA TrailerIs ==
  ASSUME NEW f \in Seq(Byte), NEW N \in Nat, Len(f) = N + 4, CrcMatches(f), NEW k \in 1..4
  PROVE  Trails(f, N, k)
<1> DEFINE p == SubSeq(f, 1, N)
           z == SubSeq(f, N + 1, N + 4)
<1>1. N + 4 - 4 = N /\ N + 4 - 4 + 1 = N + 1 /\ N <= Len(f)
  OBVIOUS
<1>2. CrcBytes(crc32(p)) = z
  BY <1>1 DEF CrcMatches, kCrcSize
<1>3. crc32(p) = (0..31) \ CrcLoop(f)[N]
  BY <1>1, LoopPrefix, Zenon DEF crc32
<1>4. z[k] = f[N + k]
  BY <1>1
<1> HIDE DEF p, z
<1>5. k \in 1..kCrcSize
  BY DEF kCrcSize
<1>6. CrcBytes(crc32(p))[k] = {i \in 0..7 : i + 8 * (k - 1) \in crc32(p)}
  BY <1>5, Zenon DEF CrcBytes
<1> QED BY <1>2, <1>3, <1>4, <1>6, Zenon DEF Trails

LEMMA SameEnd ==
  ASSUME NEW f, NEW g, Twins(f, g), NEW N \in Nat, Len(f) = N + 4,
         CrcMatches(f), CrcMatches(g)
  PROVE  Diff(f, g, N + 4) = {}
<1> DEFINE D == Diff(f, g, N)
<1>0. f \in Seq(Byte) /\ g \in Seq(Byte) /\ Len(g) = N + 4
  BY Zenon DEF Twins
<1>1. N \in 0..Len(f) /\ N <= Len(f)
  OBVIOUS
<1>2. D \in Word
  BY <1>1, DiffUnfold, Zenon
<1>3. ASSUME NEW k \in 1..4, NEW i \in 0..7
      PROVE  i \in Err(f, g, N + k) <=> i + 8 * (k - 1) \in D
  <2> DEFINE b == i + 8 * (k - 1)
  <2>1. b \in 0..31
    OBVIOUS
  <2>2. /\ f[N + k] = {j \in 0..7 : j + 8 * (k - 1) \in (0..31) \ CrcLoop(f)[N]}
        /\ g[N + k] = {j \in 0..7 : j + 8 * (k - 1) \in (0..31) \ CrcLoop(g)[N]}
    <3>1. Trails(f, N, k) /\ Trails(g, N, k)
      BY <1>0, TrailerIs, Zenon
    <3> QED BY <3>1, Zenon DEF Trails
  <2>3. /\ i \in f[N + k] <=> b \notin CrcLoop(f)[N]
        /\ i \in g[N + k] <=> b \notin CrcLoop(g)[N]
    BY <2>1, <2>2, Zenon
  <2> HIDE DEF b
  <2>4. b \in D <=> ~(b \in CrcLoop(f)[N] <=> b \in CrcLoop(g)[N])
    BY Zenon DEF SymDiff, Diff, D
  <2>5. i \in Err(f, g, N + k) <=> ~(i \in f[N + k] <=> i \in g[N + k])
    BY Zenon DEF SymDiff, Err
  <2>6. i \in Err(f, g, N + k) <=> b \in D
    BY <2>3, <2>4, <2>5, Zenon
  <2> QED BY <2>6, Zenon DEF b
<1> HIDE DEF D
<1> DEFINE T == {k \in Nat : k <= 4 => Down(D, Diff(f, g, N + k), 8 * k)}
<1>4. 0 \in T
  <2>1. N + 0 = N /\ 8 * 0 = 0 /\ \A i \in 0..31 : i + 0 = i
    OBVIOUS
  <2>2. Down(D, Diff(f, g, N + 0), 8 * 0)
    BY <2>1, Zenon DEF Down, D
  <2> QED BY <2>2
<1>5. ASSUME NEW k \in Nat, k \in T PROVE k + 1 \in T
  <2>0. k + 1 \in Nat
    OBVIOUS
  <2> SUFFICES ASSUME k + 1 <= 4 PROVE Down(D, Diff(f, g, N + (k + 1)), 8 * (k + 1))
    BY <2>0, Zenon
  <2> DEFINE n == N + k
  <2>1. /\ n \in 0..Len(f) /\ n < Len(f) /\ n + 1 = N + (k + 1) /\ k <= 4
        /\ k + 1 \in 1..4 /\ (k + 1) - 1 = k
    OBVIOUS
  <2>2. Down(D, Diff(f, g, n), 8 * k)
    BY <1>5, <2>1, Zenon
  <2> HIDE DEF n
  <2>3. \A i \in 0..7 : i \in Err(f, g, n + 1) <=> i + 8 * k \in D
    BY <1>3, <2>1, Zenon
  <2>4. Down(D, Diff(f, g, n + 1), 8 * (k + 1))
    BY <1>2, <2>1, <2>2, <2>3, TrailerByte, Zenon
  <2> QED BY <2>1, <2>4, Zenon
<1>6. 4 \in T
  <2>1. 4 \in Nat
    OBVIOUS
  <2> HIDE DEF T
  <2> QED BY <1>4, <1>5, <2>1, Induction, Zenon
<1>7. 4 <= 4 /\ N + 4 \in 0..Len(f) /\ \A i \in 0..31 : i + 8 * 4 \notin 0..31
  OBVIOUS
<1>8. Down(D, Diff(f, g, N + 4), 8 * 4) /\ Diff(f, g, N + 4) \in Word
  BY <1>6, <1>7, DiffUnfold, Zenon
<1> QED BY <1>2, <1>7, <1>8, Zenon DEF Down, Word

\* One byte backwards: a difference in the low bits after byte n + 1 comes from
\* one in the low bits before it.
LEMMA ByteBack ==
  ASSUME NEW f, NEW g, Twins(f, g), NEW n \in 0..Len(f), n < Len(f),
         NEW k \in Int, k + 8 <= 31, Within(Diff(f, g, n + 1), 0, k),
         \A b \in 0..7 : b \in Err(f, g, n + 1) => b <= k + 8
  PROVE  Within(Diff(f, g, n), 0, k + 8)
<1> DEFINE x == Diff(f, g, n)
           e == Err(f, g, n + 1)
           c == SymDiff(x, e)
<1>1. e \in Byte /\ c \in Word /\ Diff(f, g, n + 1) = CrcBits[c][8]
  BY DiffUnfold, Zenon DEF DiffStep
<1>2. ASSUME NEW b \in 0..7, b \in e PROVE b <= k + 8
  BY <1>2, Zenon
<1>3. ASSUME NEW b, b \in x PROVE b \in c \/ b \in e
  BY <1>3, Zenon DEF SymDiff
<1> HIDE DEF c, x, e
<1>4. Within(CrcBits[c][8], 0, k)
  BY <1>1, Zenon
<1>5. Within(CrcBits[c][8 - 8], 0 + 8, k + 8)
  <2>1. 8 \in Nat /\ 8 <= 8 /\ 0 \in Nat
    OBVIOUS
  <2> QED BY <1>1, <1>4, <2>1, BitsBack, Zenon
<1>6. 8 - 8 = 0
  OBVIOUS
<1>7. Within(c, 0 + 8, k + 8)
  BY <1>1, <1>5, <1>6, BitsUnfold, Zenon
<1>8. ASSUME NEW b \in x PROVE b \in 0..(k + 8)
  <2>1. CASE b \in c
    <3>1. b \in (0 + 8)..(k + 8)
      BY <1>7, <2>1, Zenon DEF Within
    <3> QED BY <3>1
  <2>2. CASE b \in e
    <3>1. b \in 0..7 /\ b <= k + 8
      BY <1>1, <1>2, <2>2, Zenon DEF Byte
    <3> QED BY <3>1
  <2> QED BY <1>3, <2>1, <2>2, Zenon
<1>9. x \subseteq 0..(k + 8)
  BY <1>8, Zenon
<1> QED BY <1>9, Zenon DEF Within, x

\* A difference that starts at bit s of its first byte leaves something above bit
\* s + 23 of the crc.
LEMMA FirstByte ==
  ASSUME NEW f, NEW g, Twins(f, g), NEW n \in 0..Len(f), n < Len(f), Diff(f, g, n) = {},
         NEW s \in 0..7, s \in Err(f, g, n + 1),
         \A b \in 0..7 : b \in Err(f, g, n + 1) => s <= b
  PROVE  ~Within(Diff(f, g, n + 1), 0, s + 23)
<1> SUFFICES ASSUME Within(Diff(f, g, n + 1), 0, s + 23) PROVE FALSE
  OBVIOUS
<1> DEFINE e == Err(f, g, n + 1)
<1>1. SymDiff({}, e) = e
  BY Zenon DEF SymDiff
<1>2. e \in Byte /\ e \in Word /\ Diff(f, g, n + 1) = CrcBits[e][8]
  <2>1. e \in Byte /\ DiffStep(f, g, n)
    BY DiffUnfold, Zenon
  <2>2. SymDiff(Diff(f, g, n), e) = e
    BY <1>1, Zenon
  <2>3. e \in Word /\ Diff(f, g, n + 1) = CrcBits[e][8]
    BY <2>1, <2>2 DEF DiffStep
  <2> QED BY <2>1, <2>3, Zenon
<1>3. ASSUME NEW b \in 0..7, b \in e PROVE s <= b
  BY <1>3, Zenon
<1>4. s \in e
  BY Zenon
<1> HIDE DEF e
<1>5. e \subseteq s..31
  <2>1. ASSUME NEW b \in e PROVE b \in s..31
    <3>1. b \in 0..7 /\ s <= b
      BY <1>2, <1>3, Zenon DEF Byte
    <3> QED BY <3>1
  <2> QED BY <2>1, Zenon
<1> DEFINE n8 == 8 - s
<1>6. /\ n8 \in Nat /\ n8 <= 8 /\ 8 \in Nat /\ 0 \in Nat /\ s + 23 \in Int
      /\ (s + 23) + n8 <= 31 /\ s \in Nat /\ s <= s
      /\ 8 - n8 = s /\ 0 \notin (0 + n8)..((s + 23) + n8) /\ 0 \in 0..31 /\ 0 + s = s
  OBVIOUS
<1> HIDE DEF n8
<1>7. Within(CrcBits[e][8], 0, s + 23)
  BY <1>2, Zenon
<1>8. Within(CrcBits[e][8 - n8], 0 + n8, (s + 23) + n8)
  BY <1>2, <1>6, <1>7, BitsBack, Zenon
<1>9. 0 \notin CrcBits[e][s]
  BY <1>6, <1>8, Zenon DEF Within
<1>10. Down(e, CrcBits[e][s], s)
  BY <1>2, <1>5, <1>6, BitsShift, Zenon
<1> QED BY <1>4, <1>6, <1>9, <1>10, Zenon DEF Down

\* Of two frames that differ, and differ within 32 bits of the first that does,
\* at most one has the right crc.
LEMMA BurstShows ==
  ASSUME NEW f, NEW g, Twins(f, g), NEW N \in Nat, Len(f) = N + 4,
         NEW w \in 0..Len(f), w < Len(f), NEW s \in 0..7, s \in Err(f, g, w + 1),
         \A n \in 0..Len(f), b \in 0..7 :
           n < Len(f) /\ b \in Err(f, g, n + 1) =>
             8 * w + s <= 8 * n + b /\ 8 * n + b < 8 * w + s + 32
  PROVE  ~(CrcMatches(f) /\ CrcMatches(g))
<1> SUFFICES ASSUME CrcMatches(f), CrcMatches(g) PROVE FALSE
  OBVIOUS
<1> DEFINE L == Len(f)
           M == L - (w + 1)
           T == {m \in Nat : m <= M => Within(Diff(f, g, L - m), 0, s + 23 - 8 * (M - m))}
<1>1. L \in Nat /\ M \in Nat /\ w \in Nat /\ w < L
  OBVIOUS
<1>2. ASSUME NEW n \in 0..L, n < L, NEW b \in 0..7, b \in Err(f, g, n + 1)
      PROVE  8 * w + s <= 8 * n + b /\ 8 * n + b < 8 * w + s + 32
  BY <1>2, Zenon
<1>3. Diff(f, g, L) = {}
  BY SameEnd, Zenon
<1>4. 0 \in T
  <2>1. L - 0 = L /\ 0 \in Nat
    BY <1>1
  <2>2. Within(Diff(f, g, L - 0), 0, s + 23 - 8 * (M - 0))
    BY <1>3, <2>1, Zenon DEF Within
  <2> QED BY <2>1, <2>2
<1>5. ASSUME NEW m \in Nat, m \in T PROVE m + 1 \in T
  <2>0. m + 1 \in Nat
    OBVIOUS
  <2> SUFFICES ASSUME m + 1 <= M
               PROVE  Within(Diff(f, g, L - (m + 1)), 0, s + 23 - 8 * (M - (m + 1)))
    BY <2>0, Zenon
  <2> DEFINE n == L - (m + 1)
             k == s + 23 - 8 * (M - m)
  <2>1. /\ n \in 0..L /\ n < L /\ n + 1 = L - m /\ m <= M
        /\ k \in Int /\ k + 8 <= 31 /\ k + 8 = s + 23 - 8 * (M - (m + 1))
        /\ k + 8 = 8 * w + s + 31 - 8 * n
    BY <1>1
  <2>2. Within(Diff(f, g, n + 1), 0, k)
    BY <1>5, <2>1, Zenon
  <2> HIDE DEF n, k
  <2>3. ASSUME NEW b \in 0..7, b \in Err(f, g, n + 1) PROVE b <= k + 8
    <3>1. 8 * n + b < 8 * w + s + 32
      BY <1>2, <2>1, <2>3, Zenon
    <3> QED BY <1>1, <2>1, <3>1
  <2>4. Within(Diff(f, g, n), 0, k + 8)
    BY <2>1, <2>2, <2>3, ByteBack, Zenon
  <2>5. n = L - (m + 1)
    BY Zenon DEF n
  <2> QED BY <2>1, <2>4, <2>5, Zenon
<1>6. M \in T
  <2> HIDE DEF T, M
  <2> QED BY <1>1, <1>4, <1>5, Induction, Zenon
<1>7. Within(Diff(f, g, w + 1), 0, s + 23)
  <2>1. M <= M /\ L - M = w + 1 /\ s + 23 - 8 * (M - M) = s + 23
    BY <1>1
  <2>2. Within(Diff(f, g, L - M), 0, s + 23 - 8 * (M - M))
    BY <1>6, <2>1, Zenon
  <2> QED BY <2>1, <2>2, Zenon
<1>8. ASSUME NEW n \in 0..L, n < w PROVE Err(f, g, n + 1) = {}
  <2>1. n < L /\ \A b \in 0..7 : ~(8 * w + s <= 8 * n + b)
    BY <1>1, <1>8
  <2>2. Err(f, g, n + 1) \in Byte
    BY <2>1, DiffUnfold, Zenon
  <2> QED BY <1>2, <2>1, <2>2, Zenon DEF Byte
<1>9. Diff(f, g, w) = {}
  BY <1>8, NoDiff, Zenon
<1>10. ASSUME NEW b \in 0..7, b \in Err(f, g, w + 1) PROVE s <= b
  <2>1. 8 * w + s <= 8 * w + b
    BY <1>1, <1>2, <1>10, Zenon
  <2> QED BY <1>1, <2>1
<1> QED BY <1>1, <1>7, <1>9, <1>10, FirstByte, Zenon

-----------------------------------------------------------------------------
(* The division of polynomials that defines the CRC of 802.3 *)

\* Whether a step of the division leaves the term of degree x.
Left(S, d, x) ==
  x \in Eliminate(S, d) <=> ~(x \in S <=> d \in S /\ x - d + 32 \in Generator)

LEMMA EliminateBits ==
  ASSUME NEW S \in SUBSET Int, NEW d \in Int
  PROVE  Eliminate(S, d) \in SUBSET Int /\ \A x \in Int : Left(S, d, x)
<1> DEFINE G == {g + d - 32 : g \in Generator}
<1>1. Generator \in SUBSET Int
  BY DEF Generator
<1>2. G \in SUBSET Int /\ \A x \in Int : x \in G <=> x - d + 32 \in Generator
  BY <1>1
<1>3. Eliminate(S, d) = IF d \in S THEN SymDiff(S, G) ELSE S
  BY Zenon DEF Eliminate
<1> HIDE DEF G
<1>4. Eliminate(S, d) \in SUBSET Int
  BY <1>2, <1>3, Zenon DEF SymDiff
<1>5. ASSUME NEW x \in Int PROVE Left(S, d, x)
  <2>1. x \in G <=> x - d + 32 \in Generator
    BY <1>2
  <2> QED BY <1>3, <2>1, Zenon DEF SymDiff, Left
<1> QED BY <1>4, <1>5, Zenon

\* The equation of the recursive function in Division.
RestEq(f, S, n) ==
  f = [j \in Nat |-> IF j = 0 THEN S ELSE Eliminate(f[j - 1], n + 32 - j)]

DivisionStep(S, n, j) ==
  Division(S, n)[j + 1] = Eliminate(Division(S, n)[j], n + 31 - j)

LEMMA DivisionUnfold ==
  ASSUME NEW S \in SUBSET Int, NEW n \in Nat
  PROVE  /\ Division(S, n)[0] = S
         /\ \A j \in Nat : Division(S, n)[j] \in SUBSET Int /\ DivisionStep(S, n, j)
<1> DEFINE P == SUBSET Int
           G(j, w) == Eliminate(w, n + 31 - j)
           g == [j \in Nat |-> [w \in P |-> G(j, w)]]
           b == Division(S, n)
<1>1. ASSUME NEW j \in Nat, NEW w \in P PROVE G(j, w) \in P
  <2>1. n + 31 - j \in Int
    OBVIOUS
  <2> QED BY <2>1, EliminateBits, Zenon
<1> HIDE DEF G
<1>2. g \in [Nat -> [P -> P]] /\ \A j \in Nat, w \in P : g[j][w] = G(j, w)
  <2> HIDE DEF P
  <2> QED BY <1>1
<1> HIDE DEF g
<1>3. PICK f \in [Nat -> P] : Iteration(f, S, g)
  BY <1>2, PrimitiveRecursion, Zenon
<1>4. RestEq(f, S, n)
  <2> DEFINE R(j) == IF j = 0 THEN S ELSE Eliminate(f[j - 1], n + 32 - j)
  <2>1. ASSUME NEW j \in Nat PROVE f[j] = R(j)
    <3>1. CASE j = 0
      BY <1>3, <3>1, Zenon DEF Iteration
    <3>2. CASE j # 0
      <4>1. j - 1 \in Nat /\ (j - 1) + 1 = j /\ n + 31 - (j - 1) = n + 32 - j
        BY <3>2
      <4>2. f[j] = G(j - 1, f[j - 1])
        BY <1>2, <1>3, <4>1, Zenon DEF Iteration
      <4> QED BY <3>2, <4>1, <4>2, Zenon DEF G
    <3> QED BY <3>1, <3>2, Zenon
  <2> HIDE DEF R, P
  <2>2. f = [j \in Nat |-> f[j]]
    OBVIOUS
  <2>3. f = [j \in Nat |-> R(j)]
    BY <2>1, <2>2
  <2> QED BY <2>3, Zenon DEF RestEq, R
<1>5. RestEq(b, S, n)
  BY <1>4, Zenon DEF RestEq, Division
<1> HIDE DEF b
<1>6. b[0] = S
  BY <1>5, Zenon DEF RestEq
<1>7. ASSUME NEW j \in Nat PROVE b[j + 1] = Eliminate(b[j], n + 31 - j)
  <2> DEFINE k == j + 1
  <2>1. k \in Nat /\ k # 0 /\ k - 1 = j /\ n + 32 - k = n + 31 - j
    OBVIOUS
  <2> HIDE DEF k
  <2>2. b[k] = Eliminate(b[k - 1], n + 32 - k)
    BY <1>5, <2>1, Zenon DEF RestEq
  <2> QED BY <2>1, <2>2, Zenon DEF k
<1>8. \A j \in Nat : b[j] \in P
  <2> DEFINE T == {j \in Nat : b[j] \in P}
  <2>1. 0 \in T
    BY <1>6, Zenon
  <2>2. ASSUME NEW j \in Nat, j \in T PROVE j + 1 \in T
    <3>1. j + 1 \in Nat
      OBVIOUS
    <3>2. b[j] \in P /\ b[j + 1] = G(j, b[j])
      BY <1>7, <2>2, Zenon DEF G
    <3>3. b[j + 1] \in P
      BY <1>1, <3>2, Zenon
    <3> QED BY <3>1, <3>3, Zenon
  <2>3. \A j \in Nat : j \in T
    <3> HIDE DEF T
    <3> QED BY <2>1, <2>2, Induction, Zenon
  <2> QED BY <2>3, Zenon
<1> QED BY <1>6, <1>7, <1>8, Zenon DEF b, DivisionStep

\* What is left after j steps, R, is the crc C at its upper end, exclusive or the
\* bits B of the message from number l on, which the loop has not yet read.
Shows(R, C, B, n, j, l) ==
  \A p \in j..(n + 31) : n + 31 - p \in R <=> ~(p - j \in C <=> l <= p /\ p \in B)

\* 0xEDB88320 is the generator without its first term, reflected.
LEMMA Reflected == \A i \in Nat : 31 - i \in Generator <=> i \in Polynomial
BY DEF Generator, Polynomial

\* A turn of the inner loop is a step of the division.
LEMMA TurnDivides ==
  ASSUME NEW C \in Word, NEW B, NEW R \in SUBSET Int, NEW n \in Nat, NEW j \in Nat,
         NEW l \in Nat, j < l, Shows(R, C, B, n, j, l)
  PROVE  Shows(Eliminate(R, n + 31 - j), CrcBit(C), B, n, j + 1, l)
<1> DEFINE d == n + 31 - j
<1>0. d \in Int
  OBVIOUS
<1>1. n + 31 >= j => (d \in R <=> 0 \in C)
  <2> SUFFICES ASSUME n + 31 >= j PROVE d \in R <=> 0 \in C
    OBVIOUS
  <2>1. j \in j..(n + 31) /\ j - j = 0 /\ ~(l <= j)
    OBVIOUS
  <2> QED BY <2>1, Zenon DEF Shows
<1>2. ASSUME NEW p \in (j + 1)..(n + 31)
      PROVE  n + 31 - p \in Eliminate(R, d)
               <=> ~(p - (j + 1) \in CrcBit(C) <=> l <= p /\ p \in B)
  <2> DEFINE x == n + 31 - p
             i == p - (j + 1)
  <2>1. /\ x \in Int /\ i \in Nat /\ i + 1 = p - j /\ x - d + 32 = 31 - i
        /\ p \in j..(n + 31) /\ n + 31 >= j
    OBVIOUS
  <2>2. x \in R <=> ~(p - j \in C <=> l <= p /\ p \in B)
    BY <2>1, Zenon DEF Shows
  <2> HIDE DEF d
  <2>3. x \in Eliminate(R, d) <=> ~(x \in R <=> d \in R /\ x - d + 32 \in Generator)
    <3>1. Left(R, d, x)
      BY <1>0, <2>1, EliminateBits, Zenon
    <3> QED BY <3>1, Zenon DEF Left
  <2> HIDE DEF x, i
  <2>4. x \in Eliminate(R, d) <=> ~(x \in R <=> 0 \in C /\ i \in Polynomial)
    BY <1>1, <2>1, <2>3, Reflected, Zenon
  <2>5. i \in CrcBit(C) <=> Turned(C, i)
    <3>1. CASE i \in 0..31
      BY <3>1, TurnBits, Zenon
    <3>2. CASE i \notin 0..31
      <4>1. i \notin Polynomial
        BY <3>2 DEF Polynomial
      <4>2. i + 1 \notin 0..31
        BY <2>1, <3>2
      <4>3. i + 1 \notin C /\ i \notin CrcBit(C)
        BY <3>2, <4>2, TurnBits, Zenon DEF Word
      <4> QED BY <4>1, <4>3, Zenon DEF Turned
    <3> QED BY <3>1, <3>2, Zenon
  <2>6. i \in CrcBit(C) <=> ~(p - j \in C <=> 0 \in C /\ i \in Polynomial)
    BY <2>1, <2>5, Zenon DEF Turned
  <2>7. x \in Eliminate(R, d) <=> ~(i \in CrcBit(C) <=> l <= p /\ p \in B)
    BY <2>2, <2>4, <2>6, Zenon
  <2> QED BY <2>7, Zenon DEF x, i
<1> QED BY <1>2, Zenon DEF Shows

\* The bits of byte k + 1 of the message are numbered from 8 * k on.
Numbered(m, k) == \A b \in 0..7 : 8 * k + b \in Bits(m) <=> b \in m[k + 1]

LEMMA MessageBits ==
  ASSUME NEW m \in Seq(Byte)
  PROVE  /\ Bits(m) \in SUBSET (0..(8 * Len(m) - 1))
         /\ \A k \in 0..Len(m) : k < Len(m) => Numbered(m, k)
<1>0. Len(m) \in Nat
  OBVIOUS
<1>1. \A p : p \in Bits(m) <=> \E k \in 1..Len(m) : \E b \in m[k] : p = 8 * (k - 1) + b
  BY DEF Bits
<1>2. ASSUME NEW k \in 1..Len(m), NEW b \in m[k] PROVE b \in 0..7
  <2>1. m[k] \in Byte
    OBVIOUS
  <2> QED BY <2>1, Zenon DEF Byte
<1>3. ASSUME NEW p \in Bits(m) PROVE p \in 0..(8 * Len(m) - 1)
  <2>0. PICK k \in 1..Len(m) : \E b \in m[k] : p = 8 * (k - 1) + b
    BY <1>1, Zenon
  <2>1. PICK b \in m[k] : p = 8 * (k - 1) + b
    BY <2>0, Zenon
  <2>2. b \in 0..7
    BY <1>2, Zenon
  <2> QED BY <1>0, <2>1, <2>2
<1>4. ASSUME NEW k \in 0..Len(m), k < Len(m), NEW b \in 0..7
      PROVE  8 * k + b \in Bits(m) <=> b \in m[k + 1]
  <2>1. k + 1 \in 1..Len(m) /\ 8 * k + b = 8 * ((k + 1) - 1) + b
    BY <1>0, <1>4
  <2>2. b \in m[k + 1] => 8 * k + b \in Bits(m)
    BY <1>1, <2>1, Zenon
  <2>3. ASSUME 8 * k + b \in Bits(m) PROVE b \in m[k + 1]
    <3>0. PICK i \in 1..Len(m) : \E a \in m[i] : 8 * k + b = 8 * (i - 1) + a
      BY <1>1, <2>3, Zenon
    <3>1. PICK a \in m[i] : 8 * k + b = 8 * (i - 1) + a
      BY <3>0, Zenon
    <3>2. a \in 0..7
      BY <1>2, Zenon
    <3>3. i = k + 1 /\ a = b
      BY <1>0, <3>1, <3>2
    <3> QED BY <3>3, Zenon
  <2> QED BY <2>2, <2>3, Zenon
<1> QED BY <1>3, <1>4, Zenon DEF Numbered

\* Reading a byte changes nothing of what is left, only where its bits are.
LEMMA ByteRead ==
  ASSUME NEW m \in Seq(Byte), NEW k \in 0..Len(m), k < Len(m), NEW R, NEW C, NEW n \in Nat,
         Shows(R, C, Bits(m), n, 8 * k, 8 * k)
  PROVE  Shows(R, SymDiff(C, m[k + 1]), Bits(m), n, 8 * k, 8 * k + 8)
<1> DEFINE B == Bits(m)
           y == m[k + 1]
           c == SymDiff(C, y)
<1>0. y \in Byte /\ k \in Nat
  OBVIOUS
<1>1. Numbered(m, k)
  BY MessageBits, Zenon
<1>2. ASSUME NEW p \in (8 * k)..(n + 31)
      PROVE  n + 31 - p \in R <=> ~(p - 8 * k \in c <=> 8 * k + 8 <= p /\ p \in B)
  <2> DEFINE i == p - 8 * k
  <2>1. /\ i \in Nat /\ p = 8 * k + i /\ 8 * k <= p /\ (8 * k + 8 <= p <=> ~(i \in 0..7))
    BY <1>0
  <2>2. n + 31 - p \in R <=> ~(i \in C <=> p \in B)
    BY <2>1, Zenon DEF Shows
  <2>3. i \in c <=> ~(i \in C <=> i \in y)
    BY Zenon DEF SymDiff
  <2> HIDE DEF i, B, c
  <2>4. i \in 0..7 => (p \in B <=> i \in y)
    BY <1>1, <2>1, Zenon DEF Numbered, B
  <2>5. i \notin 0..7 => i \notin y
    BY <1>0, Zenon DEF Byte
  <2>6. n + 31 - p \in R <=> ~(i \in c <=> 8 * k + 8 <= p /\ p \in B)
    <3> DEFINE late == 8 * k + 8 <= p
    <3>1. late <=> ~(i \in 0..7)
      BY <2>1, Zenon
    <3> HIDE DEF late
    <3>2. n + 31 - p \in R <=> ~(i \in c <=> late /\ p \in B)
      BY <2>2, <2>3, <2>4, <2>5, <3>1, Zenon
    <3> QED BY <3>2, Zenon DEF late
  <2> QED BY <2>6, Zenon DEF i
<1> QED BY <1>2, Zenon DEF Shows

\* A turn of the outer loop is eight steps of the division.
LEMMA ByteDivides ==
  ASSUME NEW m \in Seq(Byte), NEW k \in 0..Len(m), k < Len(m), NEW S \in SUBSET Int,
         NEW n \in Nat, Shows(Division(S, n)[8 * k], CrcLoop(m)[k], Bits(m), n, 8 * k, 8 * k)
  PROVE  Shows(Division(S, n)[8 * (k + 1)], CrcLoop(m)[k + 1], Bits(m), n,
               8 * (k + 1), 8 * (k + 1))
<1> DEFINE D == Division(S, n)
           B == Bits(m)
           c == SymDiff(CrcLoop(m)[k], m[k + 1])
           e == 8 * k
           T == {t \in Nat : t <= 8 => Shows(D[e + t], CrcBits[c][t], B, n, e + t, e + 8)}
<1>1. Shows(D[e], c, B, n, e, e + 8)
  BY ByteRead, Zenon
<1>2. c \in Word /\ CrcLoop(m)[k + 1] = CrcBits[c][8]
  BY LoopUnfold, ByteTurns, Zenon DEF LoopStep
<1>3. e \in Nat /\ e + 8 = 8 * (k + 1) /\ e + 0 = e
  OBVIOUS
<1> HIDE DEF D, B, c, e
<1>4. 0 \in T
  <2>1. Shows(D[e + 0], CrcBits[c][0], B, n, e + 0, e + 8)
    BY <1>1, <1>2, <1>3, BitsUnfold, Zenon
  <2> QED BY <2>1
<1>5. ASSUME NEW t \in Nat, t \in T PROVE t + 1 \in T
  <2>0. t + 1 \in Nat
    OBVIOUS
  <2> SUFFICES ASSUME t + 1 <= 8
               PROVE  Shows(D[e + (t + 1)], CrcBits[c][t + 1], B, n, e + (t + 1), e + 8)
    BY <2>0, Zenon
  <2> DEFINE j == e + t
             l == e + 8
  <2>1. j \in Nat /\ l \in Nat /\ j < l /\ j + 1 = e + (t + 1) /\ t <= 8
    BY <1>3
  <2>2. Shows(D[j], CrcBits[c][t], B, n, j, l)
    BY <1>5, <2>1, Zenon
  <2> HIDE DEF j
  <2>3. D[j] \in SUBSET Int /\ D[j + 1] = Eliminate(D[j], n + 31 - j)
    <3>1. Division(S, n)[j] \in SUBSET Int /\ DivisionStep(S, n, j)
      BY <2>1, DivisionUnfold, Zenon
    <3> QED BY <3>1, Zenon DEF D, DivisionStep
  <2>4. CrcBits[c][t] \in Word /\ CrcBits[c][t + 1] = CrcBit(CrcBits[c][t])
    BY <1>2, BitsUnfold, Zenon
  <2> HIDE DEF l
  <2>5. Shows(D[j + 1], CrcBits[c][t + 1], B, n, j + 1, l)
    <3> DEFINE R == D[j]
               z == CrcBits[c][t]
    <3>1. R \in SUBSET Int /\ z \in Word /\ Shows(R, z, B, n, j, l)
      BY <2>2, <2>3, <2>4, Zenon
    <3> HIDE DEF R, z
    <3>2. Shows(Eliminate(R, n + 31 - j), CrcBit(z), B, n, j + 1, l)
      BY <2>1, <3>1, TurnDivides, Zenon
    <3> QED BY <2>3, <2>4, <3>2, Zenon DEF R, z
  <2> QED BY <2>1, <2>5, Zenon DEF l
<1>6. 8 \in T
  <2>1. 8 \in Nat
    OBVIOUS
  <2> HIDE DEF T
  <2> QED BY <1>4, <1>5, <2>1, Induction, Zenon
<1>7. 8 <= 8
  OBVIOUS
<1> QED BY <1>2, <1>3, <1>6, <1>7, Zenon DEF D, B

\* crc32 of eth.cc computes the CRC of 802.3, of every message.
LEMMA Crc32Divides ==
  ASSUME NEW m \in Seq(Byte)
  PROVE  crc32(m) = Crc802_3(m)
<1> DEFINE L == Len(m)
           n == 8 * L
           B == Bits(m)
           M == {n + 31 - p : p \in B}
           S == SymDiff(M, n..(n + 31))
           D == Division(S, n)
           C == CrcLoop(m)
           T == {k \in Nat : k <= L => Shows(D[8 * k], C[k], B, n, 8 * k, 8 * k)}
<1>0. L \in Nat /\ n \in Nat
  OBVIOUS
<1>1. B \in SUBSET (0..(n - 1))
  BY MessageBits, Zenon
<1>2. crc32(m) = (0..31) \ C[L]
  BY Zenon DEF crc32
<1>3. Crc802_3(m) = {i \in 0..31 : 31 - i \notin D[n]}
  BY Zenon DEF Crc802_3
<1> HIDE DEF B
<1>4. M \in SUBSET Int /\ \A p \in Int : n + 31 - p \in M <=> p \in B
  BY <1>0, <1>1
<1> HIDE DEF M
<1>5. S \in SUBSET Int
  <2>1. n..(n + 31) \in SUBSET Int
    BY <1>0
  <2> QED BY <1>4, <2>1, Zenon DEF SymDiff
<1>6. C[0] = 0..31 /\ \A k \in 0..L : C[k] \in Word
  BY LoopUnfold, Zenon
<1>7. Shows(S, 0..31, B, n, 0, 0)
  <2>1. ASSUME NEW p \in 0..(n + 31)
        PROVE  n + 31 - p \in S <=> ~(p - 0 \in 0..31 <=> 0 <= p /\ p \in B)
    <3>1. /\ p \in Int /\ p - 0 = p /\ 0 <= p
          /\ (n + 31 - p \in n..(n + 31) <=> p \in 0..31)
      BY <1>0
    <3>2. n + 31 - p \in S <=> ~(n + 31 - p \in M <=> n + 31 - p \in n..(n + 31))
      BY Zenon DEF SymDiff
    <3> QED BY <1>4, <3>1, <3>2, Zenon
  <2> QED BY <2>1, Zenon DEF Shows
<1> HIDE DEF S
<1>8. 0 \in T
  <2>1. 8 * 0 = 0
    OBVIOUS
  <2>2. Shows(D[8 * 0], C[0], B, n, 8 * 0, 8 * 0)
    BY <1>0, <1>5, <1>6, <1>7, <2>1, DivisionUnfold, Zenon
  <2> QED BY <2>2
<1>9. ASSUME NEW k \in Nat, k \in T PROVE k + 1 \in T
  <2>1. k + 1 \in Nat /\ (k + 1 <= L => k <= L /\ k < L /\ k \in 0..L)
    BY <1>0
  <2> SUFFICES ASSUME k + 1 <= L
               PROVE  Shows(D[8 * (k + 1)], C[k + 1], B, n, 8 * (k + 1), 8 * (k + 1))
    BY <2>1, Zenon
  <2>2. Shows(D[8 * k], C[k], B, n, 8 * k, 8 * k)
    BY <1>9, <2>1, Zenon
  <2> QED BY <1>0, <1>5, <2>1, <2>2, ByteDivides, Zenon DEF B
<1>10. L \in T
  <2> HIDE DEF T, L
  <2> QED BY <1>0, <1>8, <1>9, Induction, Zenon
<1>11. Shows(D[n], C[L], B, n, n, n)
  <2>1. L <= L
    BY <1>0
  <2> QED BY <1>10, <2>1, Zenon
<1> HIDE DEF D, C
<1>12. ASSUME NEW i \in 0..31 PROVE 31 - i \in D[n] <=> i \in C[L]
  <2> DEFINE p == n + i
  <2>1. p \in n..(n + 31) /\ n + 31 - p = 31 - i /\ p - n = i /\ p \notin 0..(n - 1)
    BY <1>0
  <2>2. p \notin B
    BY <1>1, <2>1, Zenon
  <2> HIDE DEF p
  <2> QED BY <1>11, <2>1, <2>2, Zenon DEF Shows
<1>13. (0..31) \ C[L] = {i \in 0..31 : 31 - i \notin D[n]}
  BY <1>12, Zenon
<1> QED BY <1>2, <1>3, <1>13, Zenon

-----------------------------------------------------------------------------
(* The invariant *)

\* The place of a bit on the wire.
Place(e) == 8 * e[1] + e[2]

\* All flipped bits lie within 32 consecutive bits.
Burst == \A d, e \in flips : Place(d) < Place(e) + 32

\* The buffer of RecvEthernetFrame has room for the frame: recv() cut off nothing.
Fits == Len(MakeFrame(sent)) <= BufferSize(want)

BurstDetected == Fits /\ Burst => DamageDetected

\* A frame on the wire is the one made of the payload sent last, no more bits than
\* the bound are flipped, and they are bits of that frame.  A call of
\* RecvEthernetFrame takes the frame off the wire, so what it returned is about
\* that payload until the next is sent.
FrameInv ==
  /\ sent \in Payloads \cup {<<>>}
  /\ wire = <<>> \/ (wire = <<MakeFrame(sent)>> /\ Len(sent) <= kEthernetPayloadMax)
  /\ flips \in SUBSET (Nat \X (0..7)) /\ IsFiniteSet(flips) /\ Cardinality(flips) <= FlipMax
  /\ sendSt \in {"none", "ok", "invalid"}
  /\ recvSt \in {"none", "ok", "invalid", "mismatch"}
  /\ wire # <<>> => /\ recvSt \in {"none", "invalid"}
                    /\ \A e \in flips : e[1] \in 1..Len(wire[1])
  /\ PayloadDelivered /\ BurstDetected

LEMMA SentType == FrameInv => sent \in Seq(Byte)
<1>1. <<>> \in Seq(Byte)
  OBVIOUS
<1> QED BY <1>1, EthFrameAssumption, Zenon DEF FrameInv, Byte

\* The wire leaves a frame alone while it has flipped nothing of it.
LEMMA OnWireIntact ==
  ASSUME NEW frame \in Seq(Byte), wire = <<frame>>, flips = {}
  PROVE  OnWire = frame
<1>1. wire[1] = frame
  OBVIOUS
<1>2. \A i \in 1..Len(frame) : SymDiff(frame[i], {b \in 0..7 : <<i, b>> \in flips}) = frame[i]
  BY Zenon DEF SymDiff
<1>3. OnWire = [i \in 1..Len(frame) |-> frame[i]]
  BY <1>1, <1>2, Zenon DEF OnWire
<1> QED BY <1>3

\* What the wire flips is the difference of the frames at its two ends.
LEMMA FlipsAreErrors ==
  ASSUME NEW f \in Seq(Byte), wire = <<f>>
  PROVE  /\ Twins(f, OnWire)
         /\ \A i \in 1..Len(f) : Err(f, OnWire, i) = {b \in 0..7 : <<i, b>> \in flips}
<1> DEFINE at(i) == {b \in 0..7 : <<i, b>> \in flips}
<1>1. wire[1] = f
  OBVIOUS
<1>2. OnWire = [i \in 1..Len(f) |-> SymDiff(f[i], at(i))]
  BY <1>1, Zenon DEF OnWire
<1>3. ASSUME NEW i \in 1..Len(f)
      PROVE  SymDiff(f[i], at(i)) \in Byte /\ SymDiff(f[i], SymDiff(f[i], at(i))) = at(i)
  <2>1. f[i] \in Byte
    OBVIOUS
  <2>2. at(i) \in Byte
    BY Zenon DEF Byte
  <2> HIDE DEF at
  <2>3. SymDiff(f[i], at(i)) \in Byte
    BY <2>1, <2>2, Zenon DEF SymDiff, Byte
  <2>4. SymDiff(f[i], SymDiff(f[i], at(i))) = at(i)
    BY Zenon DEF SymDiff
  <2> QED BY <2>3, <2>4, Zenon
<1> HIDE DEF at
<1>4. OnWire \in Seq(Byte) /\ Len(OnWire) = Len(f)
  <2>1. \A i \in 1..Len(f) : SymDiff(f[i], at(i)) \in Byte
    BY <1>3, Zenon
  <2> QED BY <1>2, <2>1
<1>5. ASSUME NEW i \in 1..Len(f) PROVE Err(f, OnWire, i) = at(i)
  <2>1. OnWire[i] = SymDiff(f[i], at(i))
    BY <1>2, Zenon
  <2> QED BY <1>3, <2>1, Zenon DEF Err
<1> QED BY <1>4, <1>5, Zenon DEF Twins, at

LEMMA BurstCaught ==
  ASSUME NEW f \in Seq(Byte), wire = <<f>>, NEW N \in Nat, Len(f) = N + 4,
         flips \in SUBSET (Nat \X (0..7)), \A e \in flips : e[1] \in 1..Len(f),
         Burst, CrcMatches(f), CrcMatches(OnWire)
  PROVE  flips = {}
<1> SUFFICES ASSUME flips # {} PROVE FALSE
  OBVIOUS
<1> DEFINE S == {Place(e) : e \in flips}
<1>1. ASSUME NEW e \in flips
      PROVE  /\ e[1] \in 1..Len(f) /\ e[2] \in 0..7 /\ e = <<e[1], e[2]>>
             /\ Place(e) \in Nat /\ Place(e) = 8 * e[1] + e[2]
  BY DEF Place
<1>2. S \in SUBSET Nat /\ S # {}
  BY <1>1, Zenon
<1>3. PICK d \in flips : \A e \in flips : Place(d) <= Place(e)
  <2> HIDE DEF S
  <2>1. PICK p \in S : \A q \in S : p <= q
    BY <1>2, LeastNumber, Zenon
  <2> QED BY <2>1, Zenon DEF S
<1> DEFINE w == d[1] - 1
           t == d[2]
<1>4. /\ w \in 0..Len(f) /\ w < Len(f) /\ w + 1 = d[1] /\ t \in 0..7
      /\ Place(d) = 8 * (w + 1) + t /\ d = <<w + 1, t>> /\ w + 1 \in 1..Len(f)
  BY <1>1, <1>3
<1> HIDE DEF w, t
<1>5. t \in Err(f, OnWire, w + 1)
  <2>1. <<w + 1, t>> \in flips /\ t \in 0..7
    BY <1>4
  <2>2. Err(f, OnWire, w + 1) = {b \in 0..7 : <<w + 1, b>> \in flips}
    BY <1>4, FlipsAreErrors, Zenon
  <2> QED BY <2>1, <2>2, Zenon
<1>6. ASSUME NEW n \in 0..Len(f), NEW b \in 0..7, n < Len(f), b \in Err(f, OnWire, n + 1)
      PROVE  8 * w + t <= 8 * n + b /\ 8 * n + b < 8 * w + t + 32
  <2>1. n + 1 \in 1..Len(f)
    BY <1>6
  <2>2. <<n + 1, b>> \in flips
    BY <1>6, <2>1, FlipsAreErrors, Zenon
  <2>3. Place(<<n + 1, b>>) = 8 * (n + 1) + b
    BY DEF Place
  <2>4. Place(d) <= Place(<<n + 1, b>>) /\ Place(<<n + 1, b>>) < Place(d) + 32
    BY <1>3, <2>2, Zenon DEF Burst
  <2> QED BY <1>4, <2>3, <2>4
<1>7. Twins(f, OnWire)
  BY FlipsAreErrors, Zenon
<1> QED BY <1>4, <1>5, <1>6, <1>7, BurstShows, Zenon

LEMMA WholeSeq ==
  ASSUME NEW frame \in Seq(Byte) PROVE SubSeq(frame, 1, Len(frame)) = frame
OBVIOUS

LEMMA FrameInit == Init => FrameInv
<1> SUFFICES ASSUME Init PROVE FrameInv
  OBVIOUS
<1>1. IsFiniteSet(flips) /\ Cardinality(flips) <= FlipMax
  BY FS_EmptySet, Sizes DEF Init
<1>2. PayloadDelivered /\ BurstDetected
  BY DEF Init, PayloadDelivered, BurstDetected, DamageDetected
<1> QED BY <1>1, <1>2 DEF Init, FrameInv

LEMMA SendStep == FrameInv /\ SendEthernetFrame => FrameInv'
<1> SUFFICES ASSUME FrameInv, SendEthernetFrame PROVE FrameInv'
  OBVIOUS
<1>1. flips' = {} /\ recvSt' = "none"
  BY Zenon DEF SendEthernetFrame
<1>2. IsFiniteSet(flips') /\ Cardinality(flips') <= FlipMax
  BY <1>1, FS_EmptySet, Sizes
<1>3. PayloadDelivered' /\ BurstDetected'
  BY <1>1 DEF PayloadDelivered, BurstDetected, DamageDetected
<1>4. sent' \in Payloads /\ sendSt' \in {"ok", "invalid"}
  BY Zenon DEF SendEthernetFrame
<1>5. wire' = <<>> \/ (wire' = <<MakeFrame(sent)'>> /\ Len(sent') <= kEthernetPayloadMax)
  BY Zenon DEF SendEthernetFrame, MakeFrame, Padded
<1> QED BY <1>1, <1>2, <1>3, <1>4, <1>5 DEF FrameInv

LEMMA FlipStep == FrameInv /\ Flip => FrameInv'
<1> SUFFICES ASSUME FrameInv, Flip PROVE FrameInv'
  OBVIOUS
<1>1. PICK i \in 1..Len(wire[1]), b \in 0..7 : flips' = flips \cup {<<i, b>>}
  BY Zenon DEF Flip
<1>2. /\ IsFiniteSet(flips) /\ flips \in SUBSET (Nat \X (0..7))
      /\ Cardinality(flips) < FlipMax /\ Cardinality(flips) \in Nat
  BY FS_CardinalityType DEF FrameInv, Flip
<1>3. IsFiniteSet(flips') /\ Cardinality(flips') <= Cardinality(flips) + 1
  <2>1. /\ IsFiniteSet(flips \cup {<<i, b>>})
        /\ Cardinality(flips \cup {<<i, b>>}) \in {Cardinality(flips), Cardinality(flips) + 1}
    BY <1>2, FS_AddElement, Zenon
  <2> QED BY <1>1, <1>2, <2>1
<1>4. Cardinality(flips') \in Nat /\ Cardinality(flips') <= FlipMax
  BY <1>2, <1>3, FS_CardinalityType, Sizes
<1>5. flips' \in SUBSET (Nat \X (0..7))
  <2>1. i \in Nat
    OBVIOUS
  <2> QED BY <1>1, <1>2, <2>1
<1>6. recvSt' \in {"none", "invalid"} /\ PayloadDelivered' /\ BurstDetected'
  <2>1. recvSt' \in {"none", "invalid"}
    BY Zenon DEF Flip, FrameInv
  <2> QED BY <2>1 DEF PayloadDelivered, BurstDetected, DamageDetected
<1>7. UNCHANGED <<wire, sent, sendSt, recvSt>> /\ MakeFrame(sent)' = MakeFrame(sent)
  BY Zenon DEF Flip, MakeFrame, Padded
<1>8. ASSUME NEW e \in flips' PROVE e[1] \in 1..Len(wire'[1])
  <2>1. CASE e \in flips
    BY <1>7, <2>1, Zenon DEF Flip, FrameInv
  <2>2. CASE e = <<i, b>>
    BY <1>7, <2>2
  <2> QED BY <1>1, <2>1, <2>2
<1> QED BY <1>3, <1>4, <1>5, <1>6, <1>7, <1>8 DEF FrameInv

\* An intact frame that fits in the buffer passes the comparison of the CRC, and
\* what is copied out of it is the padded payload.  Of a damaged one that fits,
\* the crc of what arrives and the crc of what was sent would both be right.
LEMMA RecvStep == FrameInv /\ RecvEthernetFrame => FrameInv'
<1> SUFFICES ASSUME FrameInv, RecvEthernetFrame PROVE FrameInv'
  OBVIOUS
<1>1. /\ UNCHANGED <<flips, sent, sendSt>> /\ MakeFrame(sent)' = MakeFrame(sent)
      /\ recvSt' \in {"ok", "invalid", "mismatch"} /\ (wire' = wire \/ wire' = <<>>)
  BY Zenon DEF RecvEthernetFrame, MakeFrame, Padded
<1>2. ASSUME recvSt' \in {"ok", "mismatch"}, Len(MakeFrame(sent)) <= BufferSize(want')
      PROVE  /\ wire = <<MakeFrame(sent)>>
             /\ \/ CrcMatches(OnWire) /\ recvSt' = "ok" /\ got' = ExtractPayload(OnWire)
                \/ ~CrcMatches(OnWire) /\ recvSt' = "mismatch"
  <2> DEFINE frame == MakeFrame(sent)
  <2>1. frame \in Seq(Byte)
    BY SentType, FrameLayout, Zenon
  <2>2. /\ wire # <<>> /\ want' \in RecvSizes
        /\ LET f == SubSeq(OnWire, 1, Min({Len(wire[1]), BufferSize(want')}))
           IN  \/ CrcMatches(f) /\ recvSt' = "ok" /\ got' = ExtractPayload(f)
               \/ ~CrcMatches(f) /\ recvSt' = "mismatch"
    BY <1>2, Zenon DEF RecvEthernetFrame
  <2>3. wire = <<frame>>
    BY <2>2, Zenon DEF FrameInv
  <2>4. Len(frame) <= BufferSize(want')
    BY <1>2, Zenon
  <2> HIDE DEF frame
  <2>5. wire[1] = frame
    BY <2>3
  <2>6. OnWire \in Seq(Byte) /\ Len(OnWire) = Len(frame)
    BY <2>1, <2>3, FlipsAreErrors, Zenon DEF Twins
  <2>7. Len(frame) \in Nat /\ BufferSize(want') \in Nat
    <3>1. want' \in Nat
      BY <2>2, EthFrameAssumption
    <3>2. BufferSize(want') \in Nat
      BY <3>1, BufferSizeType, Zenon
    <3> QED BY <2>1, <3>2
  <2>8. Min({Len(frame), BufferSize(want')}) = Len(frame)
    BY <2>4, <2>7, MaxOfTwo, Zenon
  <2>9. SubSeq(OnWire, 1, Min({Len(wire[1]), BufferSize(want')})) = OnWire
    BY <2>5, <2>6, <2>8, WholeSeq, Zenon
  <2> QED BY <2>2, <2>3, <2>9, Zenon DEF frame
<1>3. PayloadDelivered'
  <2> SUFFICES ASSUME recvSt' \in {"ok", "mismatch"}, flips = {},
                      Len(MakeFrame(sent)) <= BufferSize(want')
               PROVE  recvSt' = "ok" /\ got' = Padded(sent)
    BY <1>1, Zenon DEF PayloadDelivered, BufferSize, Padded
  <2> DEFINE frame == MakeFrame(sent)
  <2>1. frame \in Seq(Byte) /\ CrcMatches(frame) /\ ExtractPayload(frame) = Padded(sent)
    BY SentType, FrameLayout, Zenon
  <2>2. OnWire = frame
    BY <1>2, <2>1, OnWireIntact, Zenon
  <2> QED BY <1>2, <2>1, <2>2, Zenon
<1>4. BurstDetected'
  <2> SUFFICES ASSUME recvSt' = "ok", Burst, Len(MakeFrame(sent)) <= BufferSize(want')
               PROVE  flips = {}
    BY <1>1, Zenon DEF BurstDetected, Burst, Fits, DamageDetected, BufferSize
  <2> DEFINE frame == MakeFrame(sent)
  <2>1. /\ frame \in Seq(Byte) /\ CrcMatches(frame)
        /\ Len(frame) = Len(Padded(sent)) + kEthernetOverhead
    BY SentType, FrameLayout, Zenon
  <2>2. wire = <<frame>> /\ CrcMatches(OnWire)
    BY <1>2, Zenon
  <2>3. flips \in SUBSET (Nat \X (0..7)) /\ \A e \in flips : e[1] \in 1..Len(wire[1])
    BY <2>2 DEF FrameInv
  <2>4. Len(frame) = (Len(Padded(sent)) + Len(Header)) + 4
        /\ Len(Padded(sent)) + Len(Header) \in Nat
    <3>1. Padded(sent) \in Seq(Byte) /\ Header \in Seq(Byte)
      BY SentType, PaddedType, EthFrameAssumption, Zenon DEF Byte
    <3>2. Len(Padded(sent)) \in Nat /\ Len(Header) \in Nat
      BY <3>1
    <3> QED BY <2>1, <3>2 DEF kEthernetOverhead, kCrcSize
  <2> HIDE DEF frame
  <2>5. wire[1] = frame
    BY <2>2
  <2> QED BY <2>1, <2>2, <2>3, <2>4, <2>5, BurstCaught, Zenon
<1>5. wire' # <<>> => recvSt' = "invalid" /\ wire' = wire
  BY Zenon DEF RecvEthernetFrame
<1> QED BY <1>1, <1>3, <1>4, <1>5 DEF FrameInv

LEMMA FrameInvariant == Spec => []FrameInv
<1>1. ASSUME FrameInv, [Next]_vars PROVE FrameInv'
  <2>1. CASE UNCHANGED vars
    BY <1>1, <2>1, Zenon DEF vars, FrameInv, PayloadDelivered, MakeFrame, Padded,
       BufferSize, BurstDetected, Burst, Fits, DamageDetected
  <2> QED BY <1>1, <2>1, SendStep, FlipStep, RecvStep DEF Next
<1> QED BY <1>1, FrameInit, PTL DEF Spec

\* SendEthernetFrame puts frames between the sizes of eth.h on the wire, for any
\* header, limits and payloads (TypeOK).
THEOREM FrameTypeCorrect == Spec => []TypeOK
<1>1. ASSUME FrameInv PROVE TypeOK
  <2>1. ASSUME NEW i \in DOMAIN wire
        PROVE  /\ Len(wire[i]) >= kEthernetPayloadMin + kEthernetOverhead
               /\ Len(wire[i]) <= kEthernetPayloadMax + kEthernetOverhead
    <3>1. wire[i] = MakeFrame(sent) /\ Len(sent) <= kEthernetPayloadMax
      BY <1>1, <2>1 DEF FrameInv
    <3>2. Len(wire[i]) = Len(Padded(sent)) + kEthernetOverhead /\ Len(sent) \in Nat
      BY <1>1, <3>1, SentType, FrameLayout
    <3>3. /\ Len(Padded(sent)) >= kEthernetPayloadMin /\ Len(Padded(sent)) \in Nat
          /\ Len(Padded(sent)) <= kEthernetPayloadMax
      <4>1. Len(Padded(sent)) = (IF Len(sent) >= kEthernetPayloadMin
                                 THEN Len(sent) ELSE kEthernetPayloadMin)
        BY <1>1, SentType, PaddedType, Zenon
      <4> QED BY <3>1, <3>2, <4>1, Sizes
    <3> QED BY <3>2, <3>3, Sizes
  <2> QED BY <1>1, <2>1 DEF FrameInv, TypeOK
<1> QED BY <1>1, FrameInvariant, PTL

\* RecvEthernetFrame accepts every frame of SendEthernetFrame that the wire left
\* alone and that fits in its buffer, and returns the payload that was sent,
\* followed by the padding (PayloadDelivered), whatever the sizes are.
THEOREM IntactFramesAreDelivered == Spec => []PayloadDelivered
<1>1. FrameInv => PayloadDelivered
  BY Zenon DEF FrameInv
<1> QED BY <1>1, FrameInvariant, PTL

\* RecvEthernetFrame returns Ok for no frame that the wire has damaged within 32
\* consecutive bits, those of the CRC included, when it reads the whole frame
\* (DamageDetected for such damage): the crc32 of eth.cc detects every burst error
\* no longer than itself, in frames of any size.
THEOREM BurstsAreDetected == Spec => [](Fits /\ Burst => DamageDetected)
<1>1. FrameInv => (Fits /\ Burst => DamageDetected)
  BY Zenon DEF FrameInv, BurstDetected
<1> QED BY <1>1, FrameInvariant, PTL

\* The last four bytes of every frame that SendEthernetFrame puts on the wire are
\* the CRC that 802.3 defines by division of polynomials (FcsIsCrc), for every
\* header and payload: crc32 computes that CRC.
THEOREM FramesCarryTheirCrc == Spec => []FcsIsCrc
<1>1. ASSUME FrameInv PROVE FcsIsCrc
  <2> SUFFICES ASSUME NEW i \in DOMAIN wire
               PROVE  LET size == Len(wire[i])
                      IN  SubSeq(wire[i], size - kCrcSize + 1, size)
                            = CrcBytes(Crc802_3(SubSeq(wire[i], 1, size - kCrcSize)))
    BY Zenon DEF FcsIsCrc
  <2> DEFINE frame == wire[i]
             body == SubSeq(frame, 1, Len(frame) - kCrcSize)
  <2>1. frame = MakeFrame(sent)
    BY <1>1 DEF FrameInv
  <2>2. frame \in Seq(Byte) /\ CrcMatches(frame)
    BY <1>1, <2>1, SentType, FrameLayout, Zenon
  <2>3. CrcBytes(crc32(body)) = SubSeq(frame, Len(frame) - kCrcSize + 1, Len(frame))
    BY <2>2, Zenon DEF CrcMatches
  <2> HIDE DEF frame
  <2>4. body \in Seq(Byte)
    BY <2>2 DEF kCrcSize
  <2> HIDE DEF body
  <2>5. crc32(body) = Crc802_3(body)
    BY <2>4, Crc32Divides, Zenon
  <2>6. SubSeq(frame, Len(frame) - kCrcSize + 1, Len(frame)) = CrcBytes(Crc802_3(body))
    BY <2>3, <2>5, Zenon
  <2> QED BY <2>6, Zenon DEF body, frame
<1> QED BY <1>1, FrameInvariant, PTL

=============================================================================
