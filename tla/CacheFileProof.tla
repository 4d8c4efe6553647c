--------------------------- MODULE CacheFileProof ---------------------------
(***************************************************************************)
(* Proofs about the file behind g_arp_cache, for any addresses, lengths    *)
(* and processes.                                                          *)
(***************************************************************************)
EXTENDS CacheFile, TLAPS, WellFoundedInduction, FiniteSetTheorems

-----------------------------------------------------------------------------
(* Induction, and functions defined by recursion.                          *)

LEMMA LeastNumber ==
  ASSUME NEW T \in SUBSET Nat, T # {}
  PROVE  \E n \in T : \A k \in T : n <= k
<1> DEFINE R == OpToRel(<, Nat)
<1>1. IsWellFoundedOn(R, Nat)
  BY NatLessThanWellFounded, Zenon
<1>2. ASSUME NEW x \in Nat, NEW y \in Nat, <<x, y>> \notin R PROVE y <= x
  BY <1>2 DEF OpToRel
<1> HIDE DEF R
<1>3. \E x \in T : \A y \in T : <<y, x>> \notin R
  BY <1>1, WFMin, Zenon
<1> QED BY <1>2, <1>3, Zenon

\* A set of numbers that has 0, and with each number the next, has all of them.
LEMMA Induction ==
  ASSUME NEW T, 0 \in T, \A n \in Nat : n \in T => n + 1 \in T
  PROVE  \A n \in Nat : n \in T
<1> SUFFICES ASSUME NEW m \in Nat, m \notin T PROVE FALSE
  OBVIOUS
<1> DEFINE U == {n \in Nat : n \notin T}
<1>1. PICK n \in U : \A k \in U : n <= k
  BY LeastNumber, Zenon
<1>2. n # 0 /\ n - 1 \in Nat /\ n - 1 \notin U
  BY <1>1
<1>3. (n - 1) + 1 \in T
  BY <1>2
<1> QED BY <1>2, <1>3

\* Of h, the values up to n: a at 0, and g[i] takes the i-th one to the next.
Iterates(h, n, a, g) == h[0] = a /\ \A i \in Nat : i < n => h[i + 1] = g[i][h[i]]

Iteration(f, a, g) == f[0] = a /\ \A n \in Nat : f[n + 1] = g[n][f[n]]

\* There is a function that makes infinitely many such steps.
LEMMA PrimitiveRecursion ==
  ASSUME NEW S, NEW a \in S, NEW g \in [Nat -> [S -> S]]
  PROVE  \E f \in [Nat -> S] : Iteration(f, a, g)
<1> DEFINE T == {n \in Nat : \E h \in [Nat -> S] : Iterates(h, n, a, g)}
<1>1. 0 \in T
  <2>1. [i \in Nat |-> a] \in [Nat -> S] /\ Iterates([i \in Nat |-> a], 0, a, g)
    BY DEF Iterates
  <2> QED BY <2>1
<1>2. ASSUME NEW n \in Nat, n \in T PROVE n + 1 \in T
  <2>1. PICK h \in [Nat -> S] : Iterates(h, n, a, g)
    BY <1>2
  <2> DEFINE k == [h EXCEPT ![n + 1] = g[n][h[n]]]
  <2>2. k \in [Nat -> S] /\ k[n + 1] = g[n][h[n]] /\ \A i \in Nat : i # n + 1 => k[i] = h[i]
    OBVIOUS
  <2> HIDE DEF k
  <2>3. k[0] = a
    BY <2>1, <2>2 DEF Iterates
  <2>4. ASSUME NEW i \in Nat, i < n + 1 PROVE k[i + 1] = g[i][k[i]]
    <3>1. CASE i = n
      BY <2>2, <3>1
    <3>2. CASE i # n
      <4>1. i < n /\ i # n + 1 /\ i + 1 # n + 1 /\ i + 1 \in Nat
        BY <2>4, <3>2
      <4>2. h[i + 1] = g[i][h[i]]
        BY <2>1, <4>1 DEF Iterates
      <4> QED BY <2>2, <4>1, <4>2, Zenon
    <3> QED BY <3>1, <3>2
  <2>5. Iterates(k, n + 1, a, g)
    BY <2>3, <2>4, Zenon DEF Iterates
  <2> QED BY <2>2, <2>5
<1>3. \A n \in Nat : n \in T
  <2> HIDE DEF T
  <2> QED BY <1>1, <1>2, Induction
<1> DEFINE H(n) == CHOOSE h \in [Nat -> S] : Iterates(h, n, a, g)
<1>4. ASSUME NEW n \in Nat PROVE H(n) \in [Nat -> S] /\ Iterates(H(n), n, a, g)
  <2>1. \E h \in [Nat -> S] : Iterates(h, n, a, g)
    BY <1>3
  <2> QED BY <2>1, Zenon
<1> HIDE DEF H, T
\* Two of them agree as far as both go.
<1>5. ASSUME NEW n \in Nat, NEW j, NEW k, Iterates(j, n, a, g), Iterates(k, n, a, g)
      PROVE  j[n] = k[n]
  <2> DEFINE U == {i \in Nat : i <= n => j[i] = k[i]}
  <2>1. 0 \in U
    BY <1>5 DEF Iterates
  <2>2. ASSUME NEW i \in Nat, i \in U PROVE i + 1 \in U
    <3> SUFFICES ASSUME i + 1 <= n PROVE j[i + 1] = k[i + 1]
      OBVIOUS
    <3>1. i < n /\ i <= n
      OBVIOUS
    <3>2. j[i] = k[i]
      BY <2>2, <3>1
    <3> QED BY <1>5, <3>1, <3>2, Zenon DEF Iterates
  <2>3. n \in U
    <3> HIDE DEF U
    <3> QED BY <2>1, <2>2, Induction
  <2> QED BY <2>3
<1> DEFINE f == [n \in Nat |-> H(n)[n]]
<1>6. f \in [Nat -> S] /\ \A n \in Nat : f[n] = H(n)[n]
  BY <1>4
<1> HIDE DEF f
<1>7. f[0] = a
  BY <1>4, <1>6 DEF Iterates
<1>8. ASSUME NEW n \in Nat PROVE f[n + 1] = g[n][f[n]]
  <2>1. n + 1 \in Nat /\ n < n + 1
    OBVIOUS
  <2>2. H(n + 1)[n + 1] = g[n][H(n + 1)[n]]
    BY <1>4, <2>1, Zenon DEF Iterates
  <2>3. Iterates(H(n + 1), n, a, g)
    <3>1. \A i \in Nat : i < n => i < n + 1
      OBVIOUS
    <3> QED BY <1>4, <2>1, <3>1, Zenon DEF Iterates
  <2>4. H(n + 1)[n] = H(n)[n]
    BY <1>4, <1>5, <2>3, Zenon
  <2> QED BY <1>6, <2>1, <2>2, <2>4, Zenon
<1> QED BY <1>6, <1>7, <1>8, Zenon DEF Iteration

-----------------------------------------------------------------------------
(* The loops of serialize and deserialize.                                 *)

Value == Macs \cup {JunkMac}

Cell ==
  {Comma, Space, Newline} \cup {<<"ip", k, n>> : k \in Keys, n \in Nat}
    \cup {<<"mac", m, n>> : m \in Value, n \in Nat}

\* What the n-th turn of serialize's loop writes.
LineOf(m, n) == IF n \in Keys /\ m[n] # NoMac THEN writeline(n, m[n]) ELSE <<>>

LEMMA Lengths ==
  /\ Keys \subseteq Nat /\ JunkIp \in Keys /\ MacLen \in Nat \ {0}
  /\ \A k \in Keys : KeyLen[k] \in Nat \ {0} /\ k < JunkIp + 1
BY CacheFileAssumption DEF Keys

\* z is s followed by t.
Cat(z, s, t) ==
  /\ Len(z) = Len(s) + Len(t)
  /\ \A i \in 1..Len(s) : z[i] = s[i]
  /\ \A i \in 1..Len(t) : z[Len(s) + i] = t[i]

LEMMA Concat ==
  ASSUME NEW S, NEW s \in Seq(S), NEW t \in Seq(S)
  PROVE  s \o t \in Seq(S) /\ Cat(s \o t, s, t)
BY DEF Cat

LEMMA TextTypes ==
  ASSUME NEW k \in Keys, NEW v \in Value
  PROVE  /\ IpText(k) \in Seq(Cell) /\ Len(IpText(k)) = KeyLen[k]
         /\ MacText(v) \in Seq(Cell) /\ Len(MacText(v)) = MacLen
<1>1. KeyLen[k] \in Nat /\ MacLen \in Nat
  BY Lengths
<1>2. ASSUME NEW n \in 1..KeyLen[k] PROVE <<"ip", k, n>> \in Cell
  BY <1>1 DEF Cell
<1>3. ASSUME NEW n \in 1..MacLen PROVE <<"mac", v, n>> \in Cell
  BY <1>1 DEF Cell
<1>4. IpText(k) \in Seq(Cell) /\ Len(IpText(k)) = KeyLen[k]
  BY <1>1, <1>2 DEF IpText
<1>5. MacText(v) \in Seq(Cell) /\ Len(MacText(v)) = MacLen
  BY <1>1, <1>3 DEF MacText
<1> QED BY <1>4, <1>5

\* A line, cell by cell.
LEMMA LineShape ==
  ASSUME NEW k \in Keys, NEW v \in Value
  PROVE  LET line == writeline(k, v)
             K == KeyLen[k]
         IN  /\ line \in Seq(Cell) /\ Len(line) = K + MacLen + 3
             /\ \A i \in 1..K : line[i] = <<"ip", k, i>>
             /\ line[K + 1] = Comma /\ line[K + 2] = Space
             /\ \A i \in 1..MacLen : line[K + 2 + i] = <<"mac", v, i>>
             /\ line[K + MacLen + 3] = Newline
<1> DEFINE K == KeyLen[k]
           a == IpText(k)
           b == <<Comma, Space>>
           c == MacText(v)
           d == <<Newline>>
<1>1. K \in Nat /\ MacLen \in Nat
  BY Lengths
<1>2. /\ a \in Seq(Cell) /\ Len(a) = K /\ \A i \in 1..K : a[i] = <<"ip", k, i>>
      /\ c \in Seq(Cell) /\ Len(c) = MacLen /\ \A i \in 1..MacLen : c[i] = <<"mac", v, i>>
  BY TextTypes, Zenon DEF IpText, MacText
<1>3. /\ b \in Seq(Cell) /\ Len(b) = 2 /\ b[1] = Comma /\ b[2] = Space
      /\ d \in Seq(Cell) /\ Len(d) = 1 /\ d[1] = Newline
  BY DEF Cell
<1>4. writeline(k, v) = a \o b \o c \o d
  BY DEF writeline
<1> HIDE DEF K, a, b, c, d
<1>11. K + 2 + MacLen + 1 = K + MacLen + 3 /\ 1 \in 1..2 /\ 2 \in 1..2 /\ 1 \in 1..1
  BY <1>1
<1> DEFINE ab == a \o b
           abc == ab \o c
           line == abc \o d
<1>5. /\ ab \in Seq(Cell) /\ Len(ab) = K + 2
      /\ \A i \in 1..K : ab[i] = a[i]
      /\ ab[K + 1] = b[1] /\ ab[K + 2] = b[2]
  <2>0. a \in Seq(Cell) /\ b \in Seq(Cell)
    BY <1>2, <1>3, Zenon
  <2>1. ab \in Seq(Cell) /\ Cat(ab, a, b)
    BY <2>0, Concat, Zenon
  <2> HIDE DEF ab
  <2> QED BY <1>2, <1>3, <1>11, <2>1, Zenon DEF Cat
<1> HIDE DEF ab
<1>6. /\ abc \in Seq(Cell) /\ Len(abc) = K + 2 + MacLen
      /\ \A i \in 1..K+2 : abc[i] = ab[i]
      /\ \A i \in 1..MacLen : abc[K + 2 + i] = c[i]
  <2>0. ab \in Seq(Cell) /\ c \in Seq(Cell)
    BY <1>2, <1>5, Zenon
  <2>1. abc \in Seq(Cell) /\ Cat(abc, ab, c)
    BY <2>0, Concat, Zenon
  <2> HIDE DEF abc
  <2> QED BY <1>2, <1>5, <2>1, Zenon DEF Cat
<1> HIDE DEF abc
<1>7. /\ line \in Seq(Cell) /\ Len(line) = K + 2 + MacLen + 1
      /\ \A i \in 1..K+2+MacLen : line[i] = abc[i]
      /\ line[K + 2 + MacLen + 1] = d[1]
  <2>0. abc \in Seq(Cell) /\ d \in Seq(Cell)
    BY <1>3, <1>6, Zenon
  <2>1. line \in Seq(Cell) /\ Cat(line, abc, d)
    BY <2>0, Concat, Zenon
  <2> HIDE DEF line
  <2> QED BY <1>3, <1>6, <1>11, <2>1, Zenon DEF Cat
<1> HIDE DEF line
<1>10. writeline(k, v) = line
  BY <1>4 DEF line, abc, ab
<1>12. /\ \A i \in 1..K : i \in 1..K+2 /\ i \in 1..K+2+MacLen
       /\ K + 1 \in 1..K+2 /\ K + 2 \in 1..K+2
       /\ K + 1 \in 1..K+2+MacLen /\ K + 2 \in 1..K+2+MacLen
       /\ \A i \in 1..MacLen : K + 2 + i \in 1..K+2+MacLen
  BY <1>1
<1>13. /\ \A i \in 1..K : line[i] = a[i]
       /\ line[K + 1] = b[1] /\ line[K + 2] = b[2]
       /\ \A i \in 1..MacLen : line[K + 2 + i] = c[i]
  BY <1>5, <1>6, <1>7, <1>12, Zenon
<1> QED BY <1>2, <1>3, <1>7, <1>10, <1>11, <1>13, Zenon DEF K

LEMMA LineOfType ==
  ASSUME NEW m \in Map, NEW n \in Nat
  PROVE  LineOf(m, n) \in Seq(Cell)
<1>1. n \in Keys /\ m[n] # NoMac => m[n] \in Value
  BY DEF Map, Value
<1> QED BY <1>1, LineShape DEF LineOf

\* The equation of the recursive function in Lines.
LinesEq(f, m) ==
  f = [n \in Nat |->
         IF n = 0 THEN <<>>
         ELSE f[n - 1] \o IF n - 1 \in Keys /\ m[n - 1] # NoMac
                          THEN writeline(n - 1, m[n - 1]) ELSE <<>>]

LEMMA LinesUnfold ==
  ASSUME NEW m \in Map
  PROVE  /\ Lines(m) \in [Nat -> Seq(Cell)]
         /\ Lines(m)[0] = <<>>
         /\ \A n \in Nat : Lines(m)[n + 1] = Lines(m)[n] \o LineOf(m, n)
<1> DEFINE g == [n \in Nat |-> [s \in Seq(Cell) |-> s \o LineOf(m, n)]]
<1>1. g \in [Nat -> [Seq(Cell) -> Seq(Cell)]]
  BY LineOfType
<1>2. <<>> \in Seq(Cell)
  OBVIOUS
<1>3. ASSUME NEW n \in Nat, NEW s \in Seq(Cell) PROVE g[n][s] = s \o LineOf(m, n)
  OBVIOUS
<1> HIDE DEF g
<1>4. PICK f \in [Nat -> Seq(Cell)] : Iteration(f, <<>>, g)
  BY <1>1, <1>2, PrimitiveRecursion, Zenon
<1>5. LinesEq(f, m)
  <2> DEFINE R(n) == IF n = 0 THEN <<>>
                     ELSE f[n - 1] \o IF n - 1 \in Keys /\ m[n - 1] # NoMac
                                      THEN writeline(n - 1, m[n - 1]) ELSE <<>>
  <2>1. ASSUME NEW n \in Nat PROVE f[n] = R(n)
    <3>1. CASE n = 0
      BY <1>4, <3>1, Zenon DEF Iteration
    <3>2. CASE n # 0
      <4>1. n - 1 \in Nat /\ (n - 1) + 1 = n
        BY <3>2
      <4>2. f[n] = f[n - 1] \o LineOf(m, n - 1)
        BY <1>3, <1>4, <4>1, Zenon DEF Iteration
      <4> QED BY <3>2, <4>2, Zenon DEF LineOf
    <3> QED BY <3>1, <3>2, Zenon
  <2>2. f = [n \in Nat |-> f[n]]
    OBVIOUS
  <2> HIDE DEF R
  <2>3. f = [n \in Nat |-> R(n)]
    BY <2>1, <2>2
  <2> QED BY <2>3, Zenon DEF LinesEq, R
<1>6. LinesEq(Lines(m), m)
  BY <1>5, Zenon DEF LinesEq, Lines
<1>7. Lines(m)[0] = <<>>
  BY <1>6, Zenon DEF LinesEq
<1>8. ASSUME NEW n \in Nat PROVE Lines(m)[n + 1] = Lines(m)[n] \o LineOf(m, n)
  <2>1. n + 1 \in Nat /\ n + 1 # 0 /\ (n + 1) - 1 = n
    OBVIOUS
  <2> DEFINE j == n + 1
  <2>2. j \in Nat /\ j # 0 /\ j - 1 = n
    BY <2>1
  <2> HIDE DEF j
  <2>3. Lines(m)[j] = Lines(m)[j - 1] \o IF j - 1 \in Keys /\ m[j - 1] # NoMac
                                         THEN writeline(j - 1, m[j - 1]) ELSE <<>>
    BY <1>6, <2>2, Zenon DEF LinesEq
  <2>4. Lines(m)[j] = Lines(m)[n] \o LineOf(m, n)
    BY <2>2, <2>3, Zenon DEF LineOf
  <2> QED BY <2>4 DEF j
<1>9. Lines(m) \in [Nat -> Seq(Cell)]
  <2> DEFINE T == {n \in Nat : Lines(m)[n] \in Seq(Cell)}
  <2>1. 0 \in T
    BY <1>2, <1>7, Zenon
  <2>2. ASSUME NEW n \in Nat, n \in T PROVE n + 1 \in T
    <3>1. n + 1 \in Nat
      OBVIOUS
    <3>2. Lines(m)[n] \in Seq(Cell) /\ LineOf(m, n) \in Seq(Cell)
      BY <2>2, LineOfType, Zenon
    <3>3. Lines(m)[n] \o LineOf(m, n) \in Seq(Cell)
      BY <3>2, Concat, Zenon
    <3> QED BY <1>8, <3>1, <3>3, Zenon
  <2>3. \A n \in Nat : n \in T
    <3> HIDE DEF T
    <3> QED BY <2>1, <2>2, Induction, Zenon
  <2>4. Lines(m) = [n \in Nat |-> Lines(m)[n]]
    BY <1>6, Zenon DEF LinesEq
  <2> QED BY <2>3, <2>4, Zenon
<1> QED BY <1>7, <1>8, <1>9, Zenon

\* Cell i is the first d of b beyond offset o.
First(b, o, d, i) ==
  /\ i \in o+1..Len(b) /\ b[i] = d
  /\ \A j \in o+1..Len(b) : b[j] = d => i <= j

LEMMA SubstrFirst ==
  ASSUME NEW b \in Seq(Cell), NEW o \in Nat, NEW d, NEW i, First(b, o, d, i)
  PROVE  substr(b, o, d) = SubSeq(b, o + 1, i - 1)
<1> DEFINE found == {j \in o+1..Len(b) : b[j] = d}
           c == CHOOSE j \in found : \A k \in found : j <= k
<1>1. i \in found /\ \A k \in found : i <= k
  BY DEF First
<1>2. c \in found /\ \A k \in found : c <= k
  BY <1>1, Zenon
<1>3. c <= i /\ i <= c /\ i \in Nat /\ c \in Nat
  <2>1. Len(b) \in Nat /\ \A j \in o+1..Len(b) : j \in Nat
    OBVIOUS
  <2> QED BY <1>1, <1>2, <2>1, Zenon
<1> HIDE DEF c
<1>4. c = i
  BY <1>3
<1>5. substr(b, o, d) = SubSeq(b, o + 1, c - 1)
  BY <1>1, Zenon DEF substr, c
<1> QED BY <1>4, <1>5, Zenon

LEMMA SubstrNone ==
  ASSUME NEW b, NEW o, NEW d, \A i \in o+1..Len(b) : b[i] # d
  PROVE  substr(b, o, d) = <<>>
BY Zenon DEF substr

LEMMA SubstrCases ==
  ASSUME NEW b \in Seq(Cell), NEW o \in Nat, NEW d
  PROVE  \/ substr(b, o, d) = <<>>
         \/ \E i : First(b, o, d, i) /\ substr(b, o, d) = SubSeq(b, o + 1, i - 1)
<1> DEFINE found == {j \in o+1..Len(b) : b[j] = d}
<1>1. CASE found = {}
  BY <1>1, SubstrNone, Zenon
<1>2. CASE found # {}
  <2>1. found \in SUBSET Nat
    <3>1. Len(b) \in Nat /\ \A j \in o+1..Len(b) : j \in Nat
      OBVIOUS
    <3> QED BY <3>1, Zenon
  <2>2. \E i \in found : \A j \in found : i <= j
    <3> HIDE DEF found
    <3> QED BY <1>2, <2>1, LeastNumber, Zenon
  <2>3. \E i : First(b, o, d, i)
    BY <2>2, Zenon DEF First
  <2> QED BY <2>3, SubstrFirst, Zenon
<1> QED BY <1>1, <1>2

LEMMA SubstrType ==
  ASSUME NEW b \in Seq(Cell), NEW o \in Nat, NEW d
  PROVE  substr(b, o, d) \in Seq(Cell) /\ Len(substr(b, o, d)) \in Nat
<1>1. ASSUME NEW i, First(b, o, d, i) PROVE SubSeq(b, o + 1, i - 1) \in Seq(Cell)
  BY <1>1 DEF First
<1>2. <<>> \in Seq(Cell)
  OBVIOUS
<1>3. substr(b, o, d) \in Seq(Cell)
  <2>1. CASE substr(b, o, d) = <<>>
    BY <1>2, <2>1, Zenon
  <2>2. CASE \E i : First(b, o, d, i) /\ substr(b, o, d) = SubSeq(b, o + 1, i - 1)
    BY <1>1, <2>2, Zenon
  <2> QED BY <2>1, <2>2, SubstrCases, Zenon
<1> QED BY <1>3

LEMMA AddressTypes ==
  ASSUME NEW t
  PROVE  IpFromString(t) \in Keys /\ MacFromString(t) \in SUBSET Value
<1>1. IpFromString(t) \in Keys
  BY Zenon DEF IpFromString, Keys
<1>2. MacFromString(t) \in SUBSET Value
  BY Zenon DEF MacFromString, Value
<1> QED BY <1>1, <1>2

\* Where a loop of deserialize may stand.
Point(b) ==
  {s \in Nat \X (Map \cup {Overread}) : s[2] = Overread => s[1] >= Len(b)}

LEMMA MapsAreNoOverread == Overread \notin Map
<1>1. DOMAIN Overread = {}
  BY DEF Overread
<1>2. JunkIp \in Keys
  BY Lengths
<1> QED BY <1>1, <1>2 DEF Map

LEMMA TurnType ==
  ASSUME NEW b \in Seq(Cell), NEW s \in Point(b)
  PROVE  Turn(b, s) \in SUBSET Point(b)
<1> DEFINE key == substr(b, s[1], Comma)
           at == s[1] + Len(key) + 2
           value == substr(b, at, Newline)
<1>1. s[1] \in Nat /\ s[2] \in Map \cup {Overread} /\ (s[2] = Overread => s[1] >= Len(b))
  BY DEF Point
<1>2. Len(key) \in Nat
  BY <1>1, SubstrType, Zenon
<1>3. at \in Nat /\ (at > Len(b) => at >= Len(b))
  BY <1>1, <1>2
<1>4. Len(value) \in Nat
  BY <1>3, SubstrType, Zenon
<1>5. IpFromString(key) \in Keys /\ MacFromString(value) \in SUBSET Value
  BY AddressTypes, Zenon
<1>6. /\ s[1] >= Len(b) => Turn(b, s) = {s}
      /\ ~(s[1] >= Len(b)) /\ at > Len(b) => Turn(b, s) = {<<at, Overread>>}
      /\ ~(s[1] >= Len(b)) /\ ~(at > Len(b)) =>
           Turn(b, s) = {<<at + Len(value) + 1, [s[2] EXCEPT ![IpFromString(key)] = mac]>>
                         : mac \in MacFromString(value)}
  BY Zenon DEF Turn
<1> HIDE DEF key, at, value
<1>7. CASE s[1] >= Len(b)
  BY <1>6, <1>7, Zenon
<1>8. CASE ~(s[1] >= Len(b)) /\ at > Len(b)
  <2>1. <<at, Overread>> \in Point(b)
    BY <1>3, <1>8 DEF Point
  <2> QED BY <1>6, <1>8, <2>1, Zenon
<1>9. CASE ~(s[1] >= Len(b)) /\ ~(at > Len(b))
  <2>1. s[2] \in Map
    BY <1>1, <1>9, Zenon
  <2>2. at + Len(value) + 1 \in Nat
    BY <1>3, <1>4
  <2>3. ASSUME NEW mac \in MacFromString(value)
        PROVE  <<at + Len(value) + 1, [s[2] EXCEPT ![IpFromString(key)] = mac]>> \in Point(b)
    <3>1. [s[2] EXCEPT ![IpFromString(key)] = mac] \in Map
      BY <1>5, <2>1 DEF Map, Value
    <3>2. [s[2] EXCEPT ![IpFromString(key)] = mac] # Overread
      BY <3>1, MapsAreNoOverread, Zenon
    <3> QED BY <2>2, <3>1, <3>2 DEF Point
  <2>4. SUFFICES ASSUME NEW x \in Turn(b, s) PROVE x \in Point(b)
    OBVIOUS
  <2>5. PICK mac \in MacFromString(value) :
          x = <<at + Len(value) + 1, [s[2] EXCEPT ![IpFromString(key)] = mac]>>
    BY <1>6, <1>9
  <2> QED BY <2>3, <2>5, Zenon
<1> QED BY <1>7, <1>8, <1>9

\* One more turn from each of the points of P.
After(b, P) == UNION {Turn(b, s) : s \in P}

\* The equation of the recursive function in Turns.
TurnsEq(f, b) ==
  f = [n \in Nat |->
         IF n = 0 THEN {<<0, EmptyMap>>} ELSE UNION {Turn(b, s) : s \in f[n - 1]}]

LEMMA StartIsPoint ==
  ASSUME NEW b
  PROVE  EmptyMap \in Map /\ {<<0, EmptyMap>>} \in SUBSET Point(b)
<1>1. EmptyMap \in Map
  BY DEF EmptyMap, Map
<1>2. EmptyMap # Overread
  BY <1>1, MapsAreNoOverread, Zenon
<1>3. <<0, EmptyMap>> \in Point(b)
  BY <1>1, <1>2 DEF Point
<1> QED BY <1>1, <1>3

LEMMA TurnsUnfold ==
  ASSUME NEW b \in Seq(Cell)
  PROVE  /\ Turns(b) \in [Nat -> SUBSET Point(b)]
         /\ Turns(b)[0] = {<<0, EmptyMap>>}
         /\ \A n \in Nat : Turns(b)[n + 1] = After(b, Turns(b)[n])
<1> DEFINE S == SUBSET Point(b)
           a == {<<0, EmptyMap>>}
           g == [n \in Nat |-> [P \in S |-> After(b, P)]]
<1>0. ASSUME NEW P \in S PROVE After(b, P) \in S
  BY TurnType, Zenon DEF After
<1>1. g \in [Nat -> [S -> S]]
  <2>1. [P \in S |-> After(b, P)] \in [S -> S]
    <3> HIDE DEF S
    <3> QED BY <1>0
  <2> HIDE DEF S
  <2> QED BY <2>1
<1>2. a \in S
  BY StartIsPoint, Zenon
<1> HIDE DEF S
<1>3. ASSUME NEW n \in Nat, NEW P \in S PROVE g[n][P] = After(b, P)
  OBVIOUS
<1> HIDE DEF g, a
<1>4. PICK f \in [Nat -> S] : Iteration(f, a, g)
  BY <1>1, <1>2, PrimitiveRecursion, Zenon
<1>5. TurnsEq(f, b)
  <2> DEFINE R(n) == IF n = 0 THEN {<<0, EmptyMap>>} ELSE UNION {Turn(b, s) : s \in f[n - 1]}
  <2>1. ASSUME NEW n \in Nat PROVE f[n] = R(n)
    <3>1. CASE n = 0
      BY <1>4, <3>1, Zenon DEF a, Iteration
    <3>2. CASE n # 0
      <4>1. n - 1 \in Nat /\ (n - 1) + 1 = n
        BY <3>2
      <4>2. f[n] = After(b, f[n - 1])
        BY <1>3, <1>4, <4>1, Zenon DEF Iteration
      <4> QED BY <3>2, <4>2, Zenon DEF After
    <3> QED BY <3>1, <3>2
  <2>2. f = [n \in Nat |-> f[n]]
    OBVIOUS
  <2> HIDE DEF R
  <2>3. f = [n \in Nat |-> R(n)]
    BY <2>1, <2>2
  <2> QED BY <2>3, Zenon DEF TurnsEq, R
<1>6. TurnsEq(Turns(b), b)
  BY <1>5, Zenon DEF TurnsEq, Turns
<1>7. Turns(b)[0] = {<<0, EmptyMap>>}
  BY <1>6, Zenon DEF TurnsEq
<1>8. ASSUME NEW n \in Nat PROVE Turns(b)[n + 1] = After(b, Turns(b)[n])
  <2> DEFINE j == n + 1
  <2>1. j \in Nat /\ j # 0 /\ j - 1 = n
    OBVIOUS
  <2> HIDE DEF j
  <2>2. Turns(b)[j] = UNION {Turn(b, s) : s \in Turns(b)[j - 1]}
    BY <1>6, <2>1, Zenon DEF TurnsEq
  <2>3. Turns(b)[j] = After(b, Turns(b)[n])
    BY <2>1, <2>2, Zenon DEF After
  <2> QED BY <2>3 DEF j
<1>9. Turns(b) \in [Nat -> S]
  <2> DEFINE T == {n \in Nat : Turns(b)[n] \in S}
  <2>1. 0 \in T
    BY <1>2, <1>7, Zenon DEF a
  <2>2. ASSUME NEW n \in Nat, n \in T PROVE n + 1 \in T
    <3>1. n + 1 \in Nat
      OBVIOUS
    <3> QED BY <1>0, <1>8, <2>2, <3>1, Zenon
  <2>3. \A n \in Nat : n \in T
    <3> HIDE DEF T
    <3> QED BY <2>1, <2>2, Induction
  <2>4. Turns(b) = [n \in Nat |-> Turns(b)[n]]
    BY <1>6, Zenon DEF TurnsEq
  <2> QED BY <2>3, <2>4, Zenon
<1> QED BY <1>7, <1>8, <1>9, Zenon DEF S

\* After t turns the loop stands at s; from s it can only turn to x.
Stands(b, t, s) == Turns(b)[t] = {s}

TurnsTo(b, s, x) == Turn(b, s) = {x}

LEMMA OneTurn ==
  ASSUME NEW b \in Seq(Cell), NEW t \in Nat, NEW s, NEW x, Stands(b, t, s), TurnsTo(b, s, x)
  PROVE  Stands(b, t + 1, x)
<1>1. Turns(b)[t + 1] = After(b, Turns(b)[t])
  BY TurnsUnfold
<1>2. After(b, {s}) = {x}
  <2>1. Turn(b, s) = {x}
    BY Zenon DEF TurnsTo
  <2> QED BY <2>1, Zenon DEF After
<1> QED BY <1>1, <1>2, Zenon DEF Stands

\* A loop that has ended makes no more turns.
LEMMA TurnsEnd ==
  ASSUME NEW b \in Seq(Cell), NEW t \in Nat, NEW s, Stands(b, t, s), s[1] >= Len(b),
         NEW u \in Nat, t <= u
  PROVE  Stands(b, u, s)
<1>1. TurnsTo(b, s, s)
  BY Zenon DEF Turn, TurnsTo
<1> DEFINE T == {n \in Nat : t <= n => Stands(b, n, s)}
<1>2. 0 \in T
  <2>1. t <= 0 => t = 0
    OBVIOUS
  <2> QED BY <2>1
<1>3. ASSUME NEW n \in Nat, n \in T PROVE n + 1 \in T
  <2>1. n + 1 \in Nat /\ (t <= n + 1 => t = n + 1 \/ t <= n)
    OBVIOUS
  <2> QED BY <1>1, <1>3, <2>1, OneTurn, Zenon
<1>4. u \in T
  <2> HIDE DEF T
  <2> QED BY <1>2, <1>3, Induction
<1> QED BY <1>4

-----------------------------------------------------------------------------
(* What deserialize makes of a line of serialize.                          *)

\* From offset o on, b has the cells of t.
At(b, o, t) == o + Len(t) <= Len(b) /\ \A i \in 1..Len(t) : b[o + i] = t[i]

LEMMA Slice ==
  ASSUME NEW S, NEW b \in Seq(S), NEW o \in Nat, NEW n \in Nat, o + n <= Len(b)
  PROVE  SubSeq(b, o + 1, o + n) = [i \in 1..n |-> b[o + i]]
OBVIOUS

LEMMA CellsDiffer ==
  ASSUME NEW x, NEW i
  PROVE  /\ <<"ip", x, i>> # Comma /\ <<"ip", x, i>> # Newline
         /\ <<"mac", x, i>> # Comma /\ <<"mac", x, i>> # Newline
         /\ Comma # Newline /\ Space # Newline /\ Space # Comma
<1>1. /\ Comma[1] = "," /\ Space[1] = " " /\ Newline[1] = "nl"
      /\ <<"ip", x, i>>[1] = "ip" /\ <<"mac", x, i>>[1] = "mac"
  BY DEF Comma, Space, Newline
<1> QED BY <1>1, Zenon

LEMMA IpOfText ==
  ASSUME NEW k \in Keys
  PROVE  IpFromString(IpText(k)) = k
<1>1. ASSUME NEW i \in Keys, IpText(i) = IpText(k) PROVE i = k
  <2>1. 1 \in 1..KeyLen[i] /\ 1 \in 1..KeyLen[k]
    BY Lengths
  <2>2. IpText(i)[1] = <<"ip", i, 1>> /\ IpText(k)[1] = <<"ip", k, 1>>
    BY <2>1, Zenon DEF IpText
  <2> QED BY <1>1, <2>2
<1>2. Ips \subseteq Keys /\ (k \in Ips \/ k = JunkIp) /\ JunkIp \notin Ips
  BY CacheFileAssumption DEF Keys
<1>3. CASE k \in Ips
  <2>1. (CHOOSE ip \in Ips : IpText(k) = IpText(ip)) \in Ips
        /\ IpText(CHOOSE ip \in Ips : IpText(k) = IpText(ip)) = IpText(k)
    BY <1>3, Zenon
  <2> QED BY <1>1, <1>2, <1>3, <2>1, Zenon DEF IpFromString
<1>4. CASE k = JunkIp
  BY <1>1, <1>2, <1>4, Zenon DEF IpFromString
<1> QED BY <1>2, <1>3, <1>4

LEMMA MacOfText ==
  ASSUME NEW v \in Value
  PROVE  MacFromString(MacText(v)) = {v}
<1>0. MacLen \in Nat /\ 1 \in 1..MacLen
  BY Lengths
<1>1. ASSUME NEW w \in Value
      PROVE  MacText(w) \in Seq(Cell) /\ Len(MacText(w)) = MacLen /\ MacText(w)[1] = <<"mac", w, 1>>
  <2>1. MacText(w)[1] = <<"mac", w, 1>>
    BY <1>0, Zenon DEF MacText
  <2>2. JunkIp \in Keys
    BY Lengths
  <2> QED BY <2>1, <2>2, TextTypes, Zenon
<1>2. MacLen <= Len(MacText(v)) /\ MacText(v) = SubSeq(MacText(v), 1, MacLen)
  BY <1>0, <1>1
<1>3. ASSUME NEW w \in Value, MacText(w) = SubSeq(MacText(v), 1, MacLen) PROVE w = v
  <2>1. MacText(w) = MacText(v)
    BY <1>2, <1>3, Zenon
  <2>2. <<"mac", w, 1>> = <<"mac", v, 1>>
    BY <1>1, <2>1, Zenon
  <2> QED BY <2>2
<1>4. {m \in Macs \cup {JunkMac} :
         MacLen <= Len(MacText(v)) /\ MacText(m) = SubSeq(MacText(v), 1, MacLen)} = {v}
  BY <1>2, <1>3, Zenon DEF Value
<1> QED BY <1>4, Zenon DEF MacFromString

\* A whole line is one turn, which adds its pair to the map.
LEMMA LineTurn ==
  ASSUME NEW b \in Seq(Cell), NEW o \in Nat, NEW k \in Keys, NEW v \in Value, NEW m,
         At(b, o, writeline(k, v))
  PROVE  TurnsTo(b, <<o, m>>, <<o + Len(writeline(k, v)), [m EXCEPT ![k] = v]>>)
<1> DEFINE K == KeyLen[k]
           at == o + K + 2
           s == <<o, m>>
<1>1. K \in Nat /\ MacLen \in Nat /\ Len(b) \in Nat
  BY Lengths
<1>2. /\ o + (K + MacLen + 3) <= Len(b) /\ Len(writeline(k, v)) = K + MacLen + 3
      /\ \A i \in 1..(K + MacLen + 3) : b[o + i] = writeline(k, v)[i]
  BY LineShape, Zenon DEF At
<1>3. /\ \A i \in 1..K : b[o + i] = <<"ip", k, i>>
      /\ b[o + (K + 1)] = Comma
      /\ \A i \in 1..MacLen : b[o + (K + 2 + i)] = <<"mac", v, i>>
      /\ b[o + (K + MacLen + 3)] = Newline
  <2> HIDE DEF K
  <2>1. /\ \A i \in 1..K : i \in 1..(K + MacLen + 3)
        /\ K + 1 \in 1..(K + MacLen + 3) /\ K + MacLen + 3 \in 1..(K + MacLen + 3)
        /\ \A i \in 1..MacLen : K + 2 + i \in 1..(K + MacLen + 3)
    BY <1>1
  <2> QED BY <1>2, <2>1, LineShape, Zenon DEF K
<1> HIDE DEF K
<1>4. substr(b, o, Comma) = IpText(k)
  <2>1. ASSUME NEW j \in o+1..Len(b), b[j] = Comma PROVE o + K + 1 <= j
    <3> SUFFICES ASSUME ~(o + K + 1 <= j) PROVE FALSE
      OBVIOUS
    <3>1. j - o \in 1..K /\ o + (j - o) = j
      BY <1>1
    <3>2. b[j] = <<"ip", k, j - o>>
      BY <1>3, <3>1, Zenon
    <3> QED BY <2>1, <3>2, CellsDiffer, Zenon
  <2>2. o + K + 1 = o + (K + 1) /\ o + K + 1 \in o+1..Len(b) /\ (o + K + 1) - 1 = o + K
    BY <1>1, <1>2
  <2>3. First(b, o, Comma, o + K + 1)
    BY <1>3, <2>1, <2>2, Zenon DEF First
  <2>4. substr(b, o, Comma) = SubSeq(b, o + 1, o + K)
    <3>1. substr(b, o, Comma) = SubSeq(b, o + 1, (o + K + 1) - 1)
      BY <2>3, SubstrFirst, Zenon
    <3> QED BY <2>2, <3>1, Zenon
  <2>5. SubSeq(b, o + 1, o + K) = [i \in 1..K |-> b[o + i]]
    BY <1>1, <1>2, Slice
  <2>6. [i \in 1..K |-> b[o + i]] = IpText(k)
    BY <1>3 DEF IpText, K
  <2> QED BY <2>4, <2>5, <2>6, Zenon
<1>5. Len(IpText(k)) = K
  BY TextTypes DEF K
<1>6. at \in Nat /\ at + MacLen + 1 = o + (K + MacLen + 3) /\ ~(o >= Len(b)) /\ ~(at > Len(b))
  BY <1>1, <1>2
<1>7. substr(b, at, Newline) = MacText(v)
  <2>1. ASSUME NEW i \in 1..MacLen PROVE b[at + i] = <<"mac", v, i>>
    <3>1. at + i = o + (K + 2 + i)
      BY <1>1
    <3> HIDE DEF at
    <3> QED BY <1>3, <3>1, Zenon
  <2> HIDE DEF at
  <2>2. ASSUME NEW j \in at+1..Len(b), b[j] = Newline PROVE at + MacLen + 1 <= j
    <3> SUFFICES ASSUME ~(at + MacLen + 1 <= j) PROVE FALSE
      OBVIOUS
    <3>1. j - at \in 1..MacLen /\ at + (j - at) = j
      BY <1>1, <1>6
    <3>2. b[j] = <<"mac", v, j - at>>
      BY <2>1, <3>1, Zenon
    <3> QED BY <2>2, <3>2, CellsDiffer, Zenon
  <2>3. at + MacLen + 1 \in at+1..Len(b) /\ (at + MacLen + 1) - 1 = at + MacLen
    BY <1>1, <1>2, <1>6
  <2>4. First(b, at, Newline, at + MacLen + 1)
    BY <1>3, <1>6, <2>2, <2>3, Zenon DEF First
  <2>5. substr(b, at, Newline) = SubSeq(b, at + 1, at + MacLen)
    <3>1. substr(b, at, Newline) = SubSeq(b, at + 1, (at + MacLen + 1) - 1)
      BY <1>6, <2>4, SubstrFirst, Zenon
    <3> QED BY <2>3, <3>1, Zenon
  <2>6. SubSeq(b, at + 1, at + MacLen) = [i \in 1..MacLen |-> b[at + i]]
    BY <1>1, <1>2, <1>6, Slice
  <2>7. [i \in 1..MacLen |-> b[at + i]] = MacText(v)
    BY <2>1 DEF MacText
  <2> QED BY <2>5, <2>6, <2>7, Zenon
<1>8. Len(MacText(v)) = MacLen /\ IpFromString(IpText(k)) = k /\ MacFromString(MacText(v)) = {v}
  BY TextTypes, IpOfText, MacOfText, Zenon
<1>9. s[1] = o /\ s[2] = m
  OBVIOUS
<1> HIDE DEF s, at
<1>10. at = s[1] + Len(substr(b, s[1], Comma)) + 2
  BY <1>4, <1>5, <1>9, Zenon DEF at
<1>11. Turn(b, s) = {<<at + Len(substr(b, at, Newline)) + 1,
                       [s[2] EXCEPT ![IpFromString(substr(b, s[1], Comma))] = mac]>>
                     : mac \in MacFromString(substr(b, at, Newline))}
  BY <1>6, <1>9, <1>10, Zenon DEF Turn
<1>12. Turn(b, s) = {<<at + MacLen + 1, [m EXCEPT ![k] = mac]>> : mac \in {v}}
  BY <1>4, <1>7, <1>8, <1>9, <1>11, Zenon
<1>13. Turn(b, s) = {<<at + MacLen + 1, [m EXCEPT ![k] = v]>>}
  BY <1>12, Zenon
<1> QED BY <1>2, <1>6, <1>13, Zenon DEF s, TurnsTo

-----------------------------------------------------------------------------
(* What deserialize makes of a file, whole or cut short.                   *)

\* The pairs of m that the loop of serialize has passed when it comes to key n.
Below(m, n) == [k \in Keys |-> IF k < n THEN m[k] ELSE NoMac]

\* The text begins with s.
Starts(t, s) == Len(s) <= Len(t) /\ \A i \in 1..Len(s) : t[i] = s[i]

LEMMA LinesLen ==
  ASSUME NEW m \in Map, NEW n \in Nat
  PROVE  /\ Lines(m)[n] \in Seq(Cell) /\ Len(Lines(m)[n]) \in Nat
         /\ LineOf(m, n) \in Seq(Cell) /\ Len(LineOf(m, n)) \in Nat
         /\ Len(Lines(m)[n + 1]) = Len(Lines(m)[n]) + Len(LineOf(m, n))
<1>1. /\ Lines(m)[n] \in Seq(Cell) /\ LineOf(m, n) \in Seq(Cell)
      /\ Lines(m)[n + 1] = Lines(m)[n] \o LineOf(m, n)
  BY LinesUnfold, LineOfType, Zenon
<1>2. Len(Lines(m)[n]) \in Nat /\ Len(LineOf(m, n)) \in Nat
  BY <1>1
<1>3. Len(Lines(m)[n + 1]) = Len(Lines(m)[n]) + Len(LineOf(m, n))
  BY <1>1, Concat, Zenon DEF Cat
<1> QED BY <1>1, <1>2, <1>3

\* What serialize's loop has written stays where it is.
LEMMA LinesGrow ==
  ASSUME NEW m \in Map, NEW n \in Nat, NEW u \in Nat, n <= u
  PROVE  Starts(Lines(m)[u], Lines(m)[n])
<1> DEFINE T == {w \in Nat : n <= w => Starts(Lines(m)[w], Lines(m)[n])}
<1>0. Starts(Lines(m)[n], Lines(m)[n])
  <2>1. Len(Lines(m)[n]) <= Len(Lines(m)[n])
    BY LinesLen
  <2> QED BY <2>1, Zenon DEF Starts
<1>1. 0 \in T
  <2>1. n <= 0 => n = 0
    OBVIOUS
  <2> QED BY <1>0, <2>1
<1>2. ASSUME NEW w \in Nat, w \in T PROVE w + 1 \in T
  <2> DEFINE y == Lines(m)[w + 1]
             x == Lines(m)[w]
             z == Lines(m)[n]
  <2>1. w + 1 \in Nat /\ (n <= w + 1 => n = w + 1 \/ n <= w)
    OBVIOUS
  <2>2. ASSUME n <= w PROVE Starts(y, z)
    <3>1. Starts(x, z)
      BY <1>2, <2>2, Zenon
    <3>2. Cat(y, x, LineOf(m, w))
      BY LinesUnfold, LineOfType, Concat, Zenon
    <3>3. Len(x) \in Nat /\ Len(z) \in Nat /\ Len(LineOf(m, w)) \in Nat
      BY LinesLen, Zenon
    <3> HIDE DEF x, y, z
    <3>4. Len(z) <= Len(x) /\ Len(y) = Len(x) + Len(LineOf(m, w))
      BY <3>1, <3>2, Zenon DEF Starts, Cat
    <3>5. Len(z) <= Len(y) /\ \A i \in 1..Len(z) : i \in 1..Len(x)
      BY <3>3, <3>4
    <3> QED BY <3>1, <3>2, <3>5, Zenon DEF Starts, Cat
  <2> QED BY <1>0, <2>1, <2>2, Zenon
<1>3. u \in T
  <2> HIDE DEF T
  <2> QED BY <1>1, <1>2, Induction
<1> QED BY <1>3

\* The text of m, as far as b goes.
Cut(b, m) ==
  /\ b \in Seq(Cell) /\ Len(b) <= Len(serialize(m))
  /\ \A i \in 1..Len(b) : b[i] = serialize(m)[i]

\* Where the line of key n is.
LEMMA LineIsAt ==
  ASSUME NEW m \in Map, NEW b, Cut(b, m), NEW n \in Nat, n <= JunkIp
  PROVE  LET o == Len(Lines(m)[n])
             line == LineOf(m, n)
         IN  /\ Len(Lines(m)[n + 1]) <= Len(b) => At(b, o, line)
             /\ \A i \in 1..Len(line) : o + i <= Len(b) => b[o + i] = line[i]
<1> DEFINE o == Len(Lines(m)[n])
           line == LineOf(m, n)
           y == Lines(m)[n + 1]
           f == serialize(m)
<1>1. JunkIp \in Nat
  BY Lengths
<1>2. JunkIp + 1 \in Nat /\ n + 1 \in Nat /\ n + 1 <= JunkIp + 1
  BY <1>1
<1>3. Starts(f, y)
  BY <1>2, LinesGrow, Zenon DEF serialize
<1>4. Cat(y, Lines(m)[n], line)
  BY LinesUnfold, LineOfType, Concat, Zenon
<1>5. o \in Nat /\ Len(line) \in Nat /\ Len(y) = o + Len(line) /\ Len(b) \in Nat
  BY LinesLen DEF Cut
<1>6. ASSUME NEW i \in 1..Len(line), o + i <= Len(b) PROVE b[o + i] = line[i]
  <2> HIDE DEF o, line, y, f
  <2>1. o + i \in 1..Len(b) /\ o + i \in 1..Len(y)
    BY <1>5, <1>6
  <2>2. b[o + i] = f[o + i]
    BY <2>1, Zenon DEF Cut, f
  <2>3. f[o + i] = y[o + i]
    BY <1>3, <2>1, Zenon DEF Starts
  <2>4. y[o + i] = line[i]
    BY <1>4, Zenon DEF Cat, o
  <2> QED BY <2>2, <2>3, <2>4, Zenon
<1>7. ASSUME Len(y) <= Len(b) PROVE At(b, o, line)
  <2> HIDE DEF o, line, y
  <2>1. o + Len(line) <= Len(b) /\ \A i \in 1..Len(line) : o + i <= Len(b)
    BY <1>5, <1>7
  <2> QED BY <1>6, <2>1, Zenon DEF At
<1> QED BY <1>6, <1>7, Zenon

LEMMA BelowSteps ==
  ASSUME NEW m \in Map, NEW n \in Nat
  PROVE  /\ Below(m, 0) = EmptyMap
         /\ Below(m, JunkIp + 1) = m
         /\ ~(n \in Keys /\ m[n] # NoMac) => Below(m, n + 1) = Below(m, n)
         /\ n \in Keys => Below(m, n + 1) = [Below(m, n) EXCEPT ![n] = m[n]]
<1>1. Keys \subseteq Nat /\ (\A k \in Keys : k < JunkIp + 1) /\ m = [k \in Keys |-> m[k]]
  BY Lengths DEF Map
<1>2. Below(m, 0) = EmptyMap
  <2>1. ASSUME NEW k \in Keys PROVE ~(k < 0)
    BY <1>1
  <2> QED BY <2>1 DEF Below, EmptyMap
<1>3. Below(m, JunkIp + 1) = m
  BY <1>1 DEF Below
<1>4. ASSUME ~(n \in Keys /\ m[n] # NoMac) PROVE Below(m, n + 1) = Below(m, n)
  <2>1. ASSUME NEW k \in Keys
        PROVE  (IF k < n + 1 THEN m[k] ELSE NoMac) = (IF k < n THEN m[k] ELSE NoMac)
    <3>1. k \in Nat /\ (k < n + 1 <=> k < n \/ k = n) /\ (k = n => ~(k < n))
      BY <1>1
    <3> QED BY <1>4, <3>1, Zenon
  <2> QED BY <2>1 DEF Below
<1>5. ASSUME n \in Keys PROVE Below(m, n + 1) = [Below(m, n) EXCEPT ![n] = m[n]]
  <2>1. ASSUME NEW k \in Keys
        PROVE  (IF k < n + 1 THEN m[k] ELSE NoMac)
                 = IF k = n THEN m[n] ELSE IF k < n THEN m[k] ELSE NoMac
    <3>1. k \in Nat /\ (k < n + 1 <=> k < n \/ k = n)
      BY <1>1
    <3> QED BY <3>1, Zenon
  <2>2. [Below(m, n) EXCEPT ![n] = m[n]]
          = [k \in Keys |-> IF k = n THEN m[n] ELSE IF k < n THEN m[k] ELSE NoMac]
    BY <1>5, Zenon DEF Below
  <2>3. Below(m, n + 1) = [k \in Keys |-> IF k = n THEN m[n] ELSE IF k < n THEN m[k] ELSE NoMac]
    BY <2>1 DEF Below
  <2> QED BY <2>2, <2>3, Zenon
<1> QED BY <1>2, <1>3, <1>4, <1>5

\* The loop stands before the line of key n, having read the pairs before it.
Reaches(b, m, n) ==
  \E t \in Nat : /\ t <= Len(Lines(m)[n])
                 /\ Stands(b, t, <<Len(Lines(m)[n]), Below(m, n)>>)

LEMMA WholeLines ==
  ASSUME NEW m \in Map, NEW b, Cut(b, m),
         NEW u \in Nat, u <= JunkIp + 1, Len(Lines(m)[u]) <= Len(b)
  PROVE  Reaches(b, m, u)
<1> DEFINE T == {n \in Nat : n <= JunkIp + 1 /\ Len(Lines(m)[n]) <= Len(b) => Reaches(b, m, n)}
<1>0. b \in Seq(Cell) /\ JunkIp \in Nat
  BY Lengths DEF Cut
<1>1. 0 \in T
  <2>1. Lines(m)[0] = <<>> /\ Stands(b, 0, <<0, EmptyMap>>) /\ Below(m, 0) = EmptyMap
    BY <1>0, LinesUnfold, TurnsUnfold, BelowSteps, Zenon DEF Stands
  <2>2. Len(Lines(m)[0]) = 0
    BY <2>1
  <2>3. 0 \in Nat /\ 0 <= 0
    OBVIOUS
  <2>4. Reaches(b, m, 0)
    BY <2>1, <2>2, <2>3, Zenon DEF Reaches
  <2> QED BY <2>3, <2>4, Zenon
<1>2. ASSUME NEW n \in Nat, n \in T PROVE n + 1 \in T
  <2> DEFINE o == Len(Lines(m)[n])
             y == Len(Lines(m)[n + 1])
             line == LineOf(m, n)
  <2>0. n + 1 \in Nat
    OBVIOUS
  <2> SUFFICES ASSUME n + 1 <= JunkIp + 1, y <= Len(b) PROVE Reaches(b, m, n + 1)
    BY <2>0, Zenon
  <2>1. o \in Nat /\ Len(line) \in Nat /\ y = o + Len(line) /\ Len(b) \in Nat
    BY <1>0, LinesLen
  <2>2. n <= JunkIp /\ n <= JunkIp + 1 /\ o <= Len(b)
    BY <1>0, <2>1
  <2>3. PICK t \in Nat : t <= o /\ Stands(b, t, <<o, Below(m, n)>>)
    BY <1>2, <2>2, Zenon DEF Reaches
  <2>4. CASE ~(n \in Keys /\ m[n] # NoMac)
    <3>1. line = <<>> /\ Below(m, n + 1) = Below(m, n)
      BY <2>4, BelowSteps, Zenon DEF LineOf
    <3>2. y = o
      BY <2>1, <3>1
    <3> QED BY <2>3, <3>1, <3>2, Zenon DEF Reaches
  <2>5. CASE n \in Keys /\ m[n] # NoMac
    <3>1. m[n] \in Value /\ line = writeline(n, m[n])
      BY <2>5, Zenon DEF Map, Value, LineOf
    <3>2. At(b, o, writeline(n, m[n]))
      <4>1. At(b, o, line)
        BY <2>2, LineIsAt, Zenon
      <4> QED BY <3>1, <4>1, Zenon
    <3>3. TurnsTo(b, <<o, Below(m, n)>>, <<o + Len(line), [Below(m, n) EXCEPT ![n] = m[n]]>>)
      BY <1>0, <2>1, <2>5, <3>1, <3>2, LineTurn, Zenon
    <3>4. TurnsTo(b, <<o, Below(m, n)>>, <<y, Below(m, n + 1)>>)
      BY <2>1, <2>5, <3>3, BelowSteps, Zenon
    <3>5. Stands(b, t + 1, <<y, Below(m, n + 1)>>)
      BY <1>0, <2>3, <3>4, OneTurn, Zenon
    <3>6. Len(line) >= 1
      <4>1. Len(line) = KeyLen[n] + MacLen + 3 /\ KeyLen[n] \in Nat /\ MacLen \in Nat
        BY <2>5, <3>1, LineShape, Lengths
      <4> QED BY <4>1
    <3>7. t + 1 \in Nat /\ t + 1 <= y
      BY <2>1, <2>3, <3>6
    <3> QED BY <3>5, <3>7, Zenon DEF Reaches
  <2> QED BY <2>4, <2>5
<1>3. u \in T
  <2> HIDE DEF T
  <2> QED BY <1>1, <1>2, Induction
<1> QED BY <1>3

\* deserialize inverts serialize, for every map.
LEMMA LoadWhole ==
  ASSUME NEW m \in Map
  PROVE  serialize(m) \in Seq(Cell) /\ deserialize(serialize(m)) = {m}
<1> DEFINE b == serialize(m)
           s == <<Len(b), m>>
<1>1. JunkIp + 1 \in Nat /\ JunkIp + 1 <= JunkIp + 1
  BY Lengths
<1>2. b \in Seq(Cell) /\ b = Lines(m)[JunkIp + 1]
  BY <1>1, LinesLen, Zenon DEF serialize
<1>3. Len(b) \in Nat /\ Len(b) <= Len(b) /\ Len(b) >= Len(b)
  BY <1>2
<1>4. Cut(b, m)
  BY <1>2, <1>3, Zenon DEF Cut
<1>5. Reaches(b, m, JunkIp + 1)
  BY <1>1, <1>2, <1>3, <1>4, WholeLines, Zenon
<1>6. PICK t \in Nat : t <= Len(b) /\ Stands(b, t, s)
  BY <1>2, <1>5, BelowSteps, Zenon DEF Reaches
<1>7. s[1] = Len(b) /\ s[2] = m
  OBVIOUS
<1> HIDE DEF s
<1>8. Stands(b, Len(b), s)
  <2>1. b \in Seq(Cell) /\ Len(b) \in Nat /\ s[1] >= Len(b)
    BY <1>2, <1>3, <1>7, Zenon
  <2> HIDE DEF b
  <2> QED BY <1>6, <2>1, TurnsEnd, Zenon
<1> QED BY <1>2, <1>7, <1>8, Zenon DEF deserialize, Stands

\* Beyond offset o, b has only cells of the line t, which it does not complete.
Rest(b, o, t) ==
  /\ Len(b) < o + Len(t)
  /\ \A i \in 1..Len(t) : o + i <= Len(b) => b[o + i] = t[i]

\* A key that is read from such a rest is the key of the line, or junk.
LEMMA RestKey ==
  ASSUME NEW b \in Seq(Cell), NEW o \in Nat, NEW x \in Keys, NEW v \in Value,
         Rest(b, o, writeline(x, v)), NEW at \in Nat, at >= o
  PROVE  IpFromString(substr(b, at, Comma)) \in {x, JunkIp}
<1> DEFINE key == substr(b, at, Comma)
           line == writeline(x, v)
           K == KeyLen[x]
<1> SUFFICES ASSUME IpFromString(key) # JunkIp PROVE IpFromString(key) = x
  OBVIOUS
<1>1. PICK ip \in Ips : key = IpText(ip) /\ IpFromString(key) = ip
  BY Zenon DEF IpFromString
<1>2. ip \in Keys
  BY DEF Keys
<1>3. KeyLen[ip] \in Nat \ {0} /\ K \in Nat /\ MacLen \in Nat
  BY <1>2, Lengths
<1>4. key[1] = <<"ip", ip, 1>> /\ Len(key) # 0
  <2>1. 1 \in 1..KeyLen[ip]
    BY <1>3
  <2>2. IpText(ip)[1] = <<"ip", ip, 1>>
    BY <2>1, Zenon DEF IpText
  <2>3. Len(IpText(ip)) = KeyLen[ip]
    BY <1>2, TextTypes, Zenon
  <2> HIDE DEF key
  <2> QED BY <1>1, <1>3, <2>2, <2>3
<1>5. Len(<<>>) = 0
  OBVIOUS
<1>6. PICK i : First(b, at, Comma, i) /\ key = SubSeq(b, at + 1, i - 1)
  BY <1>4, <1>5, SubstrCases, Zenon
<1>7. i \in at+1..Len(b) /\ b[i] = Comma /\ Len(b) \in Nat /\ i \in Nat
  BY <1>6 DEF First
<1>8. at + 1 <= i - 1 /\ key[1] = b[at + 1]
  <2>1. CASE at + 1 <= i - 1
    <3>1. SubSeq(b, at + 1, i - 1)[1] = b[at + 1]
      BY <1>7, <2>1
    <3> QED BY <1>6, <2>1, <3>1, Zenon
  <2>2. CASE ~(at + 1 <= i - 1)
    <3>1. SubSeq(b, at + 1, i - 1) = <<>>
      BY <1>7, <2>2
    <3> QED BY <1>4, <1>5, <1>6, <3>1, Zenon
  <2> QED BY <2>1, <2>2
<1> HIDE DEF key, line
<1>9. /\ Len(line) = K + MacLen + 3 /\ Len(b) < o + Len(line)
      /\ \A j \in 1..Len(line) : o + j <= Len(b) => b[o + j] = line[j]
      /\ \A j \in 1..K : line[j] = <<"ip", x, j>>
      /\ line[K + 2] = Space
      /\ \A j \in 1..MacLen : line[K + 2 + j] = <<"mac", v, j>>
  BY LineShape, Zenon DEF Rest, line
<1> DEFINE L == Len(line)
           B == Len(b)
<1>14. L = K + MacLen + 3 /\ B < o + L /\ i \in at+1..B /\ B \in Nat /\ i <= B
  BY <1>7, <1>9
<1> HIDE DEF K, L, B
\* The only comma of the line is the one after its key.
<1>10. i - o <= K + 1
  <2> SUFFICES ASSUME ~(i - o <= K + 1) PROVE FALSE
    OBVIOUS
  <2> DEFINE j == i - o
  <2>1. j \in 1..L /\ o + j = i /\ i <= B
    BY <1>3, <1>14
  <2>2. line[j] = Comma
    BY <1>7, <1>9, <2>1, Zenon DEF L, B
  <2>3. j = K + 2 \/ (j - (K + 2) \in 1..MacLen /\ j = K + 2 + (j - (K + 2)))
    BY <1>3, <1>14
  <2> HIDE DEF j
  <2>4. j # K + 2
    BY <1>9, <2>2, CellsDiffer, Zenon
  <2>5. line[K + 2 + (j - (K + 2))] = <<"mac", v, j - (K + 2)>>
    BY <1>9, <2>3, <2>4, Zenon
  <2>6. line[j] = <<"mac", v, j - (K + 2)>>
    BY <2>3, <2>4, <2>5, Zenon
  <2> QED BY <2>2, <2>6, CellsDiffer, Zenon
<1>11. b[at + 1] = <<"ip", x, (at + 1) - o>>
  <2> DEFINE j == (at + 1) - o
  <2>1. j \in 1..K /\ j \in 1..L /\ o + j = at + 1 /\ at + 1 <= B
    <3>1. at + 1 <= i - 1
      BY <1>8
    <3> QED BY <1>3, <1>10, <1>14, <3>1
  <2> HIDE DEF j
  <2>2. b[at + 1] = <<"ip", x, j>>
    BY <1>9, <2>1, Zenon DEF L, B
  <2> QED BY <2>2 DEF j
<1>12. <<"ip", ip, 1>> = <<"ip", x, (at + 1) - o>>
  BY <1>4, <1>8, <1>11, Zenon
<1>13. ip = x
  BY <1>12
<1> QED BY <1>1, <1>13, Zenon

\* A turn that starts in such a rest stays in it, and changes no other pair.
LEMMA RestTurn ==
  ASSUME NEW b \in Seq(Cell), NEW o \in Nat, NEW x \in Keys, NEW v \in Value,
         Rest(b, o, writeline(x, v)), NEW s \in Point(b), s[1] >= o, NEW y \in Turn(b, s)
  PROVE  /\ y[1] >= o
         /\ y[2] # Overread =>
              s[2] # Overread /\ \A ip \in Ips : ip # x => y[2][ip] = s[2][ip]
<1> DEFINE key == substr(b, s[1], Comma)
           at == s[1] + Len(key) + 2
           value == substr(b, at, Newline)
           k == IpFromString(key)
<1>1. /\ s[1] \in Nat /\ Len(b) \in Nat
      /\ s[2] \in Map \cup {Overread} /\ (s[2] = Overread => s[1] >= Len(b))
  BY DEF Point
<1>2. Len(key) \in Nat
  BY <1>1, SubstrType, Zenon
<1>3. at \in Nat /\ at >= o
  BY <1>1, <1>2
<1>4. Len(value) \in Nat
  BY <1>3, SubstrType, Zenon
<1>5. k \in {x, JunkIp}
  BY <1>1, RestKey, Zenon
<1>6. /\ s[1] >= Len(b) => Turn(b, s) = {s}
      /\ ~(s[1] >= Len(b)) /\ at > Len(b) => Turn(b, s) = {<<at, Overread>>}
      /\ ~(s[1] >= Len(b)) /\ ~(at > Len(b)) =>
           Turn(b, s) = {<<at + Len(value) + 1, [s[2] EXCEPT ![k] = mac]>>
                         : mac \in MacFromString(value)}
  BY Zenon DEF Turn
<1> HIDE DEF key, at, value, k
<1>7. CASE s[1] >= Len(b)
  <2>1. y = s
    BY <1>6, <1>7, Zenon
  <2> QED BY <2>1, Zenon
<1>8. CASE ~(s[1] >= Len(b)) /\ at > Len(b)
  <2>1. y = <<at, Overread>>
    BY <1>6, <1>8, Zenon
  <2> QED BY <1>3, <2>1
<1>9. CASE ~(s[1] >= Len(b)) /\ ~(at > Len(b))
  <2>1. PICK mac \in MacFromString(value) :
          y = <<at + Len(value) + 1, [s[2] EXCEPT ![k] = mac]>>
    BY <1>6, <1>9
  <2>2. y[1] = at + Len(value) + 1 /\ y[2] = [s[2] EXCEPT ![k] = mac]
    BY <2>1
  <2>3. y[1] >= o
    BY <1>3, <1>4, <2>2
  <2>4. s[2] \in Map /\ s[2] # Overread
    BY <1>1, <1>9, Zenon
  <2>5. ASSUME NEW ip \in Ips, ip # x PROVE y[2][ip] = s[2][ip]
    <3>1. ip \in Keys /\ ip # k
      BY <1>5, <2>5, CacheFileAssumption DEF Keys
    <3> QED BY <2>2, <2>4, <3>1 DEF Map
  <2> QED BY <2>3, <2>4, <2>5
<1> QED BY <1>7, <1>8, <1>9

\* What deserialize may make of a buffer of cells.
LEMMA LoadType ==
  ASSUME NEW b \in Seq(Cell)
  PROVE  deserialize(b) \subseteq Map \cup {Overread}
<1>1. Len(b) \in Nat
  OBVIOUS
<1>2. Turns(b)[Len(b)] \in SUBSET Point(b)
  BY <1>1, TurnsUnfold, Zenon
<1>3. ASSUME NEW s \in Point(b) PROVE s[2] \in Map \cup {Overread}
  BY DEF Point
<1> QED BY <1>2, <1>3, Zenon DEF deserialize

\* The map x is m below key n, and nothing above it.
LooksLike(x, m, n) == \A ip \in Ips : ip # n => x[ip] = Below(m, n)[ip]

\* From a point in the rest of a cut text on, nothing but pair x changes.
LEMMA RestTurns ==
  ASSUME NEW b \in Seq(Cell), NEW o \in Nat, NEW x \in Keys, NEW v \in Value,
         Rest(b, o, writeline(x, v)), NEW m \in Map,
         NEW t \in Nat, Stands(b, t, <<o, Below(m, x)>>), NEW u \in Nat, t <= u,
         NEW s \in Turns(b)[u], s[2] # Overread
  PROVE  LooksLike(s[2], m, x)
<1> DEFINE Good(y) == y[1] >= o /\ (y[2] # Overread => LooksLike(y[2], m, x))
           T == {n \in Nat : t <= n => \A y \in Turns(b)[n] : Good(y)}
<1>0. \A y \in Turns(b)[t] : Good(y)
  <2> DEFINE y == <<o, Below(m, x)>>
  <2>1. y[1] = o /\ y[2] = Below(m, x) /\ o >= o
    OBVIOUS
  <2> HIDE DEF y
  <2>2. Good(y)
    BY <2>1, Zenon DEF LooksLike
  <2> QED BY <2>2, Zenon DEF Stands, y
<1>1. 0 \in T
  <2>1. t <= 0 => t = 0
    OBVIOUS
  <2> QED BY <1>0, <2>1
<1>2. ASSUME NEW n \in Nat, n \in T PROVE n + 1 \in T
  <2>1. n + 1 \in Nat /\ (t <= n + 1 => t = n + 1 \/ t <= n)
    OBVIOUS
  <2>2. ASSUME t <= n, NEW y \in Turns(b)[n + 1] PROVE Good(y)
    <3>1. /\ Turns(b)[n + 1] = After(b, Turns(b)[n])
          /\ Turns(b)[n] \in SUBSET Point(b)
      BY TurnsUnfold, Zenon
    <3>2. PICK w \in Turns(b)[n] : y \in Turn(b, w)
      BY <2>2, <3>1, Zenon DEF After
    <3>3. w \in Point(b) /\ w[1] >= o /\ (w[2] # Overread => LooksLike(w[2], m, x))
      BY <1>2, <2>2, <3>1, <3>2, Zenon
    <3>4. /\ y[1] >= o
          /\ y[2] # Overread =>
               w[2] # Overread /\ \A ip \in Ips : ip # x => y[2][ip] = w[2][ip]
      BY <3>2, <3>3, RestTurn, Zenon
    <3> QED BY <3>3, <3>4, Zenon DEF LooksLike
  <2> QED BY <1>0, <2>1, <2>2, Zenon
<1>3. u \in T
  <2> HIDE DEF T
  <2> QED BY <1>1, <1>2, Induction, Zenon
<1> QED BY <1>3

\* A text that stops short loads as the map that was saved, except at the key
\* whose line it cuts, and without the keys that follow.
LEMMA LoadCut ==
  ASSUME NEW m \in Map, NEW b, Cut(b, m)
  PROVE  \E n \in Nat : \A x \in deserialize(b) : x # Overread => LooksLike(x, m, n)
<1> DEFINE U == {n \in Nat : n <= JunkIp /\ Len(Lines(m)[n + 1]) > Len(b)}
<1>1. b \in Seq(Cell) /\ JunkIp \in Nat /\ JunkIp + 1 \in Nat /\ JunkIp + 1 <= JunkIp + 1
  BY Lengths DEF Cut
<1>2. Len(b) \in Nat /\ Len(b) <= Len(Lines(m)[JunkIp + 1])
  BY <1>1 DEF Cut, serialize
<1>3. CASE U = {}
  <2>0. JunkIp <= JunkIp
    BY <1>1
  <2>1. JunkIp \notin U
    <3> HIDE DEF U
    <3> QED BY <1>3, Zenon
  <2>2. ~(Len(Lines(m)[JunkIp + 1]) > Len(b))
    BY <1>1, <2>0, <2>1, Zenon
  <2>3. Len(Lines(m)[JunkIp + 1]) \in Nat
    BY <1>1, LinesLen, Zenon
  <2>4. Len(Lines(m)[JunkIp + 1]) = Len(b) /\ Len(b) <= Len(b) /\ Len(b) >= Len(b)
    BY <1>2, <2>2, <2>3
  <2> DEFINE s == <<Len(b), Below(m, JunkIp + 1)>>
  <2>5. PICK t \in Nat : t <= Len(b) /\ Stands(b, t, s)
    BY <1>1, <2>4, WholeLines, Zenon DEF Reaches
  <2>6. s[1] >= Len(b) /\ s[2] = Below(m, JunkIp + 1)
    BY <2>4
  <2> HIDE DEF s
  <2>7. Stands(b, Len(b), s)
    BY <1>1, <1>2, <2>5, <2>6, TurnsEnd, Zenon
  <2>8. deserialize(b) = {Below(m, JunkIp + 1)}
    BY <2>6, <2>7, Zenon DEF deserialize, Stands
  <2> QED BY <1>1, <2>8, Zenon DEF LooksLike
<1>4. CASE U # {}
  <2>1. PICK n \in U : \A k \in U : n <= k
    <3>1. U \in SUBSET Nat
      BY Zenon
    <3> HIDE DEF U
    <3> QED BY <1>4, <3>1, LeastNumber, Zenon
  <2> DEFINE o == Len(Lines(m)[n])
             line == LineOf(m, n)
  <2>2. n \in Nat /\ n <= JunkIp /\ Len(Lines(m)[n + 1]) > Len(b) /\ n <= JunkIp + 1
    BY <1>1, <2>1
  <2>3. /\ o \in Nat /\ Len(line) \in Nat /\ o + Len(line) > Len(b)
    BY <2>2, LinesLen
  <2>4. o <= Len(b)
    <3>1. CASE n = 0
      <4>1. o = 0
        BY <3>1, LinesUnfold
      <4> QED BY <1>2, <4>1
    <3>2. CASE n # 0
      <4>1. n - 1 \in Nat /\ n - 1 <= JunkIp /\ ~(n <= n - 1) /\ (n - 1) + 1 = n
        BY <1>1, <2>2, <3>2
      <4>2. n - 1 \notin U
        BY <2>1, <4>1, Zenon
      <4>3. ~(o > Len(b))
        BY <4>1, <4>2, Zenon
      <4> QED BY <1>2, <2>3, <4>3
    <3> QED BY <3>1, <3>2
  <2>5. n \in Keys /\ m[n] # NoMac
    <3>1. ASSUME line = <<>> PROVE FALSE
      BY <1>2, <2>3, <2>4, <3>1
    <3> QED BY <3>1, Zenon DEF LineOf
  <2>6. m[n] \in Value /\ line = writeline(n, m[n])
    BY <2>5, Zenon DEF Map, Value, LineOf
  <2>7. Rest(b, o, writeline(n, m[n]))
    <3>1. \A i \in 1..Len(line) : o + i <= Len(b) => b[o + i] = line[i]
      BY <2>2, LineIsAt, Zenon
    <3>2. Len(b) < o + Len(line)
      BY <1>2, <2>3
    <3> QED BY <2>6, <3>1, <3>2, Zenon DEF Rest
  <2>8. PICK t \in Nat : t <= o /\ Stands(b, t, <<o, Below(m, n)>>)
    BY <2>2, <2>4, WholeLines, Zenon DEF Reaches
  <2>9. t <= Len(b)
    BY <1>2, <2>3, <2>4, <2>8
  <2>10. ASSUME NEW x \in deserialize(b), x # Overread PROVE LooksLike(x, m, n)
    <3>1. PICK s \in Turns(b)[Len(b)] : x = s[2]
      BY <2>10, Zenon DEF deserialize
    <3> QED BY <1>1, <1>2, <2>3, <2>5, <2>6, <2>7, <2>8, <2>9, <2>10, <3>1, RestTurns, Zenon
  <2> QED BY <2>2, <2>10, Zenon
<1> QED BY <1>3, <1>4

-----------------------------------------------------------------------------
(* Lengths.                                                                *)

\* No map has a longer text than one that binds every key.
LEMMA LongestText ==
  ASSUME NEW m \in Map
  PROVE  Len(serialize(m)) <= Len(serialize([k \in Keys |-> JunkMac]))
<1> DEFINE f == [k \in Keys |-> JunkMac]
           T == {n \in Nat : Len(Lines(m)[n]) <= Len(Lines(f)[n])}
<1>1. f \in Map /\ JunkIp + 1 \in Nat
  BY Lengths DEF Map
<1>2. \A k \in Keys : f[k] = JunkMac
  OBVIOUS
<1> HIDE DEF f
<1>3. JunkMac \in Value /\ JunkMac # NoMac
  BY CacheFileAssumption DEF Value
<1>4. 0 \in T
  <2>1. Lines(m)[0] = <<>> /\ Lines(f)[0] = <<>>
    BY <1>1, LinesUnfold, Zenon
  <2>2. Len(Lines(m)[0]) <= Len(Lines(f)[0])
    BY <2>1
  <2> QED BY <2>2
<1>5. ASSUME NEW n \in Nat, n \in T PROVE n + 1 \in T
  <2>1. Len(LineOf(m, n)) <= Len(LineOf(f, n))
    <3>1. CASE n \in Keys /\ m[n] # NoMac
      <4>1. m[n] \in Value
        BY <3>1, Zenon DEF Map, Value
      <4>2. LineOf(m, n) = writeline(n, m[n]) /\ LineOf(f, n) = writeline(n, JunkMac)
        BY <1>2, <1>3, <3>1, Zenon DEF LineOf
      <4>3. /\ Len(writeline(n, m[n])) = KeyLen[n] + MacLen + 3
            /\ Len(writeline(n, JunkMac)) = KeyLen[n] + MacLen + 3
        BY <1>3, <3>1, <4>1, LineShape, Zenon
      <4>4. KeyLen[n] \in Nat /\ MacLen \in Nat
        BY <3>1, Lengths
      <4>5. KeyLen[n] + MacLen + 3 <= KeyLen[n] + MacLen + 3
        BY <4>4
      <4> QED BY <4>2, <4>3, <4>5, Zenon
    <3>2. CASE ~(n \in Keys /\ m[n] # NoMac)
      <4>1. LineOf(m, n) = <<>>
        BY <3>2, Zenon DEF LineOf
      <4>2. Len(LineOf(f, n)) \in Nat
        BY <1>1, LinesLen, Zenon
      <4> QED BY <4>1, <4>2
    <3> QED BY <3>1, <3>2
  <2>2. /\ Len(Lines(m)[n]) \in Nat /\ Len(LineOf(m, n)) \in Nat
        /\ Len(Lines(m)[n + 1]) = Len(Lines(m)[n]) + Len(LineOf(m, n))
    BY LinesLen, Zenon
  <2>3. /\ Len(Lines(f)[n]) \in Nat /\ Len(LineOf(f, n)) \in Nat
        /\ Len(Lines(f)[n + 1]) = Len(Lines(f)[n]) + Len(LineOf(f, n))
    BY <1>1, LinesLen, Zenon
  <2>4. Len(Lines(m)[n]) <= Len(Lines(f)[n]) /\ n + 1 \in Nat
    BY <1>5
  <2>5. Len(Lines(m)[n + 1]) <= Len(Lines(f)[n + 1])
    BY <2>1, <2>2, <2>3, <2>4
  <2> QED BY <2>4, <2>5
<1>6. JunkIp + 1 \in T
  <2> HIDE DEF T
  <2> QED BY <1>1, <1>4, <1>5, Induction
<1>7. Len(Lines(m)[JunkIp + 1]) <= Len(Lines(f)[JunkIp + 1])
  BY <1>6, Zenon
<1> QED BY <1>7, Zenon DEF serialize, f

\* A part of a text, written over a file, leaves a file of cells that is no
\* longer than the longer of the two.
LEMMA OverwriteType ==
  ASSUME NEW old \in Seq(Cell), NEW new \in Seq(Cell), NEW max \in Nat,
         Len(old) <= max, Len(new) <= max
  PROVE  LET z == new \o SubSeq(old, Len(new) + 1, Len(old))
         IN  z \in Seq(Cell) /\ Len(z) <= max
<1> DEFINE tail == SubSeq(old, Len(new) + 1, Len(old))
           z == new \o tail
<1>1. Len(old) \in Nat /\ Len(new) \in Nat
  OBVIOUS
<1>2. tail \in Seq(Cell)
  OBVIOUS
<1>3. Len(tail) = IF Len(new) + 1 <= Len(old) THEN Len(old) - Len(new) ELSE 0
  BY <1>1
<1>4. z \in Seq(Cell) /\ Len(z) = Len(new) + Len(tail)
  <2> HIDE DEF tail
  <2> QED BY <1>2, Concat, Zenon DEF Cat
<1> HIDE DEF tail, z
<1>5. Len(z) <= max
  BY <1>1, <1>3, <1>4
<1> QED BY <1>4, <1>5, Zenon DEF z, tail

\* The first n cells of a text.
LEMMA Beginning ==
  ASSUME NEW m \in Map, NEW n \in 0..Len(serialize(m))-1
  PROVE  Cut(SubSeq(serialize(m), 1, n), m)
<1> DEFINE f == serialize(m)
<1>1. f \in Seq(Cell)
  BY LoadWhole, Zenon
<1> HIDE DEF f
<1>2. n \in Nat /\ n <= Len(f) /\ Len(f) \in Nat
  BY <1>1 DEF f
<1>3. /\ SubSeq(f, 1, n) \in Seq(Cell) /\ Len(SubSeq(f, 1, n)) = n
      /\ \A i \in 1..n : SubSeq(f, 1, n)[i] = f[i]
  BY <1>1, <1>2
<1> QED BY <1>2, <1>3, Zenon DEF Cut, f

-----------------------------------------------------------------------------
(* Type correctness.                                                       *)

TypeInv == TypeOK /\ text \in Seq(Cell)

LEMMA TypeInit == Init => TypeInv
<1> SUFFICES ASSUME Init PROVE TypeInv
  OBVIOUS
<1>1. EmptyMap \in Map
  BY StartIsPoint, Zenon
<1>2. text \in Seq(Cell) /\ Len(text) = 0
  BY DEF Init
<1>3. [k \in Keys |-> JunkMac] \in Map
  BY DEF Map
<1>4. serialize([k \in Keys |-> JunkMac]) \in Seq(Cell)
  BY <1>3, LoadWhole, Zenon
<1>5. Len(text) <= Len(serialize([k \in Keys |-> JunkMac]))
  <2> DEFINE f == serialize([k \in Keys |-> JunkMac])
  <2> HIDE DEF f
  <2> QED BY <1>2, <1>4 DEF f
<1>6. pc \in [Procs -> {"off", "run", "write", "abort"}] /\ map \in [Procs -> Map]
  BY <1>1 DEF Init
<1> QED BY <1>2, <1>5, <1>6 DEF Init, TypeInv, TypeOK

LEMMA TypeStep == TypeInv /\ [Next]_vars => TypeInv'
<1> DEFINE full == serialize([k \in Keys |-> JunkMac])
           max == Len(full)
<1> SUFFICES ASSUME TypeInv, [Next]_vars PROVE TypeInv'
  OBVIOUS
<1>1. /\ Len(text) <= max /\ text \in Seq(Cell)
      /\ pc \in [Procs -> {"off", "run", "write", "abort"}] /\ map \in [Procs -> Map]
      /\ saved \subseteq Bindings /\ short \in {"never", "once", "now"}
  BY Zenon DEF TypeInv, TypeOK
<1>2. max \in Nat
  <2>1. [k \in Keys |-> JunkMac] \in Map
    BY DEF Map
  <2>2. full \in Seq(Cell)
    BY <2>1, LoadWhole, Zenon
  <2> HIDE DEF full
  <2> QED BY <2>2
<1>3. SUFFICES /\ Len(text') <= max /\ text' \in Seq(Cell)
               /\ pc' \in [Procs -> {"off", "run", "write", "abort"}] /\ map' \in [Procs -> Map]
               /\ saved' \subseteq Bindings /\ short' \in {"never", "once", "now"}
  BY Zenon DEF TypeInv, TypeOK
<1> HIDE DEF full, max
<1>4. EmptyMap \in Map
  BY StartIsPoint, Zenon
<1>5. CASE UNCHANGED vars
  BY <1>1, <1>5, Zenon DEF vars
<1>6. ASSUME NEW p \in Procs, MaybeLoadArpCache(p) PROVE <1>3!1
  <2>1. text' = text /\ saved' = saved /\ short' = short
    BY <1>6 DEF MaybeLoadArpCache
  <2>2. Loads \subseteq Map \cup {Overread}
    BY <1>1, LoadType, Zenon DEF Loads
  <2>3. pc' \in [Procs -> {"off", "run", "write", "abort"}] /\ map' \in [Procs -> Map]
    BY <1>1, <1>6, <2>2 DEF MaybeLoadArpCache
  <2> QED BY <1>1, <2>1, <2>3, Zenon
<1>7. ASSUME NEW p \in Procs, HandleResponse(p) PROVE <1>3!1
  <2>1. Len(text') <= max /\ text' \in Seq(Cell)
    BY <1>2, <1>7 DEF HandleResponse
  <2>2. PICK b \in Bindings : map' = [map EXCEPT ![p][b[1]] = b[2]] /\ saved' = saved \cup {b}
    BY <1>7, Zenon DEF HandleResponse
  <2>3. b[1] \in Keys /\ b[2] \in Macs \cup {JunkMac, NoMac}
    BY <2>2, CacheFileAssumption DEF Keys
  <2>4. map' \in [Procs -> Map] /\ saved' \subseteq Bindings
    BY <1>1, <2>2, <2>3 DEF Map
  <2>5. pc' \in [Procs -> {"off", "run", "write", "abort"}] /\ short' \in {"never", "once", "now"}
    BY <1>1, <1>7 DEF HandleResponse
  <2> QED BY <2>1, <2>4, <2>5, Zenon
<1>8. ASSUME NEW p \in Procs, SerializeArpCache(p) PROVE <1>3!1
  <2> DEFINE buffer == serialize(map[p])
  <2>1. map[p] \in Map
    BY <1>1
  <2>2. buffer \in Seq(Cell) /\ Len(buffer) <= max
    BY <2>1, LoadWhole, LongestText, Zenon DEF max, full
  <2>3. map' = map /\ saved' = saved
    BY <1>8 DEF SerializeArpCache
  <2>4. pc' \in [Procs -> {"off", "run", "write", "abort"}] /\ short' \in {"never", "once", "now"}
    BY <1>1, <1>8 DEF SerializeArpCache
  <2>5. Len(text') <= max /\ text' \in Seq(Cell)
    <3>1. CASE text' = Overwrite(buffer)
      BY <1>1, <1>2, <2>2, <3>1, OverwriteType, Zenon DEF Overwrite
    <3>2. CASE \E n \in 0..Len(buffer)-1 : text' = Overwrite(SubSeq(buffer, 1, n))
      <4>1. PICK n \in 0..Len(buffer)-1 : text' = Overwrite(SubSeq(buffer, 1, n))
        BY <3>2
      <4> DEFINE new == SubSeq(buffer, 1, n)
      <4>2. Cut(new, map[p])
        BY <2>1, Beginning, Zenon
      <4> HIDE DEF new
      <4>3. new \in Seq(Cell) /\ Len(new) <= Len(buffer)
        BY <4>2, Zenon DEF Cut
      <4>4. Len(new) <= max
        <5> HIDE DEF buffer
        <5> QED BY <1>2, <2>2, <4>3
      <4> QED BY <1>1, <1>2, <4>1, <4>3, <4>4, OverwriteType, Zenon DEF Overwrite, new
    <3> QED BY <1>8, <3>1, <3>2, Zenon DEF SerializeArpCache
  <2> QED BY <1>1, <2>3, <2>4, <2>5, Zenon
<1>9. ASSUME NEW p \in Procs, Exit(p) PROVE <1>3!1
  <2>1. text' = text /\ saved' = saved /\ short' = short
    BY <1>9 DEF Exit
  <2>2. pc' \in [Procs -> {"off", "run", "write", "abort"}] /\ map' \in [Procs -> Map]
    BY <1>1, <1>4, <1>9 DEF Exit
  <2> QED BY <1>1, <2>1, <2>2, Zenon
<1> QED BY <1>5, <1>6, <1>7, <1>8, <1>9, Zenon DEF Next

\* Whatever processes share the file, and however their truncations and writes
\* of SerializeArpCache interleave or stop short, the file never grows beyond a
\* line per address, and deserialize makes of it only maps of addresses.
THEOREM CacheFileTypes == Spec => []TypeOK
<1>1. TypeInv => TypeOK
  BY DEF TypeInv
<1> QED BY <1>1, TypeInit, TypeStep, PTL DEF Spec

-----------------------------------------------------------------------------
(* What is in the file.                                                    *)

\* Every pair of the map m was learned.
Known(m) == \A k \in Keys : m[k] # NoMac => <<k, m[k]>> \in saved

\* The file is the text of m, or its beginning after a short write.
Holds(m) ==
  /\ m \in Map /\ Cut(text, m)
  /\ short # "now" => text = serialize(m)
  /\ short = "never" => Known(m)

\* A process that is to write finds the file as it left it: empty.
Truncated == \A p \in Procs : pc[p] = "write" => text = <<>>

\* No process saves while another does.
NoOverlap == \A p, q \in Procs : pc[p] = "write" /\ pc[q] = "write" => p = q

LEMMA EmptyText == serialize(EmptyMap) = <<>> /\ Cut(<<>>, EmptyMap)
<1> DEFINE T == {n \in Nat : Lines(EmptyMap)[n] = <<>>}
<1>1. EmptyMap \in Map /\ JunkIp + 1 \in Nat
  BY StartIsPoint, Lengths
<1>2. 0 \in T
  BY <1>1, LinesUnfold
<1>3. ASSUME NEW n \in Nat, n \in T PROVE n + 1 \in T
  <2>1. Lines(EmptyMap)[n + 1] = Lines(EmptyMap)[n] \o LineOf(EmptyMap, n)
    BY <1>1, LinesUnfold, Zenon
  <2>2. LineOf(EmptyMap, n) = <<>>
    BY DEF LineOf, EmptyMap
  <2>3. <<>> \o <<>> = <<>> /\ n + 1 \in Nat
    OBVIOUS
  <2> QED BY <1>3, <2>1, <2>2, <2>3, Zenon
<1>4. JunkIp + 1 \in T
  <2> HIDE DEF T
  <2> QED BY <1>1, <1>2, <1>3, Induction
<1>5. serialize(EmptyMap) = <<>>
  BY <1>4, Zenon DEF serialize
<1>6. <<>> \in Seq(Cell) /\ Len(<<>>) <= Len(<<>>) /\ 1..Len(<<>>) = {}
  OBVIOUS
<1>7. Cut(<<>>, EmptyMap)
  BY <1>5, <1>6, Zenon DEF Cut
<1> QED BY <1>5, <1>7

\* A text written into an empty file is the file.
LEMMA WriteEmpty ==
  ASSUME text = <<>>, NEW new \in Seq(Cell)
  PROVE  Overwrite(new) = new
<1>1. SubSeq(text, Len(new) + 1, Len(text)) = <<>>
  OBVIOUS
<1>2. new \o <<>> = new
  OBVIOUS
<1> QED BY <1>1, <1>2, Zenon DEF Overwrite

LEMMA EmptyHolds ==
  ASSUME text' = <<>>
  PROVE  Holds(EmptyMap)'
<1>1. EmptyMap \in Map /\ EmptyMap' = EmptyMap /\ Map' = Map
  BY StartIsPoint, Zenon
<1>2. serialize(EmptyMap) = <<>> /\ Cut(<<>>, EmptyMap)
  BY EmptyText, Zenon
<1>3. ASSUME NEW k \in Keys PROVE EmptyMap[k] = NoMac
  BY DEF EmptyMap
<1> QED BY <1>1, <1>2, <1>3, Zenon DEF Holds, Known

\* What the loads of a file come to.
LEMMA LoadsHeld ==
  ASSUME NEW m, Holds(m)
  PROVE  /\ Loads \subseteq Map \cup {Overread}
         /\ short # "now" => Loads = {m}
         /\ \E n \in Nat : \A x \in Loads : x # Overread => LooksLike(x, m, n)
<1>1. m \in Map /\ Cut(text, m) /\ text \in Seq(Cell) /\ (short # "now" => text = serialize(m))
  BY Zenon DEF Holds, Cut
<1>2. Loads \subseteq Map \cup {Overread}
  BY <1>1, LoadType, Zenon DEF Loads
<1>3. short # "now" => Loads = {m}
  BY <1>1, LoadWhole, Zenon DEF Loads
<1>4. \E n \in Nat : \A x \in Loads : x # Overread => LooksLike(x, m, n)
  BY <1>1, LoadCut, Zenon DEF Loads
<1> QED BY <1>2, <1>3, <1>4

\* The rest of a save that found the file empty leaves the map it saved.
LEMMA SaveHolds ==
  ASSUME TypeInv, NEW p \in Procs, text = <<>>, SerializeArpCache(p),
         short = "never" => Known(map[p])
  PROVE  Holds(map[p])'
<1> DEFINE m == map[p]
           f == serialize(m)
<1>1. m \in Map /\ m' = m /\ saved' = saved
  BY DEF TypeInv, TypeOK, SerializeArpCache
<1>2. f \in Seq(Cell)
  BY <1>1, LoadWhole, Zenon
<1>3. Known(m)' <=> Known(m)
  BY <1>1, Zenon DEF Known
<1>4. CASE text' = Overwrite(f) /\ UNCHANGED short
  <2>1. text' = f
    BY <1>2, <1>4, WriteEmpty, Zenon
  <2>2. Len(f) <= Len(f)
    <3> HIDE DEF f
    <3> QED BY <1>2
  <2>3. Cut(f, m)
    BY <1>2, <2>2, Zenon DEF Cut
  <2> QED BY <1>1, <1>3, <1>4, <2>1, <2>3, Zenon DEF Holds
<1>5. CASE short' = "now" /\ \E n \in 0..Len(f)-1 : text' = Overwrite(SubSeq(f, 1, n))
  <2>1. PICK n \in 0..Len(f)-1 : text' = Overwrite(SubSeq(f, 1, n))
    BY <1>5
  <2>2. Cut(SubSeq(f, 1, n), m)
    BY <1>1, Beginning, Zenon
  <2>3. SubSeq(f, 1, n) \in Seq(Cell)
    BY <2>2, Zenon DEF Cut
  <2>4. text' = SubSeq(f, 1, n)
    BY <2>1, <2>3, WriteEmpty, Zenon
  <2>5. "now" # "never"
    OBVIOUS
  <2> QED BY <1>1, <1>5, <2>2, <2>4, <2>5, Zenon DEF Holds
<1> QED BY <1>4, <1>5, Zenon DEF SerializeArpCache

\* The file holds a map, and while no write has stopped short every map is of
\* pairs that were learned.
FileInv == (\E m : Holds(m)) /\ Truncated /\ LoadsOnlySaved

LEMMA FileInit == Init => FileInv
<1> SUFFICES ASSUME Init PROVE FileInv
  OBVIOUS
<1>1. text = <<>> /\ short = "never"
  BY DEF Init
<1>2. EmptyMap \in Map /\ \A k \in Keys : EmptyMap[k] = NoMac
  BY StartIsPoint DEF EmptyMap
<1>3. Holds(EmptyMap)
  BY <1>1, <1>2, EmptyText, Zenon DEF Holds, Known
<1>4. LoadsOnlySaved
  BY <1>2 DEF Init, LoadsOnlySaved
<1> QED BY <1>1, <1>3, <1>4, Zenon DEF FileInv, Truncated

\* Nothing but a learned pair comes into a map.
LEMMA SavedStep ==
  ASSUME TypeInv, FileInv, [Next]_vars
  PROVE  LoadsOnlySaved'
<1> SUFFICES ASSUME short' = "never" PROVE \A q \in Procs : Known(map[q])'
  BY Zenon DEF LoadsOnlySaved, Known
<1>1. map \in [Procs -> Map] /\ pc \in [Procs -> {"off", "run", "write", "abort"}]
  BY DEF TypeInv, TypeOK
<1>2. \A q \in Procs : short = "never" => Known(map[q])
  BY Zenon DEF FileInv, LoadsOnlySaved, Known
<1>3. PICK m : Holds(m)
  BY DEF FileInv
<1>4. EmptyMap \in Map /\ \A k \in Keys : EmptyMap[k] = NoMac
  BY StartIsPoint DEF EmptyMap
<1>5. CASE UNCHANGED vars
  BY <1>2, <1>5, Zenon DEF vars, Known
<1>6. ASSUME NEW p \in Procs, MaybeLoadArpCache(p) PROVE \A q \in Procs : Known(map[q])'
  <2>1. saved' = saved /\ short = "never"
    BY <1>6 DEF MaybeLoadArpCache
  <2>2. Loads = {m} /\ Known(m)
    <3>1. "never" # "now"
      OBVIOUS
    <3> QED BY <1>3, <2>1, <3>1, LoadsHeld, Zenon DEF Holds
  <2>3. map' = map \/ map' = [map EXCEPT ![p] = m]
    BY <1>6, <2>2, Zenon DEF MaybeLoadArpCache
  <2>4. \A q \in Procs : map'[q] = map[q] \/ map'[q] = m
    BY <1>1, <2>3
  <2> QED BY <1>2, <2>1, <2>2, <2>4, Zenon DEF Known
<1>7. ASSUME NEW p \in Procs, HandleResponse(p) PROVE \A q \in Procs : Known(map[q])'
  <2>1. short = "never"
    BY <1>7 DEF HandleResponse
  <2>2. PICK b \in Bindings : map' = [map EXCEPT ![p][b[1]] = b[2]] /\ saved' = saved \cup {b}
    BY <1>7, Zenon DEF HandleResponse
  <2>3. b[1] \in Keys /\ b = <<b[1], b[2]>>
    BY <2>2, CacheFileAssumption DEF Keys
  <2>4. \A q \in Procs, k \in Keys : map'[q][k] = map[q][k] \/ (k = b[1] /\ map'[q][k] = b[2])
    BY <1>1, <2>2, <2>3 DEF Map
  <2>5. ASSUME NEW q \in Procs, NEW k \in Keys, map'[q][k] # NoMac
        PROVE  <<k, map'[q][k]>> \in saved'
    <3>1. CASE map'[q][k] = map[q][k]
      <4>1. map[q][k] # NoMac
        BY <2>5, <3>1, Zenon
      <4>2. <<k, map[q][k]>> \in saved
        BY <1>2, <2>1, <4>1, Zenon DEF Known
      <4>3. saved \subseteq saved'
        BY <2>2
      <4> QED BY <3>1, <4>2, <4>3, Zenon
    <3>2. CASE k = b[1] /\ map'[q][k] = b[2]
      <4>1. <<k, map'[q][k]>> = b
        BY <2>3, <3>2
      <4>2. b \in saved'
        BY <2>2
      <4> QED BY <4>1, <4>2, Zenon
    <3> QED BY <2>4, <3>1, <3>2, Zenon
  <2> QED BY <2>5, Zenon DEF Known
<1>8. ASSUME NEW p \in Procs, SerializeArpCache(p) PROVE \A q \in Procs : Known(map[q])'
  <2>1. saved' = saved /\ map' = map
    BY <1>8 DEF SerializeArpCache
  <2>2. short = "never"
    BY <1>8 DEF SerializeArpCache
  <2> QED BY <1>2, <2>1, <2>2, Zenon DEF Known
<1>9. ASSUME NEW p \in Procs, Exit(p) PROVE \A q \in Procs : Known(map[q])'
  <2>1. saved' = saved /\ short = "never" /\ map' = [map EXCEPT ![p] = EmptyMap]
    BY <1>9 DEF Exit
  <2>2. \A q \in Procs : map'[q] = map[q] \/ map'[q] = EmptyMap
    BY <1>1, <2>1
  <2>3. ASSUME NEW q \in Procs, NEW k \in Keys, map'[q][k] # NoMac
        PROVE  <<k, map'[q][k]>> \in saved'
    <3>1. map'[q] = map[q]
      BY <1>4, <2>2, <2>3, Zenon
    <3>2. map[q][k] # NoMac
      BY <2>3, <3>1, Zenon
    <3>3. <<k, map[q][k]>> \in saved
      BY <1>2, <2>1, <3>2, Zenon DEF Known
    <3>4. saved' = saved
      BY <2>1
    <3> QED BY <3>1, <3>3, <3>4, Zenon
  <2> QED BY <2>3, Zenon DEF Known
<1> QED BY <1>5, <1>6, <1>7, <1>8, <1>9, Zenon DEF Next

LEMMA FileStep == TypeInv /\ FileInv /\ NoOverlap /\ [Next]_vars => FileInv'
<1> SUFFICES ASSUME TypeInv, FileInv, NoOverlap, [Next]_vars PROVE FileInv'
  OBVIOUS
<1>1. LoadsOnlySaved'
  BY SavedStep, Zenon
<1>2. SUFFICES (\E m : Holds(m))' /\ Truncated'
  BY <1>1, Zenon DEF FileInv
<1>3. PICK m : Holds(m)
  BY DEF FileInv
<1>4. pc \in [Procs -> {"off", "run", "write", "abort"}] /\ Truncated
  BY DEF TypeInv, TypeOK, FileInv
<1>5. ASSUME text' = text, saved' = saved, short' = short PROVE (\E x : Holds(x))'
  <2>1. Holds(m)'
    BY <1>3, <1>5, Zenon DEF Holds, Known
  <2> QED BY <2>1, Zenon
<1>6. CASE UNCHANGED vars
  BY <1>4, <1>5, <1>6, Zenon DEF vars, Truncated
<1>7. ASSUME NEW p \in Procs, MaybeLoadArpCache(p) PROVE <1>2!1
  <2>1. text' = text /\ saved' = saved /\ short' = short
    BY <1>7 DEF MaybeLoadArpCache
  <2>2. \A q \in Procs : pc'[q] = "write" => pc[q] = "write"
    BY <1>4, <1>7 DEF MaybeLoadArpCache
  <2> QED BY <1>4, <1>5, <2>1, <2>2, Zenon DEF Truncated
<1>8. ASSUME NEW p \in Procs, HandleResponse(p) PROVE <1>2!1
  <2>1. text' = <<>>
    BY <1>8 DEF HandleResponse
  <2> QED BY <2>1, EmptyHolds, Zenon DEF Truncated
<1>9. ASSUME NEW p \in Procs, SerializeArpCache(p) PROVE <1>2!1
  <2>1. pc[p] = "write" /\ pc' = [pc EXCEPT ![p] = "run"]
    BY <1>9 DEF SerializeArpCache
  <2>2. text = <<>>
    BY <1>4, <2>1, Zenon DEF Truncated
  <2>3. short = "never" => Known(map[p])
    BY Zenon DEF FileInv, LoadsOnlySaved, Known
  <2>4. Holds(map[p])'
    BY <1>9, <2>2, <2>3, SaveHolds, Zenon
  <2>5. \A q \in Procs : pc'[q] = "write" => q # p /\ pc[q] = "write"
    BY <1>4, <2>1
  <2>6. Truncated'
    BY <2>1, <2>5, Zenon DEF Truncated, NoOverlap
  <2> QED BY <2>4, <2>6, Zenon
<1>10. ASSUME NEW p \in Procs, Exit(p) PROVE <1>2!1
  <2>1. text' = text /\ saved' = saved /\ short' = short
    BY <1>10 DEF Exit
  <2>2. \A q \in Procs : pc'[q] = "write" => pc[q] = "write"
    BY <1>4, <1>10 DEF Exit
  <2> QED BY <1>4, <1>5, <2>1, <2>2, Zenon DEF Truncated
<1> QED BY <1>6, <1>7, <1>8, <1>9, <1>10, Zenon DEF Next

\* However many processes start, learn, save and are killed, if no two of their
\* saves overlap, deserialize reads beyond its buffer at most while the last
\* write stands that stopped short.
THEOREM ReadableFile == Spec /\ []NoOverlap => []FileReadable
<1>1. FileInv => FileReadable
  <2> SUFFICES ASSUME FileInv, short # "now" PROVE Overread \notin Loads
    BY DEF FileReadable
  <2>1. PICK m : Holds(m)
    BY DEF FileInv
  <2>2. Loads = {m} /\ m \in Map
    BY <2>1, LoadsHeld, Zenon DEF Holds
  <2> QED BY <2>2, MapsAreNoOverread, Zenon
<1> QED BY <1>1, TypeInit, TypeStep, FileInit, FileStep, PTL DEF Spec

\* If no two saves overlap and none stops short, every pair that a process has,
\* through whatever files and kills it came, is one that HandleResponse stored.
\* Overlapping saves do break this: run cachefile_overlap.
THEOREM OnlySavedLoads == Spec /\ []NoOverlap => []LoadsOnlySaved
<1>1. FileInv => LoadsOnlySaved
  BY DEF FileInv
<1> QED BY <1>1, TypeInit, TypeStep, FileInit, FileStep, PTL DEF Spec

-----------------------------------------------------------------------------
(* A process that has the file to itself.                                  *)

\* The process has in memory what it saved last, or what it loaded.
SoloInv ==
  /\ Truncated
  /\ \E m : /\ Holds(m)
            /\ \A p \in Procs : pc[p] = "run" => map[p] = m \/ map[p] \in Loads \ {Overread}

LEMMA SoloInit == Init => SoloInv
<1> SUFFICES ASSUME Init PROVE SoloInv
  OBVIOUS
<1>1. \A p \in Procs : pc[p] # "run"
  BY DEF Init
<1>2. text = <<>> /\ short = "never"
  BY DEF Init
<1>3. EmptyMap \in Map /\ \A k \in Keys : EmptyMap[k] = NoMac
  BY StartIsPoint DEF EmptyMap
<1>4. Holds(EmptyMap)
  BY <1>2, <1>3, EmptyText, Zenon DEF Holds, Known
<1> QED BY <1>1, <1>2, <1>4, Zenon DEF SoloInv, Truncated

LEMMA SoloStep ==
  ASSUME \A p, q \in Procs : p = q
  PROVE  TypeInv /\ FileInv /\ SoloInv /\ [Next]_vars => SoloInv'
<1> SUFFICES ASSUME TypeInv, FileInv, SoloInv, [Next]_vars PROVE SoloInv'
  OBVIOUS
<1>1. FileInv'
  BY FileStep, Zenon DEF NoOverlap
<1>2. Truncated'
  BY <1>1, Zenon DEF FileInv
<1>3. PICK m : /\ Holds(m)
               /\ \A p \in Procs : pc[p] = "run" => map[p] = m \/ map[p] \in Loads \ {Overread}
  BY Zenon DEF SoloInv
<1>4. /\ pc \in [Procs -> {"off", "run", "write", "abort"}] /\ map \in [Procs -> Map]
  BY DEF TypeInv, TypeOK
<1>5. ASSUME text' = text, saved' = saved, short' = short PROVE Holds(m)' /\ Loads' = Loads
  BY <1>3, <1>5, Zenon DEF Holds, Known, Loads
<1>6. CASE UNCHANGED vars
  <2>1. text' = text /\ saved' = saved /\ short' = short /\ pc' = pc /\ map' = map
    BY <1>6 DEF vars
  <2> QED BY <1>2, <1>3, <1>5, <2>1, Zenon DEF SoloInv
<1>7. ASSUME NEW p \in Procs, MaybeLoadArpCache(p) PROVE SoloInv'
  <2>1. text' = text /\ saved' = saved /\ short' = short
    BY <1>7 DEF MaybeLoadArpCache
  <2>2. pc'[p] = "run" => map'[p] \in Loads \ {Overread}
    BY <1>4, <1>7 DEF MaybeLoadArpCache
  <2>3. \A q \in Procs : pc'[q] = "run" => map'[q] \in Loads \ {Overread}
    BY <2>2, Zenon
  <2> QED BY <1>2, <1>5, <2>1, <2>3, Zenon DEF SoloInv
<1>8. ASSUME NEW p \in Procs, HandleResponse(p) PROVE SoloInv'
  <2>1. text' = <<>> /\ pc'[p] # "run"
    BY <1>4, <1>8 DEF HandleResponse
  <2>2. \A q \in Procs : q = p
    OBVIOUS
  <2> QED BY <1>2, <2>1, <2>2, EmptyHolds, Zenon DEF SoloInv
<1>9. ASSUME NEW p \in Procs, SerializeArpCache(p) PROVE SoloInv'
  <2>1. pc[p] = "write"
    BY <1>9 DEF SerializeArpCache
  <2>2. text = <<>>
    BY <2>1, Zenon DEF FileInv, Truncated
  <2>3. short = "never" => Known(map[p])
    BY Zenon DEF FileInv, LoadsOnlySaved, Known
  <2>4. Holds(map[p])'
    BY <1>9, <2>2, <2>3, SaveHolds, Zenon
  <2>5. PICK x : x = map'[p]
    OBVIOUS
  <2>6. Holds(x)'
    BY <2>4, <2>5, Zenon DEF Holds, Known, Cut
  <2>7. \A q \in Procs : map'[q] = x
    BY <2>5, Zenon
  <2> QED BY <1>2, <2>6, <2>7, Zenon DEF SoloInv
<1>10. ASSUME NEW p \in Procs, Exit(p) PROVE SoloInv'
  <2>1. text' = text /\ saved' = saved /\ short' = short /\ pc'[p] # "run"
    BY <1>4, <1>10 DEF Exit
  <2>2. \A q \in Procs : q = p
    OBVIOUS
  <2> QED BY <1>2, <1>5, <2>1, <2>2, Zenon DEF SoloInv
<1> QED BY <1>6, <1>7, <1>8, <1>9, <1>10, Zenon DEF Next

LEMMA SoloInvariant ==
  ASSUME \A p, q \in Procs : p = q
  PROVE  Spec => []SoloInv
<1>1. NoOverlap
  BY Zenon DEF NoOverlap
<1>2. TypeInv /\ FileInv /\ [Next]_vars => FileInv'
  BY <1>1, FileStep, Zenon
<1>3. TypeInv /\ FileInv /\ SoloInv /\ [Next]_vars => SoloInv'
  BY SoloStep
<1> QED BY <1>2, <1>3, TypeInit, TypeStep, FileInit, SoloInit, PTL DEF Spec

\* For a process that has the file to itself, a load gives back exactly what is
\* in memory at every moment between two saves, whatever was loaded, learned,
\* killed or cut short before, unless the last write stopped short.
THEOREM LoadsInvertSaves ==
  ASSUME \A p, q \in Procs : p = q
  PROVE  Spec => []LoadInvertsSave
<1>1. SoloInv => LoadInvertsSave
  <2> SUFFICES ASSUME SoloInv, NEW p \in Procs, pc[p] = "run", short # "now"
               PROVE  Loads = {map[p]}
    BY Zenon DEF LoadInvertsSave
  <2>1. PICK m : Holds(m) /\ (map[p] = m \/ map[p] \in Loads \ {Overread})
    BY Zenon DEF SoloInv
  <2>2. Loads = {m}
    BY <2>1, LoadsHeld, Zenon
  <2> QED BY <2>1, <2>2, Zenon
<1>2. Spec => []SoloInv
  BY SoloInvariant
<1> QED BY <1>1, <1>2, PTL

\* For a process that has the file to itself, a write that stops short spoils at
\* most one binding, wherever it stops: the one whose line is cut.
THEOREM ShortSavesSpoilOne ==
  ASSUME \A p, q \in Procs : p = q
  PROVE  Spec => []ShortSaveSpoilsOne
<1>1. SoloInv => ShortSaveSpoilsOne
  <2> SUFFICES ASSUME SoloInv, NEW p \in Procs, pc[p] = "run", NEW x \in Loads \ {Overread}
               PROVE  Cardinality({ip \in Ips : x[ip] \notin {NoMac, map[p][ip]}}) <= 1
    BY Zenon DEF ShortSaveSpoilsOne
  <2> DEFINE spoilt == {ip \in Ips : x[ip] \notin {NoMac, map[p][ip]}}
  <2>1. PICK m : Holds(m) /\ (map[p] = m \/ map[p] \in Loads \ {Overread})
    BY Zenon DEF SoloInv
  <2>2. PICK n \in Nat : \A y \in Loads : y # Overread => LooksLike(y, m, n)
    BY <2>1, LoadsHeld, Zenon
  <2>3. ASSUME NEW ip \in Ips, ip # n PROVE x[ip] \in {NoMac, map[p][ip]}
    <3>1. x[ip] = Below(m, n)[ip]
      BY <2>2, <2>3, Zenon DEF LooksLike
    <3>2. CASE map[p] = m
      <4>1. ip \in Keys
        BY DEF Keys
      <4>2. Below(m, n)[ip] = IF ip < n THEN m[ip] ELSE NoMac
        BY <4>1, Zenon DEF Below
      <4> QED BY <3>1, <3>2, <4>2, Zenon
    <3>3. CASE map[p] \in Loads \ {Overread}
      <4>1. map[p][ip] = Below(m, n)[ip]
        BY <2>2, <2>3, <3>3, Zenon DEF LooksLike
      <4> QED BY <3>1, <4>1, Zenon
    <3> QED BY <2>1, <3>2, <3>3, Zenon
  <2>4. spoilt \in SUBSET {n}
    BY <2>3, Zenon
  <2> HIDE DEF spoilt
  <2>5. IsFiniteSet({n}) /\ Cardinality({n}) = 1
    BY FS_Singleton, Zenon
  <2>6. Cardinality(spoilt) <= Cardinality({n})
    BY <2>4, <2>5, FS_Subset, Zenon
  <2> QED BY <2>5, <2>6 DEF spoilt
<1>2. Spec => []SoloInv
  BY SoloInvariant
<1> QED BY <1>1, <1>2, PTL

=============================================================================
