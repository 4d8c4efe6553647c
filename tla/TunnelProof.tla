---------------------------- MODULE TunnelProof -----------------------------
(***************************************************************************)
(* The tunnel of simpletun.c, for every set of packets, every capacity of  *)
(* the connection and every combination of faults: it carries packets, its *)
(* buffer is never too small, and it stalls in one way only.               *)
(***************************************************************************)
EXTENDS Tunnel, TLAPS

-----------------------------------------------------------------------------
(* The stream of bytes that one end writes, and where each part of it is.  *)

\* s is in stream S behind position k.
Bytes(S, k, s) == \A i \in 1..Len(s) : s[i] = S[k + i]

\* S starts with the frames of the packets t; frame i ends at b[i].
IsStream(S, b, t) ==
  /\ S \in [Nat -> Byte] /\ b \in [Nat -> Nat] /\ b[0] = 0
  /\ \A i \in 0..Len(t) : b[i] <= b[Len(t)]
  /\ \A i \in 1..Len(t) : b[i] = b[i - 1] + Len(Frame(t[i])) /\ Bytes(S, b[i - 1], Frame(t[i]))

\* The bytes between positions k and m: bf has been read, after it c is under way,
\* and if the writer still runs, o is all that it has not written.
Parts(S, k, m, run, o, c, bf) ==
  /\ Bytes(S, k, bf) /\ Bytes(S, k + Len(bf), c) /\ k + Len(bf) + Len(c) <= m
  /\ run = "runs" => Bytes(S, k + Len(bf) + Len(c), o) /\ k + Len(bf) + Len(c) + Len(o) = m

\* Of the frames of t the packets gv have been delivered; of the next, h bytes of
\* length have been read, then bf.
FlowAt(S, b, run, t, o, c, bf, h, gv) ==
  /\ IsStream(S, b, t)
  /\ Len(gv) <= Len(t) /\ \A i \in 1..Len(gv) : gv[i] = t[i]
  /\ h = 2 => Len(gv) < Len(t)
  /\ Parts(S, b[Len(gv)] + h, b[Len(t)], run, o, c, bf)

Flow(run, t, o, c, bf, h, gv) == \E S, b : FlowAt(S, b, run, t, o, c, bf, h, gv)

LEMMA FrameFacts ==
  ASSUME NEW p \in Packets
  PROVE  /\ p \in Seq(Byte) /\ Len(p) \in Nat /\ 1 <= Len(p) /\ Len(p) <= BUFSIZE /\ Len(p) <= 65535
         /\ Frame(p) \in Seq(Byte) /\ Len(Frame(p)) = 2 + Len(p)
         /\ Frame(p)[1] = Len(p) \div 256 /\ Frame(p)[2] = Len(p) % 256
         /\ \A i \in 1..Len(p) : Frame(p)[2 + i] = p[i]
<1>1. p \in Seq(Byte) /\ Len(p) \in Nat /\ 1 <= Len(p) /\ Len(p) <= BUFSIZE /\ Len(p) <= 65535
  <2>1. p \in Seq(Byte) /\ 1 <= Len(p) /\ Len(p) <= BUFSIZE
    BY TunnelAssumption
  <2>2. BUFSIZE \in Nat /\ BUFSIZE <= 65535
    BY TunnelAssumption, SMT DEF UInt16
  <2>3. Len(p) \in Nat
    BY <2>1, SMT
  <2> QED BY <2>1, <2>2, <2>3, SMT
<1>2. Len(p) \div 256 \in Byte /\ Len(p) % 256 \in Byte
  BY <1>1, SMT DEF Byte
<1> DEFINE hi == Len(p) \div 256
           lo == Len(p) % 256
<1>3. Frame(p) = <<hi, lo>> \o p
  BY DEF Frame
<1> HIDE DEF hi, lo
<1>4. /\ Frame(p) \in Seq(Byte) /\ Len(Frame(p)) = 2 + Len(p)
      /\ Frame(p)[1] = hi /\ Frame(p)[2] = lo
      /\ \A i \in 1..Len(p) : Frame(p)[2 + i] = p[i]
  <2>1. <<hi, lo>> \in Seq(Byte) /\ Len(<<hi, lo>>) = 2
    BY <1>2 DEF hi, lo
  <2> QED BY <1>1, <1>3, <2>1
<1> QED BY <1>1, <1>4 DEF hi, lo

\* The two bytes of a length.
Hi(n) == n \div 256
Lo(n) == n % 256

LEMMA FrameShape ==
  ASSUME NEW p \in Packets
  PROVE  /\ p \in Seq(Byte) /\ Len(p) \in Nat
         /\ Frame(p) \in Seq(Byte) /\ Len(Frame(p)) = 2 + Len(p)
         /\ Frame(p)[1] = Hi(Len(p)) /\ Frame(p)[2] = Lo(Len(p))
         /\ \A i \in 1..Len(p) : Frame(p)[2 + i] = p[i]
BY FrameFacts DEF Hi, Lo

LEMMA ByteNat == Byte \subseteq Nat
BY DEF Byte

\* Positions are numbers.
LEMMA Positions ==
  ASSUME NEW t \in Seq(Packets), NEW gv \in Seq(Packets), NEW S, NEW b, IsStream(S, b, t),
         Len(gv) <= Len(t)
  PROVE  /\ b[Len(gv)] \in Nat /\ b[Len(t)] \in Nat /\ Len(t) \in Nat /\ Len(gv) \in Nat
         /\ b[Len(gv)] <= b[Len(t)]
BY DEF IsStream

\* Two sequences at the same place are equal.
LEMMA SameBytes ==
  ASSUME NEW S, NEW k, NEW r \in Seq(Byte), NEW s \in Seq(Byte), Len(r) = Len(s),
         Bytes(S, k, r), Bytes(S, k, s)
  PROVE  r = s
<1>1. \A i \in 1..Len(r) : r[i] = s[i]
  BY DEF Bytes
<1> QED BY <1>1

\* A prefix, a rest, and two parts put together.
LEMMA BytesPrefix ==
  ASSUME NEW S, NEW k, NEW s \in Seq(Byte), NEW n \in 0..Len(s), Bytes(S, k, s)
  PROVE  /\ SubSeq(s, 1, n) \in Seq(Byte) /\ Len(SubSeq(s, 1, n)) = n
         /\ Bytes(S, k, SubSeq(s, 1, n))
<1>1. /\ SubSeq(s, 1, n) \in Seq(Byte) /\ Len(SubSeq(s, 1, n)) = n
      /\ \A i \in 1..n : SubSeq(s, 1, n)[i] = s[i]
  OBVIOUS
<1> QED BY <1>1 DEF Bytes

LEMMA BytesRest ==
  ASSUME NEW S, NEW k \in Nat, NEW s \in Seq(Byte), NEW n \in 0..Len(s), Bytes(S, k, s)
  PROVE  /\ SubSeq(s, n + 1, Len(s)) \in Seq(Byte) /\ Len(SubSeq(s, n + 1, Len(s))) = Len(s) - n
         /\ Bytes(S, k + n, SubSeq(s, n + 1, Len(s)))
<1>1. /\ SubSeq(s, n + 1, Len(s)) \in Seq(Byte) /\ Len(SubSeq(s, n + 1, Len(s))) = Len(s) - n
      /\ \A i \in 1..(Len(s) - n) : SubSeq(s, n + 1, Len(s))[i] = s[n + i]
  OBVIOUS
<1>2. ASSUME NEW i \in 1..(Len(s) - n) PROVE s[n + i] = S[k + n + i]
  <2>1. n + i \in 1..Len(s)
    OBVIOUS
  <2>2. s[n + i] = S[k + (n + i)]
    BY <2>1 DEF Bytes
  <2>3. k + (n + i) = k + n + i
    OBVIOUS
  <2> QED BY <2>2, <2>3
<1> QED BY <1>1, <1>2 DEF Bytes

LEMMA Joined ==
  ASSUME NEW r \in Seq(Byte), NEW s \in Seq(Byte)
  PROVE  r \o s \in Seq(Byte) /\ Len(r \o s) = Len(r) + Len(s)
OBVIOUS

LEMMA BytesJoin ==
  ASSUME NEW S, NEW k \in Nat, NEW r \in Seq(Byte), NEW s \in Seq(Byte),
         Bytes(S, k, r), Bytes(S, k + Len(r), s)
  PROVE  r \o s \in Seq(Byte) /\ Len(r \o s) = Len(r) + Len(s) /\ Bytes(S, k, r \o s)
<1>1. /\ r \o s \in Seq(Byte) /\ Len(r \o s) = Len(r) + Len(s)
      /\ \A i \in 1..(Len(r) + Len(s)) : (r \o s)[i] = IF i <= Len(r) THEN r[i] ELSE s[i - Len(r)]
  OBVIOUS
<1>2. ASSUME NEW i \in 1..(Len(r) + Len(s)) PROVE (r \o s)[i] = S[k + i]
  <2>1. CASE i <= Len(r)
    BY <1>1, <2>1 DEF Bytes
  <2>2. CASE i > Len(r)
    <3>1. i - Len(r) \in 1..Len(s) /\ k + Len(r) + (i - Len(r)) = k + i
      BY <2>2
    <3>2. s[i - Len(r)] = S[k + Len(r) + (i - Len(r))]
      BY <3>1 DEF Bytes
    <3> QED BY <1>1, <2>2, <3>1, <3>2
  <2> QED BY <2>1, <2>2
<1> QED BY <1>1, <1>2 DEF Bytes

-----------------------------------------------------------------------------
(* What writing, reading and a reset make of the parts.                    *)

LEMMA MoveSum ==
  ASSUME NEW q \in Nat, NEW a \in Nat, NEW l \in Nat, NEW m \in Nat, NEW j \in Nat, j <= l,
         q + a + l = m
  PROVE  q + (a + j) = q + a + j /\ q + (a + j) <= m /\ q + (a + j) + (l - j) = m
OBVIOUS

LEMMA PartsWrite ==
  ASSUME NEW S, NEW k \in Nat, NEW m \in Nat, NEW o \in Seq(Byte), NEW c \in Seq(Byte),
         NEW bf \in Seq(Byte), NEW j \in 0..Len(o), Parts(S, k, m, "runs", o, c, bf)
  PROVE  Parts(S, k, m, "runs", SubSeq(o, j + 1, Len(o)), c \o SubSeq(o, 1, j), bf)
<1> DEFINE x == SubSeq(o, 1, j)
           y == SubSeq(o, j + 1, Len(o))
           q == k + Len(bf)
<1>1. q \in Nat /\ q + Len(c) \in Nat /\ Len(c) \in Nat /\ Len(o) \in Nat
  OBVIOUS
<1>2. Bytes(S, k, bf) /\ Bytes(S, q, c) /\ Bytes(S, q + Len(c), o) /\ q + Len(c) + Len(o) = m
  BY DEF Parts
<1> HIDE DEF q
<1>3. /\ x \in Seq(Byte) /\ Len(x) = j /\ Bytes(S, q + Len(c), x)
      /\ y \in Seq(Byte) /\ Len(y) = Len(o) - j /\ Bytes(S, q + Len(c) + j, y)
  <2>1. x \in Seq(Byte) /\ Len(x) = j /\ Bytes(S, q + Len(c), x)
    BY <1>2, BytesPrefix, Zenon
  <2>2. y \in Seq(Byte) /\ Len(y) = Len(o) - j /\ Bytes(S, q + Len(c) + j, y)
    BY <1>1, <1>2, BytesRest, Zenon
  <2> QED BY <2>1, <2>2
<1> HIDE DEF x, y
<1>4. Len(c \o x) = Len(c) + j /\ Bytes(S, q, c \o x)
  <2>1. Bytes(S, q, c) /\ Bytes(S, q + Len(c), x) /\ q \in Nat /\ x \in Seq(Byte)
    BY <1>1, <1>2, <1>3
  <2>2. Len(c \o x) = Len(c) + Len(x) /\ Bytes(S, q, c \o x)
    BY <2>1, BytesJoin
  <2> QED BY <1>3, <2>2
<1>5. q + (Len(c) + j) = q + Len(c) + j /\ q + (Len(c) + j) <= m
      /\ q + (Len(c) + j) + (Len(o) - j) = m
  <2>1. q + Len(c) + Len(o) = m /\ j \in Nat /\ j <= Len(o)
    BY <1>1, <1>2
  <2>2. PICK a \in Nat, l \in Nat : a = Len(c) /\ l = Len(o)
    BY <1>1, Zenon
  <2>3. q + (a + j) = q + a + j /\ q + (a + j) <= m /\ q + (a + j) + (l - j) = m
    <3>1. q \in Nat /\ q + a + l = m /\ j <= l /\ j \in Nat
      BY <1>1, <2>1, <2>2, Zenon
    <3> QED BY <3>1, MoveSum
  <2> QED BY <2>2, <2>3
<1> QED BY <1>2, <1>3, <1>4, <1>5, Zenon DEF Parts, q, x, y

LEMMA PartsRead ==
  ASSUME NEW S, NEW k \in Nat, NEW m \in Nat, NEW o, NEW c \in Seq(Byte), NEW run,
         NEW bf \in Seq(Byte), NEW j \in 0..Len(c), Parts(S, k, m, run, o, c, bf)
  PROVE  Parts(S, k, m, run, o, SubSeq(c, j + 1, Len(c)), bf \o SubSeq(c, 1, j))
<1> DEFINE x == SubSeq(c, 1, j)
           y == SubSeq(c, j + 1, Len(c))
<1>1. Len(bf) \in Nat /\ Len(c) \in Nat /\ k + Len(bf) \in Nat
  OBVIOUS
<1>2. Bytes(S, k, bf) /\ Bytes(S, k + Len(bf), c)
  BY DEF Parts
<1>3. /\ x \in Seq(Byte) /\ Len(x) = j /\ Bytes(S, k + Len(bf), x)
      /\ y \in Seq(Byte) /\ Len(y) = Len(c) - j /\ Bytes(S, k + Len(bf) + j, y)
  <2>1. x \in Seq(Byte) /\ Len(x) = j /\ Bytes(S, k + Len(bf), x)
    BY <1>2, BytesPrefix, Zenon
  <2>2. y \in Seq(Byte) /\ Len(y) = Len(c) - j /\ Bytes(S, k + Len(bf) + j, y)
    BY <1>1, <1>2, BytesRest, Zenon
  <2> QED BY <2>1, <2>2
<1> HIDE DEF x, y
<1>4. Len(bf \o x) = Len(bf) + j /\ Bytes(S, k, bf \o x)
  <2>1. Bytes(S, k, bf) /\ Bytes(S, k + Len(bf), x) /\ x \in Seq(Byte)
    BY <1>2, <1>3
  <2>2. Len(bf \o x) = Len(bf) + Len(x) /\ Bytes(S, k, bf \o x)
    BY <2>1, BytesJoin
  <2> QED BY <1>3, <2>2
<1>5. /\ k + (Len(bf) + j) = k + Len(bf) + j
      /\ k + (Len(bf) + j) + (Len(c) - j) = k + Len(bf) + Len(c)
  BY <1>1
<1> QED BY <1>2, <1>3, <1>4, <1>5, Zenon DEF Parts, x, y

\* The writer goes away, and with it the last bytes under way.
LEMMA PartsCut ==
  ASSUME NEW S, NEW k \in Nat, NEW m \in Nat, NEW o, NEW c \in Seq(Byte), NEW run,
         NEW bf \in Seq(Byte), NEW j \in 0..Len(c), Parts(S, k, m, run, o, c, bf)
  PROVE  Parts(S, k, m, "over", <<>>, SubSeq(c, 1, j), bf)
<1>1. k + Len(bf) + Len(c) <= m /\ Len(bf) \in Nat /\ Bytes(S, k, bf) /\ Bytes(S, k + Len(bf), c)
  BY DEF Parts
<1>2. Len(SubSeq(c, 1, j)) = j /\ Bytes(S, k + Len(bf), SubSeq(c, 1, j))
  BY <1>1, BytesPrefix
<1>3. k + Len(bf) + j <= m
  BY <1>1
<1> QED BY <1>1, <1>2, <1>3 DEF Parts

\* What has been read is put aside.
LEMMA PartsAfter ==
  ASSUME NEW S, NEW k \in Nat, NEW m \in Nat, NEW o, NEW c \in Seq(Byte), NEW run,
         NEW bf \in Seq(Byte), Parts(S, k, m, run, o, c, bf)
  PROVE  Parts(S, k + Len(bf), m, run, o, c, <<>>)
<1>1. k + Len(bf) + Len(<<>>) = k + Len(bf) /\ Bytes(S, k + Len(bf), <<>>)
  BY DEF Bytes
<1> QED BY <1>1 DEF Parts

-----------------------------------------------------------------------------
(* What the steps of an end make of a stream.                              *)

\* ReadTap: a packet is taken and its frame is to be written.
LEMMA FlowTake ==
  ASSUME NEW t \in Seq(Packets), NEW gv \in Seq(Packets), NEW c \in Seq(Byte),
         NEW bf \in Seq(Byte), NEW h \in {0, 2}, NEW p \in Packets,
         Flow("runs", t, <<>>, c, bf, h, gv)
  PROVE  Flow("runs", Append(t, p), Frame(p), c, bf, h, gv)
<1>1. PICK S, b : FlowAt(S, b, "runs", t, <<>>, c, bf, h, gv)
  BY DEF Flow
<1> DEFINE n == Len(t)
           L == b[Len(t)]
           F == Frame(p)
           T == [k \in Nat |-> IF k > L /\ k <= L + Len(F) THEN F[k - L] ELSE S[k]]
           d == [b EXCEPT ![n + 1] = L + Len(F)]
           u == Append(t, p)
<1>2. IsStream(S, b, t) /\ Len(gv) <= Len(t)
  BY <1>1 DEF FlowAt
<1>3. L \in Nat /\ n \in Nat /\ Len(gv) \in Nat /\ b[Len(gv)] \in Nat
  BY <1>2, Positions
<1>f. S \in [Nat -> Byte] /\ b \in [Nat -> Nat] /\ b[0] = 0
  BY <1>2, Zenon DEF IsStream
<1>4. F \in Seq(Byte) /\ Len(F) \in Nat
  BY FrameShape
<1>5. /\ u \in Seq(Packets) /\ Len(u) = n + 1 /\ u[n + 1] = p /\ \A i \in 1..n : u[i] = t[i]
  OBVIOUS
<1> HIDE DEF n, L, F, u
<1>6. T \in [Nat -> Byte]
  <2> SUFFICES ASSUME NEW k \in Nat, k > L /\ k <= L + Len(F) PROVE F[k - L] \in Byte
    BY <1>f, Zenon
  <2>1. k - L \in 1..Len(F)
    BY <1>3, <1>4
  <2> QED BY <1>4, <2>1
<1>7. \A k \in Nat : k <= L => T[k] = S[k]
  BY <1>3
<1>8. \A i \in 1..Len(F) : T[L + i] = F[i]
  <2> SUFFICES ASSUME NEW i \in 1..Len(F) PROVE T[L + i] = F[i]
    BY Zenon
  <2>0. \A k \in Nat : k > L /\ k <= L + Len(F) => T[k] = F[k - L]
    OBVIOUS
  <2> HIDE DEF T
  <2>1. L + i \in Nat /\ L + i > L /\ L + i <= L + Len(F) /\ L + i - L = i
    BY <1>3, <1>4
  <2>2. PICK k \in Nat : k = L + i
    BY <2>1
  <2>3. T[k] = F[k - L]
    BY <2>0, <2>1, <2>2
  <2>4. k - L = i
    BY <1>3, <2>2
  <2> QED BY <2>2, <2>3, <2>4
<1>d. d \in [Nat -> Nat] /\ d[n + 1] = L + Len(F) /\ \A i \in 0..n : d[i] = b[i]
  <2>1. n + 1 \in Nat /\ L + Len(F) \in Nat /\ \A i \in 0..n : i \in Nat /\ i # n + 1
    BY <1>3, <1>4
  <2> QED BY <1>f, <2>1, Zenon
<1> HIDE DEF T, d
<1>9. d[n + 1] = L + Len(F) /\ \A i \in 0..n : d[i] = b[i]
  BY <1>d
\* What was in S up to L is in T.
<1>10. ASSUME NEW k \in Nat, NEW s \in Seq(Byte), k + Len(s) <= L, Bytes(S, k, s)
       PROVE  Bytes(T, k, s)
  <2> SUFFICES ASSUME NEW i \in 1..Len(s) PROVE s[i] = T[k + i]
    BY DEF Bytes
  <2>1. k + i \in Nat /\ k + i <= L
    BY <1>3, <1>10
  <2> QED BY <1>7, <1>10, <2>1, Zenon DEF Bytes
<1>11. IsStream(T, d, u)
  <2>1. \A i \in 0..n : b[i] <= L /\ b[i] \in Nat
    BY <1>2, <1>f DEF IsStream, L, n
  <2>2. \A i \in 0..(n + 1) : d[i] <= d[n + 1]
    <3> SUFFICES ASSUME NEW i \in 0..(n + 1), i # n + 1 PROVE d[i] <= d[n + 1]
      BY <1>3, <1>4, <1>9
    <3>1. i \in 0..n
      BY <1>3
    <3>2. d[i] = b[i] /\ b[i] <= L /\ b[i] \in Nat /\ d[n + 1] = L + Len(F)
      BY <1>9, <2>1, <3>1, Zenon
    <3> QED BY <1>3, <1>4, <3>2
  <2>3. ASSUME NEW i \in 1..(n + 1)
        PROVE  d[i] = d[i - 1] + Len(Frame(u[i])) /\ Bytes(T, d[i - 1], Frame(u[i]))
    <3>1. CASE i = n + 1
      <4>1. d[i - 1] = L /\ u[i] = p
        BY <1>3, <1>5, <1>9, <3>1 DEF L, n
      <4>2. Bytes(T, L, F)
        BY <1>8 DEF Bytes
      <4> QED BY <1>9, <3>1, <4>1, <4>2 DEF F
    <3>2. CASE i # n + 1
      <4>1. i \in 1..n /\ i \in 0..n /\ i - 1 \in 0..n
        BY <1>3, <3>2
      <4>2. d[i] = b[i] /\ d[i - 1] = b[i - 1] /\ u[i] = t[i] /\ t[i] \in Packets
        <5>1. d[i] = b[i] /\ d[i - 1] = b[i - 1] /\ u[i] = t[i]
          BY <1>5, <1>9, <4>1, Zenon
        <5>2. t[i] \in Packets
          BY <4>1 DEF n
        <5> QED BY <5>1, <5>2
      <4>3. b[i] = b[i - 1] + Len(Frame(t[i])) /\ Bytes(S, b[i - 1], Frame(t[i]))
        BY <1>2, <4>1 DEF IsStream, n
      <4>4. Bytes(T, b[i - 1], Frame(t[i]))
        <5> DEFINE G == Frame(t[i])
        <5>1. G \in Seq(Byte)
          BY <4>2, FrameShape, Zenon
        <5> HIDE DEF G
        <5>2. b[i - 1] \in Nat /\ b[i - 1] + Len(G) <= L
          BY <2>1, <4>1, <4>3 DEF G
        <5>3. Bytes(S, b[i - 1], G)
          BY <4>3 DEF G
        <5>4. Bytes(T, b[i - 1], G)
          BY <1>10, <5>1, <5>2, <5>3, Zenon
        <5> QED BY <5>4 DEF G
      <4> QED BY <4>2, <4>3, <4>4
    <3> QED BY <3>1, <3>2
  <2>4. d[0] = 0
    <3>1. 0 \in 0..n
      BY <1>3
    <3> QED BY <1>f, <1>9, <3>1, Zenon
  <2> QED BY <1>5, <1>6, <1>d, <2>2, <2>3, <2>4, Zenon DEF IsStream
<1>12. d[Len(gv)] = b[Len(gv)] /\ Len(gv) \in 0..n
  BY <1>2, <1>3, <1>9 DEF n
<1> DEFINE k == b[Len(gv)] + h
<1>13. /\ k \in Nat /\ Len(bf) \in Nat /\ Len(c) \in Nat
       /\ Bytes(S, k, bf) /\ Bytes(S, k + Len(bf), c) /\ k + Len(bf) + Len(c) = L
  <2>1. k \in Nat /\ Len(bf) \in Nat /\ Len(c) \in Nat
    BY <1>3
  <2>2. Bytes(S, k, bf) /\ Bytes(S, k + Len(bf), c) /\ k + Len(bf) + Len(c) + 0 = L
    BY <1>1 DEF FlowAt, Parts, L
  <2> QED BY <2>1, <2>2
<1>14. d[Len(u)] = L + Len(F)
  BY <1>5, <1>9
<1>15. Bytes(T, k, bf) /\ Bytes(T, k + Len(bf), c) /\ Bytes(T, k + Len(bf) + Len(c), F)
  <2>1. Bytes(T, L, F)
    BY <1>8 DEF Bytes
  <2> HIDE DEF k
  <2>2. k + Len(bf) <= L /\ k + Len(bf) + Len(c) <= L /\ k + Len(bf) \in Nat
    BY <1>3, <1>13
  <2> QED BY <1>10, <1>13, <2>1, <2>2
<1>16. Len(gv) <= Len(u) /\ (h = 2 => Len(gv) < Len(u)) /\ \A i \in 1..Len(gv) : gv[i] = u[i]
  <2>1. \A i \in 1..Len(gv) : gv[i] = t[i] /\ i \in 1..n
    BY <1>1, <1>2, <1>3 DEF FlowAt, n
  <2> QED BY <1>2, <1>3, <1>5, <2>1 DEF n
<1>17. FlowAt(T, d, "runs", u, F, c, bf, h, gv)
  <2>1. d[Len(gv)] + h = k
    BY <1>12, Zenon DEF k
  <2> HIDE DEF k
  <2>2. L <= L + Len(F)
    BY <1>3, <1>4
  <2>3. Parts(T, k, L + Len(F), "runs", F, c, bf)
    BY <1>13, <1>15, <2>2, Zenon DEF Parts
  <2> QED BY <1>11, <1>14, <1>16, <2>1, <2>3, Zenon DEF FlowAt
<1> QED BY <1>17, Zenon DEF Flow, u, F

\* The positions of a flow.
LEMMA FlowPositions ==
  ASSUME NEW t \in Seq(Packets), NEW gv \in Seq(Packets), NEW h \in {0, 2}, NEW S, NEW b,
         NEW run, NEW o, NEW c, NEW bf, FlowAt(S, b, run, t, o, c, bf, h, gv)
  PROVE  /\ b[Len(gv)] \in Nat /\ b[Len(t)] \in Nat /\ b[Len(gv)] + h \in Nat
         /\ Len(t) \in Nat /\ Len(gv) \in Nat /\ Len(gv) <= Len(t)
         /\ Parts(S, b[Len(gv)] + h, b[Len(t)], run, o, c, bf)
<1>1. IsStream(S, b, t) /\ Len(gv) <= Len(t) /\ Parts(S, b[Len(gv)] + h, b[Len(t)], run, o, c, bf)
  BY DEF FlowAt
<1>2. b[Len(gv)] \in Nat /\ b[Len(t)] \in Nat /\ Len(t) \in Nat /\ Len(gv) \in Nat
  BY <1>1, Positions
<1> QED BY <1>1, <1>2

\* A flow whose parts have changed.
LEMMA FlowParts ==
  ASSUME NEW t, NEW gv, NEW h, NEW S, NEW b, NEW run, NEW o, NEW c, NEW bf,
         NEW live, NEW op, NEW cp, NEW bp,
         FlowAt(S, b, run, t, o, c, bf, h, gv),
         Parts(S, b[Len(gv)] + h, b[Len(t)], live, op, cp, bp)
  PROVE  Flow(live, t, op, cp, bp, h, gv)
<1>1. FlowAt(S, b, live, t, op, cp, bp, h, gv)
  BY Zenon DEF FlowAt
<1> QED BY <1>1, Zenon DEF Flow

LEMMA FlowInit == Flow("runs", <<>>, <<>>, <<>>, <<>>, 0, <<>>)
<1> DEFINE z == [k \in Nat |-> 0]
<1>1. z \in [Nat -> Byte] /\ z \in [Nat -> Nat] /\ z[0] = 0
  BY DEF Byte
<1> HIDE DEF z
<1>2. IsStream(z, z, <<>>)
  BY <1>1 DEF IsStream
<1>3. Parts(z, z[Len(<<>>)] + 0, z[Len(<<>>)], "runs", <<>>, <<>>, <<>>)
  BY <1>1 DEF Parts, Bytes
<1>4. FlowAt(z, z, "runs", <<>>, <<>>, <<>>, <<>>, 0, <<>>)
  <2>1. 0 # 2 /\ Len(<<>>) <= Len(<<>>) /\ \A i \in 1..Len(<<>>) : <<>>[i] = <<>>[i]
    OBVIOUS
  <2> QED BY <1>2, <1>3, <2>1, Zenon DEF FlowAt
<1> QED BY <1>4, Zenon DEF Flow

\* WriteNet: j more bytes are under way.
LEMMA FlowWrite ==
  ASSUME NEW t \in Seq(Packets), NEW gv \in Seq(Packets), NEW o \in Seq(Byte), NEW c \in Seq(Byte),
         NEW bf \in Seq(Byte), NEW h \in {0, 2}, NEW j \in 0..Len(o),
         Flow("runs", t, o, c, bf, h, gv)
  PROVE  Flow("runs", t, SubSeq(o, j + 1, Len(o)), c \o SubSeq(o, 1, j), bf, h, gv)
<1>1. PICK S, b : FlowAt(S, b, "runs", t, o, c, bf, h, gv)
  BY Zenon DEF Flow
<1>2. b[Len(gv)] + h \in Nat /\ b[Len(t)] \in Nat /\ Parts(S, b[Len(gv)] + h, b[Len(t)], "runs", o, c, bf)
  BY <1>1, FlowPositions, Zenon
<1>3. Parts(S, b[Len(gv)] + h, b[Len(t)], "runs", SubSeq(o, j + 1, Len(o)), c \o SubSeq(o, 1, j), bf)
  BY <1>2, PartsWrite, Zenon
<1> QED BY <1>1, <1>3, FlowParts, Zenon

\* ReadLength, ReadPacket: j more bytes have been read.
LEMMA FlowRead ==
  ASSUME NEW t \in Seq(Packets), NEW gv \in Seq(Packets), NEW o, NEW c \in Seq(Byte), NEW run,
         NEW bf \in Seq(Byte), NEW h \in {0, 2}, NEW j \in 0..Len(c),
         Flow(run, t, o, c, bf, h, gv)
  PROVE  Flow(run, t, o, SubSeq(c, j + 1, Len(c)), bf \o SubSeq(c, 1, j), h, gv)
<1>1. PICK S, b : FlowAt(S, b, run, t, o, c, bf, h, gv)
  BY Zenon DEF Flow
<1>2. b[Len(gv)] + h \in Nat /\ b[Len(t)] \in Nat /\ Parts(S, b[Len(gv)] + h, b[Len(t)], run, o, c, bf)
  BY <1>1, FlowPositions, Zenon
<1>3. Parts(S, b[Len(gv)] + h, b[Len(t)], run, o, SubSeq(c, j + 1, Len(c)), bf \o SubSeq(c, 1, j))
  BY <1>2, PartsRead, Zenon
<1> QED BY <1>1, <1>3, FlowParts, Zenon

\* End: the writer goes away.
LEMMA FlowCut ==
  ASSUME NEW t \in Seq(Packets), NEW gv \in Seq(Packets), NEW o, NEW c \in Seq(Byte), NEW run,
         NEW bf \in Seq(Byte), NEW h \in {0, 2}, NEW j \in 0..Len(c),
         Flow(run, t, o, c, bf, h, gv)
  PROVE  Flow("over", t, <<>>, SubSeq(c, 1, j), bf, h, gv)
<1>1. PICK S, b : FlowAt(S, b, run, t, o, c, bf, h, gv)
  BY Zenon DEF Flow
<1>2. b[Len(gv)] + h \in Nat /\ b[Len(t)] \in Nat /\ Parts(S, b[Len(gv)] + h, b[Len(t)], run, o, c, bf)
  BY <1>1, FlowPositions, Zenon
<1>3. Parts(S, b[Len(gv)] + h, b[Len(t)], "over", <<>>, SubSeq(c, 1, j), bf)
  BY <1>2, PartsCut, Zenon
<1> QED BY <1>1, <1>3, FlowParts, Zenon

\* Where the next frame is.
LEMMA NextFrame ==
  ASSUME NEW t \in Seq(Packets), NEW S, NEW b, IsStream(S, b, t), NEW n \in Nat, n < Len(t),
         NEW p, p = t[n + 1]
  PROVE  /\ p \in Packets /\ b[n] \in Nat /\ b[n + 1] \in Nat /\ b[Len(t)] \in Nat
         /\ b[n + 1] = b[n] + 2 + Len(p) /\ b[n + 1] <= b[Len(t)]
         /\ S[b[n] + 1] = Hi(Len(p)) /\ S[b[n] + 2] = Lo(Len(p))
         /\ Bytes(S, b[n] + 2, p)
<1>1. n + 1 \in 1..Len(t) /\ n + 1 \in 0..Len(t) /\ n + 1 - 1 = n /\ n + 1 \in Nat /\ Len(t) \in Nat
  OBVIOUS
<1>2. p \in Packets
  BY <1>1
<1>3. /\ b \in [Nat -> Nat] /\ \A i \in 0..Len(t) : b[i] <= b[Len(t)]
      /\ \A i \in 1..Len(t) : b[i] = b[i - 1] + Len(Frame(t[i])) /\ Bytes(S, b[i - 1], Frame(t[i]))
  BY Zenon DEF IsStream
<1>4. b[n] \in Nat /\ b[n + 1] \in Nat /\ b[Len(t)] \in Nat
  BY <1>1, <1>3, Zenon
<1>5. b[n + 1] = b[n] + Len(Frame(p)) /\ Bytes(S, b[n], Frame(p)) /\ b[n + 1] <= b[Len(t)]
  <2>1. PICK i \in 1..Len(t) : i = n + 1
    BY <1>1, Zenon
  <2>2. i - 1 = n /\ t[i] = p
    BY <2>1
  <2>3. b[i] = b[i - 1] + Len(Frame(t[i])) /\ Bytes(S, b[i - 1], Frame(t[i]))
    BY <1>3, Zenon
  <2>4. b[i] = b[n] + Len(Frame(p)) /\ Bytes(S, b[n], Frame(p))
    BY <2>2, <2>3, Zenon
  <2>5. b[n + 1] <= b[Len(t)]
    BY <1>1, <1>3, Zenon
  <2> QED BY <2>1, <2>4, <2>5, Zenon
<1> DEFINE F == Frame(p)
           k == b[n]
<1>6. /\ Len(p) \in Nat /\ Len(F) = 2 + Len(p) /\ F[1] = Hi(Len(p)) /\ F[2] = Lo(Len(p))
      /\ \A i \in 1..Len(p) : F[2 + i] = p[i]
  BY <1>2, FrameShape, Zenon
<1>7. k \in Nat /\ \A i \in 1..Len(F) : F[i] = S[k + i]
  BY <1>4, <1>5 DEF Bytes
<1> HIDE DEF F, k
<1>8. S[k + 1] = F[1] /\ S[k + 2] = F[2]
  <2>1. 1 \in 1..Len(F) /\ 2 \in 1..Len(F)
    BY <1>6
  <2> QED BY <1>7, <2>1
<1>9. ASSUME NEW i \in 1..Len(p) PROVE p[i] = S[k + 2 + i]
  <2>1. 2 + i \in 1..Len(F) /\ k + (2 + i) = k + 2 + i
    BY <1>6, <1>7
  <2> QED BY <1>6, <1>7, <2>1
<1>10. Bytes(S, k + 2, p)
  BY <1>9 DEF Bytes
<1>11. b[n + 1] = k + 2 + Len(p)
  <2>1. b[n + 1] = k + Len(F)
    BY <1>5, Zenon DEF F, k
  <2>2. k \in Nat /\ Len(p) \in Nat /\ Len(F) = 2 + Len(p)
    BY <1>6, <1>7, Zenon
  <2>3. k + (2 + Len(p)) = k + 2 + Len(p)
    <3>1. \A i, j \in Nat : i + (2 + j) = i + 2 + j
      OBVIOUS
    <3> QED BY <2>2, <3>1, Zenon
  <2> QED BY <2>1, <2>2, <2>3, Zenon
<1> QED BY <1>2, <1>4, <1>5, <1>6, <1>8, <1>10, <1>11 DEF k

\* ReadLength: the two bytes are the length of the next packet.
LEMMA FlowLength ==
  ASSUME NEW t \in Seq(Packets), NEW gv \in Seq(Packets), NEW o, NEW c \in Seq(Byte), NEW run,
         NEW bf \in Seq(Byte), Len(bf) = 2, Flow(run, t, o, c, bf, 0, gv)
  PROVE  /\ Len(gv) < Len(t) /\ ntohs(bf) = Len(t[Len(gv) + 1])
         /\ Flow(run, t, o, c, <<>>, 2, gv)
<1>1. PICK S, b : FlowAt(S, b, run, t, o, c, bf, 0, gv)
  BY Zenon DEF Flow
<1> DEFINE n == Len(gv)
           k == b[Len(gv)]
           m == b[Len(t)]
           p == t[Len(gv) + 1]
<1>2. /\ k \in Nat /\ m \in Nat /\ k + 0 \in Nat /\ Len(t) \in Nat /\ n \in Nat /\ n <= Len(t)
      /\ Parts(S, k + 0, m, run, o, c, bf)
  BY <1>1, FlowPositions
<1>3. k + 0 = k
  BY <1>2
<1>4. IsStream(S, b, t) /\ \A i \in 1..n : gv[i] = t[i]
  BY <1>1 DEF FlowAt
<1>5. Bytes(S, k, bf) /\ k + 2 + Len(c) <= m /\ Len(c) \in Nat /\ Parts(S, k, m, run, o, c, bf)
  BY <1>2, <1>3 DEF Parts
<1>6. n < Len(t)
  <2> SUFFICES ASSUME n = Len(t) PROVE FALSE
    BY <1>2
  <2>1. k = m
    OBVIOUS
  <2> HIDE DEF k, m
  <2> QED BY <1>2, <1>5, <2>1
<1>7. p \in Packets /\ S[k + 1] = Hi(Len(p)) /\ S[k + 2] = Lo(Len(p))
  BY <1>2, <1>4, <1>6, NextFrame, SMTT(20)
<1>8. bf[1] = Hi(Len(p)) /\ bf[2] = Lo(Len(p))
  <2> HIDE DEF k, p
  <2> QED BY <1>5, <1>7 DEF Bytes
<1>9. ntohs(bf) = Len(p)
  <2>1. Len(p) \in Nat
    BY <1>7, FrameShape, Zenon
  <2> HIDE DEF p
  <2> QED BY <1>8, <2>1, SMT DEF ntohs, Hi, Lo
<1>10. Parts(S, k + 2, m, run, o, c, <<>>)
  <2> HIDE DEF k, m
  <2>1. Parts(S, k + Len(bf), m, run, o, c, <<>>)
    BY <1>2, <1>5, PartsAfter, Zenon
  <2> QED BY <2>1
<1>11. FlowAt(S, b, run, t, o, c, <<>>, 2, gv)
  BY <1>2, <1>4, <1>6, <1>10, Zenon DEF FlowAt
<1>12. Flow(run, t, o, c, <<>>, 2, gv)
  BY <1>11, Zenon DEF Flow
<1> QED BY <1>6, <1>9, <1>12

\* WriteTap: what was read is the next packet.
LEMMA FlowDeliver ==
  ASSUME NEW t \in Seq(Packets), NEW gv \in Seq(Packets), NEW o, NEW c \in Seq(Byte), NEW run,
         NEW bf \in Seq(Byte), Flow(run, t, o, c, bf, 2, gv), Len(bf) = Len(t[Len(gv) + 1])
  PROVE  /\ Len(gv) < Len(t) /\ bf = t[Len(gv) + 1]
         /\ Flow(run, t, o, c, <<>>, 0, Append(gv, bf))
<1>1. PICK S, b : FlowAt(S, b, run, t, o, c, bf, 2, gv)
  BY Zenon DEF Flow
<1> DEFINE n == Len(gv)
           k == b[Len(gv)]
           m == b[Len(t)]
           p == t[Len(gv) + 1]
           w == Append(gv, bf)
<1>2. /\ k \in Nat /\ m \in Nat /\ k + 2 \in Nat /\ Len(t) \in Nat /\ n \in Nat
      /\ Parts(S, k + 2, m, run, o, c, bf)
  BY <1>1, FlowPositions
<1>3. IsStream(S, b, t) /\ n < Len(t) /\ \A i \in 1..n : gv[i] = t[i]
  BY <1>1 DEF FlowAt
<1>4. p \in Packets /\ b[n + 1] = k + 2 + Len(p) /\ Bytes(S, k + 2, p)
  BY <1>2, <1>3, NextFrame
<1>5. p \in Seq(Byte)
  BY <1>4, FrameShape, Zenon
<1>6. bf = p
  <2>1. Len(bf) = Len(p) /\ Bytes(S, k + 2, bf)
    BY <1>2 DEF Parts
  <2> HIDE DEF p
  <2> QED BY <1>4, <1>5, <2>1, SameBytes, Zenon
<1>7. Len(w) = n + 1 /\ w[n + 1] = bf /\ \A i \in 1..n : w[i] = gv[i]
  OBVIOUS
<1>8. \A i \in 1..Len(w) : w[i] = t[i]
  <2> HIDE DEF w
  <2> SUFFICES ASSUME NEW i \in 1..Len(w) PROVE w[i] = t[i]
    BY Zenon
  <2>1. CASE i = n + 1
    BY <1>6, <1>7, <2>1
  <2>2. CASE i # n + 1
    <3>1. i \in 1..n
      BY <1>2, <1>7, <2>2
    <3> QED BY <1>3, <1>7, <3>1, Zenon
  <2> QED BY <2>1, <2>2
<1>9. Parts(S, b[Len(w)] + 0, m, run, o, c, <<>>)
  <2> HIDE DEF k, m, p, w, n
  <2>1. Parts(S, k + 2 + Len(bf), m, run, o, c, <<>>)
    BY <1>2, PartsAfter, Zenon
  <2>2. b[Len(w)] = k + 2 + Len(bf)
    BY <1>4, <1>6, <1>7, Zenon
  <2>3. b[Len(w)] + 0 = k + 2 + Len(bf)
    BY <1>2, <2>2
  <2> QED BY <2>1, <2>3
<1>10. FlowAt(S, b, run, t, o, c, <<>>, 0, w)
  <2>1. Len(w) <= Len(t) /\ 0 # 2
    BY <1>2, <1>3, <1>7
  <2> HIDE DEF w
  <2> QED BY <1>3, <1>8, <1>9, <2>1, Zenon DEF FlowAt
<1>11. Flow(run, t, o, c, <<>>, 0, w)
  BY <1>10, Zenon DEF Flow
<1> QED BY <1>3, <1>6, <1>11

\* When nothing is under way or to be written, no frame has been read in part.
LEMMA FlowEmpty ==
  ASSUME NEW t \in Seq(Packets), NEW gv \in Seq(Packets), NEW bf \in Seq(Byte), NEW h \in {0, 2},
         Flow("runs", t, <<>>, <<>>, bf, h, gv)
  PROVE  \/ h = 0 /\ Len(bf) = 0
         \/ Len(gv) < Len(t) /\ h + Len(bf) >= 2 + Len(t[Len(gv) + 1])
<1>1. PICK S, b : FlowAt(S, b, "runs", t, <<>>, <<>>, bf, h, gv)
  BY Zenon DEF Flow
<1> DEFINE n == Len(gv)
           k == b[Len(gv)]
           m == b[Len(t)]
           p == t[Len(gv) + 1]
<1>2. /\ k \in Nat /\ m \in Nat /\ k + h \in Nat /\ Len(t) \in Nat /\ n \in Nat /\ n <= Len(t)
      /\ Parts(S, k + h, m, "runs", <<>>, <<>>, bf)
  BY <1>1, FlowPositions, Zenon
<1>3. IsStream(S, b, t)
  BY <1>1 DEF FlowAt
<1>4. k + h + Len(bf) = m /\ Len(bf) \in Nat
  BY <1>2 DEF Parts
<1>5. CASE n = Len(t)
  <2>1. k = m
    BY <1>5
  <2> HIDE DEF k, m
  <2> QED BY <1>2, <1>4, <2>1
<1>6. CASE n < Len(t)
  <2>1. /\ p \in Packets /\ b[n + 1] = k + 2 + Len(p) /\ b[n + 1] <= m
    BY <1>2, <1>3, <1>6, NextFrame
  <2>2. Len(p) \in Nat
    BY <2>1, FrameShape, Zenon
  <2>3. h + Len(bf) >= 2 + Len(p)
    <3> HIDE DEF k, m, p, n
    <3> QED BY <1>2, <1>4, <2>1, <2>2
  <2> QED BY <1>6, <2>3
<1> QED BY <1>2, <1>5, <1>6

\* While a packet is read there is one to read.
LEMMA FlowNext ==
  ASSUME NEW t, NEW gv, NEW o, NEW c, NEW run, NEW bf, Flow(run, t, o, c, bf, 2, gv)
  PROVE  Len(gv) < Len(t)
<1>1. PICK S, b : FlowAt(S, b, run, t, o, c, bf, 2, gv)
  BY Zenon DEF Flow
<1> QED BY <1>1, Zenon DEF FlowAt

-----------------------------------------------------------------------------
(* The inductive invariant.                                                *)

Types ==
  /\ pc \in [Ends -> States] /\ connected \in BOOLEAN /\ netSet \in [Ends -> BOOLEAN]
  /\ out \in [Ends -> Seq(Byte)] /\ chan \in [Ends -> Seq(Byte)] /\ buffer \in [Ends -> Seq(Byte)]
  /\ plength \in [Ends -> UInt16]
  /\ taken \in [Ends -> Seq(Packets)] /\ given \in [Ends -> Seq(Packets)]

\* What the place of an end says about its buffers.
Place(e) ==
  /\ out[e] # <<>> <=> pc[e] = "write"
  /\ Len(chan[e]) <= Capacity
  /\ pc[e] = "length" => Len(buffer[e]) < 2
  /\ pc[e] \notin {"length", "packet"} => buffer[e] = <<>>

Run(e) == IF Over(e) THEN "over" ELSE "runs"

Header(e) == IF pc[e] = "packet" THEN 2 ELSE 0

\* The stream from e to an end r that still reads it.
Stream(e, r) ==
  ~Over(r) =>
    /\ Flow(Run(e), taken[e], out[e], chan[e], buffer[r], Header(r), given[r])
    /\ pc[r] = "packet" => /\ plength[r] = Len(taken[e][Len(given[r]) + 1])
                           /\ Len(buffer[r]) <= plength[r]

TunnelInv == Types /\ \A e \in Ends : Place(e) /\ Stream(e, Peer(e))

\* What a step of end e can be.
Moves(e) ==
  /\ pc[e] \notin {"write", "length", "packet", "done", "aborted"}
  /\ \E l \in States \ {"write", "packet", "done", "aborted"} :
       Goto(e, l) /\ (l = "length" \/ (l = "tap2net" /\ netSet'[e]) => Readable(e))
  /\ connected' \in BOOLEAN /\ netSet' \in [Ends -> BOOLEAN]
  /\ \A f \in Ends \ {e} : netSet'[f] = netSet[f]
  /\ UNCHANGED <<out, chan, buffer, plength, taken, given>>

Leaves(e) == ~Over(e) /\ \E how \in {"done", "aborted"} : End(e, how)

Takes(e) ==
  /\ pc[e] = "tap2net" /\ Goto(e, "write")
  /\ \E p \in Packets : /\ taken' = [taken EXCEPT ![e] = Append(@, p)]
                        /\ out' = [out EXCEPT ![e] = Frame(p)]
  /\ UNCHANGED <<connected, netSet, chan, buffer, plength, given>>

Writes(e) ==
  /\ pc[e] = "write"
  /\ \E n \in 1..Len(out[e]) :
       /\ \/ /\ ~Over(Peer(e)) /\ Len(chan[e]) + n <= Capacity
             /\ chan' = [chan EXCEPT ![e] = @ \o SubSeq(out[e], 1, n)]
          \/ Over(Peer(e)) /\ UNCHANGED chan
       /\ Written(e, SubSeq(out[e], n + 1, Len(out[e])))
  /\ UNCHANGED <<connected, netSet, buffer, plength, taken, given>>

\* n more bytes of a length, or of a packet.
Reading(e, want) ==
  /\ \E n \in Reads(e, want) : Drain(e, n) /\ buffer' = [buffer EXCEPT ![e] = Got(e, n)]
  /\ UNCHANGED <<pc, connected, netSet, out, plength, taken, given>>

ReadsByte(e) == pc[e] = "length" /\ Reading(e, 2) /\ Len(buffer'[e]) < 2

ReadsLength(e) ==
  /\ pc[e] = "length" /\ Goto(e, "packet")
  /\ \E n \in Reads(e, 2) :
       /\ Drain(e, n) /\ Len(Got(e, n)) = 2
       /\ plength' = [plength EXCEPT ![e] = ntohs(Got(e, n))]
  /\ buffer' = [buffer EXCEPT ![e] = <<>>]
  /\ UNCHANGED <<connected, netSet, out, taken, given>>

ReadsPacket(e) == pc[e] = "packet" /\ Reading(e, plength[e])

Delivers(e) ==
  /\ pc[e] = "packet" /\ Len(buffer[e]) = plength[e] /\ Goto(e, "select")
  /\ given' = [given EXCEPT ![e] = Append(@, buffer[e])]
  /\ buffer' = [buffer EXCEPT ![e] = <<>>]
  /\ UNCHANGED <<connected, netSet, out, chan, plength, taken>>

StepOf(e) ==
  \/ Moves(e) \/ Leaves(e) \/ Takes(e) \/ Writes(e)
  \/ ReadsByte(e) \/ ReadsLength(e) \/ ReadsPacket(e) \/ Delivers(e)

LEMMA FailureLeaves ==
  ASSUME NEW e, ~Over(e), Fails(e) PROVE Leaves(e)
BY Zenon DEF Fails, Leaves

LEMMA PassesMove ==
  ASSUME Types, NEW e \in Ends, NEW from \in {"start", "socket", "listen", "accept"},
         NEW to \in {"socket", "listen", "accept", "connect", "select"}, Passes(e, from, to)
  PROVE  Moves(e) \/ Leaves(e)
<1>1. CASE Fails(e)
  BY <1>1, FailureLeaves DEF Passes, Over
<1>2. CASE Goto(e, to) /\ UNCHANGED <<connected, netSet, out, chan, buffer, plength, taken, given>>
  <2>1. pc[e] = from
    BY DEF Passes
  <2> QED BY <1>2, <2>1 DEF Moves, Types, States
<1> QED BY <1>1, <1>2 DEF Passes

LEMMA Steps ==
  ASSUME Types, Next PROVE \E e \in Ends : StepOf(e)
<1>1. "server" \in Ends /\ "client" \in Ends
  BY DEF Ends
<1>2. CASE Listen
  BY <1>1, <1>2, PassesMove DEF Listen, StepOf
<1>3. CASE Connect
  <2>1. CASE /\ connected' = TRUE /\ Goto("client", "select")
             /\ UNCHANGED <<netSet, out, chan, buffer, plength, taken, given>>
    <3>1. pc["client"] = "connect"
      BY <1>3 DEF Connect
    <3>2. Moves("client")
      BY <2>1, <3>1 DEF Moves, Types, States
    <3> QED BY <1>1, <3>2, Zenon DEF StepOf
  <2>2. CASE End("client", "done")
    BY <1>1, <1>3, <2>2 DEF Connect, StepOf, Leaves, Over
  <2>3. CASE Fails("client")
    BY <1>1, <1>3, <2>3, FailureLeaves DEF Connect, StepOf, Over
  <2> QED BY <1>3, <2>1, <2>2, <2>3, Zenon DEF Connect
<1>4. CASE AcceptClient
  <2>1. CASE Passes("server", "accept", "select")
    BY <1>1, <2>1, PassesMove DEF StepOf
  <2>2. CASE pc["server"] = "accept" /\ Fails("server")
    BY <1>1, <2>2, FailureLeaves DEF StepOf, Over
  <2> QED BY <1>4, <2>1, <2>2 DEF AcceptClient
<1> SUFFICES ASSUME NEW e \in Ends, tun_alloc(e) \/ Socket(e) \/ Loop(e) \/ Kill(e) PROVE StepOf(e)
  BY <1>2, <1>3, <1>4 DEF Next
<1>5. CASE tun_alloc(e)
  BY <1>5, PassesMove DEF tun_alloc, StepOf
<1>6. CASE Socket(e)
  <2>1. CASE e = "server"
    BY <1>6, <2>1, PassesMove DEF Socket, StepOf
  <2>2. CASE e # "server"
    BY <1>6, <2>2, PassesMove DEF Socket, StepOf
  <2> QED BY <2>1, <2>2
<1>7. CASE Kill(e)
  BY <1>7, Zenon DEF Kill, StepOf, Leaves
<1>8. CASE Fails(e) /\ pc[e] \in {"select", "tap2net", "write", "length", "packet"}
  BY <1>8, FailureLeaves DEF StepOf, Over
<1>9. CASE Select(e)
  <2>1. CASE /\ Goto(e, "tap2net") \/ (Readable(e) /\ Goto(e, "length"))
             /\ netSet' = [netSet EXCEPT ![e] = Readable(e)]
             /\ UNCHANGED <<connected, out, chan, buffer, plength, taken, given>>
    <3>1. Readable(e) \in BOOLEAN
      BY DEF Readable
    <3>2. netSet' \in [Ends -> BOOLEAN] /\ connected' \in BOOLEAN
      BY <2>1, <3>1, Zenon DEF Types
    <3>3. pc[e] = "select"
      BY <1>9 DEF Select
    <3>4. netSet'[e] => Readable(e)
      BY <2>1, <3>1, Zenon DEF Types
    <3>5. \A f \in Ends \ {e} : netSet'[f] = netSet[f]
      BY <2>1, Zenon DEF Types
    <3>6. CASE Goto(e, "tap2net")
      BY <2>1, <3>2, <3>3, <3>4, <3>5, <3>6 DEF StepOf, Moves, States
    <3>7. CASE Readable(e) /\ Goto(e, "length")
      BY <2>1, <3>2, <3>3, <3>5, <3>7 DEF StepOf, Moves, States
    <3> QED BY <2>1, <3>6, <3>7
  <2> QED BY <1>8, <1>9, <2>1 DEF Select
<1>10. CASE ReadTap(e)
  BY <1>8, <1>10 DEF ReadTap, StepOf, Takes
<1>11. CASE WriteNet(e)
  <2>1. CASE Over(Peer(e)) /\ End(e, "done")
    BY <1>11, <2>1 DEF WriteNet, StepOf, Leaves, Over
  <2>2. CASE Writes(e)
    BY <2>2 DEF StepOf
  <2> QED BY <1>8, <1>11, <2>1, <2>2, Zenon DEF WriteNet, Writes
<1>12. CASE ReadLength(e)
  <2>1. CASE EndsAtEof(e)
    BY <1>12, <2>1 DEF ReadLength, EndsAtEof, StepOf, Leaves, Over
  <2>2. CASE ReadsByte(e) \/ ReadsLength(e)
    BY <2>2 DEF StepOf
  <2>3. ASSUME NEW n \in Reads(e, 2), Drain(e, n), Len(Got(e, n)) < 2,
               buffer' = [buffer EXCEPT ![e] = Got(e, n)],
               UNCHANGED <<pc, plength>>, UNCHANGED <<connected, netSet, out, taken, given>>
        PROVE  ReadsByte(e)
    <3>1. Reading(e, 2)
      BY <2>3, Zenon DEF Reading
    <3>2. buffer'[e] = Got(e, n)
      BY <2>3, Zenon DEF Types
    <3> QED BY <1>12, <2>3, <3>1, <3>2, Zenon DEF ReadLength, ReadsByte
  <2> QED BY <1>8, <1>12, <2>1, <2>2, <2>3, Zenon DEF ReadLength, ReadsLength
<1>13. CASE ReadPacket(e)
  BY <1>8, <1>13, Zenon DEF ReadPacket, StepOf, ReadsPacket, Reading
<1>14. CASE WriteTap(e)
  <2>1. CASE Len(buffer[e]) < plength[e] /\ Eof(e) /\ End(e, "done")
    BY <1>14, <2>1, Zenon DEF WriteTap, StepOf, Leaves, Over
  <2> QED BY <1>8, <1>14, <2>1 DEF WriteTap, StepOf, Delivers
<1> QED BY <1>5, <1>6, <1>7, <1>9, <1>10, <1>11, <1>12, <1>13, <1>14 DEF Loop

-----------------------------------------------------------------------------
(* Every step preserves the invariant.  r is the other end.                *)

Both(e, r) == Types /\ Place(e) /\ Place(r) /\ Stream(e, r) /\ Stream(r, e)

Pair(e, r) == e \in Ends /\ r \in Ends /\ e # r /\ r = Peer(e) /\ e = Peer(r)

LEMMA Peers == \A e \in Ends : Pair(e, Peer(e)) /\ Ends = {e, Peer(e)}
BY DEF Pair, Ends, Peer

LEMMA StreamKept ==
  ASSUME NEW e, NEW r, Stream(e, r), ~Over(r)' => ~Over(r), Run(e)' = Run(e),
         Header(r)' = Header(r), pc'[r] = "packet" => pc[r] = "packet",
         taken'[e] = taken[e], out'[e] = out[e], chan'[e] = chan[e],
         buffer'[r] = buffer[r], given'[r] = given[r], plength'[r] = plength[r]
  PROVE  Stream(e, r)'
BY Zenon DEF Stream

LEMMA PlaceKept ==
  ASSUME NEW r, Place(r), pc'[r] = pc[r], out'[r] = out[r], chan'[r] = chan[r],
         buffer'[r] = buffer[r]
  PROVE  Place(r)'
BY Zenon DEF Place

LEMMA MovesKeep ==
  ASSUME NEW e, NEW r, Pair(e, r), Both(e, r), Moves(e)
  PROVE  Both(e, r)'
<1>1. /\ e \in Ends /\ r \in Ends /\ e # r /\ Types
      /\ Place(e) /\ Place(r) /\ Stream(e, r) /\ Stream(r, e)
  BY Zenon DEF Both, Pair
<1>2. PICK l \in States \ {"write", "packet", "done", "aborted"} : Goto(e, l)
  BY DEF Moves
<1>3. pc' \in [Ends -> States] /\ pc'[e] = l /\ pc'[r] = pc[r]
  BY <1>1, <1>2, Zenon DEF Goto, Types
<1>4. UNCHANGED <<out, chan, buffer, plength, taken, given>>
  BY DEF Moves
<1>5. pc[e] \notin {"write", "length", "packet", "done", "aborted"}
  BY DEF Moves
<1>6. Types'
  BY <1>1, <1>3, <1>4 DEF Types, Moves
<1>7. Place(e)'
  <2>1. out[e] = <<>> /\ buffer[e] = <<>> /\ Len(chan[e]) <= Capacity /\ Len(buffer[e]) < 2
    BY <1>1, <1>5, SMTT(20) DEF Place
  <2> QED BY <1>2, <1>3, <1>4, <2>1 DEF Place
<1>8. Place(r)'
  BY <1>1, <1>3, <1>4, PlaceKept
<1>9. /\ ~Over(e) /\ ~Over(e)' /\ Run(e)' = Run(e) /\ Header(e)' = Header(e)
      /\ Over(r)' = Over(r) /\ Run(r)' = Run(r) /\ Header(r)' = Header(r)
  BY <1>3, <1>5 DEF Over, Run, Header
<1>10. Stream(e, r)'
  BY <1>1, <1>3, <1>4, <1>9, StreamKept, Zenon
<1>11. Stream(r, e)'
  BY <1>1, <1>3, <1>4, <1>9, StreamKept
<1> QED BY <1>6, <1>7, <1>8, <1>10, <1>11 DEF Both

LEMMA LeavesKeeps ==
  ASSUME NEW e, NEW r, Pair(e, r), Both(e, r), Leaves(e)
  PROVE  Both(e, r)'
<1>1. /\ e \in Ends /\ r \in Ends /\ e # r /\ Types
      /\ Place(e) /\ Place(r) /\ Stream(e, r) /\ Stream(r, e)
  BY DEF Both, Pair
<1>2. PICK how \in {"done", "aborted"} : End(e, how)
  BY DEF Leaves
<1>3. PICK n \in 0..Len(chan[e]) : chan' = [chan EXCEPT ![e] = SubSeq(@, 1, n)]
  BY <1>2, Zenon DEF End
<1>4. UNCHANGED <<connected, netSet, plength, taken, given>>
  BY <1>2 DEF End
<1>5. chan[e] \in Seq(Byte) /\ SubSeq(chan[e], 1, n) \in Seq(Byte) /\ Len(SubSeq(chan[e], 1, n)) = n
  BY <1>1 DEF Types
<1>6. /\ pc' \in [Ends -> States] /\ pc'[e] = how /\ pc'[r] = pc[r]
  BY <1>1, <1>2 DEF End, Goto, Types, States
<1>7. /\ out' \in [Ends -> Seq(Byte)] /\ out'[e] = <<>> /\ out'[r] = out[r]
      /\ buffer' \in [Ends -> Seq(Byte)] /\ buffer'[e] = <<>> /\ buffer'[r] = buffer[r]
  BY <1>1, <1>2 DEF End, Types
<1>8. chan' \in [Ends -> Seq(Byte)] /\ chan'[e] = SubSeq(chan[e], 1, n) /\ chan'[r] = chan[r]
  BY <1>1, <1>3, <1>5, Zenon DEF Types
<1>9. Types'
  BY <1>1, <1>4, <1>6, <1>7, <1>8, Zenon DEF Types
<1>10. Place(e)'
  <2>1. Len(chan'[e]) <= Capacity
    BY <1>1, <1>5, <1>8, TunnelAssumption DEF Place
  <2> QED BY <1>6, <1>7, <2>1 DEF Place
<1>11. Place(r)'
  BY <1>1, <1>6, <1>7, <1>8, PlaceKept, Zenon
<1>12. Over(e)'
  BY <1>6 DEF Over
<1>13. Stream(e, r)'
  <2> SUFFICES ASSUME ~Over(r)' PROVE Stream(e, r)'
    BY Zenon DEF Stream
  <2>1. ~Over(r) /\ Header(r)' = Header(r) /\ Run(e)' = "over" /\ Header(r) \in {0, 2}
    BY <1>6, <1>12 DEF Over, Header, Run
  <2>2. Flow(Run(e), taken[e], out[e], chan[e], buffer[r], Header(r), given[r])
    BY <1>1, <2>1 DEF Stream
  <2>3. taken[e] \in Seq(Packets) /\ given[r] \in Seq(Packets) /\ buffer[r] \in Seq(Byte)
    BY <1>1 DEF Types
  <2>4. Flow("over", taken[e], <<>>, SubSeq(chan[e], 1, n), buffer[r], Header(r), given[r])
    BY <1>5, <2>1, <2>2, <2>3, FlowCut, Zenon
  <2>5. Flow(Run(e)', taken'[e], out'[e], chan'[e], buffer'[r], Header(r)', given'[r])
    BY <1>4, <1>7, <1>8, <2>1, <2>4, Zenon
  <2> QED BY <1>1, <1>4, <1>6, <1>7, <2>1, <2>5, Zenon DEF Stream
<1>14. Stream(r, e)'
  BY <1>12 DEF Stream
<1> QED BY <1>9, <1>10, <1>11, <1>13, <1>14 DEF Both

LEMMA TakesKeeps ==
  ASSUME NEW e, NEW r, Pair(e, r), Both(e, r), Takes(e)
  PROVE  Both(e, r)'
<1>1. /\ e \in Ends /\ r \in Ends /\ e # r /\ Types
      /\ Place(e) /\ Place(r) /\ Stream(e, r) /\ Stream(r, e)
  BY DEF Both, Pair
<1>2. PICK p \in Packets : /\ taken' = [taken EXCEPT ![e] = Append(@, p)]
                           /\ out' = [out EXCEPT ![e] = Frame(p)]
  BY Zenon DEF Takes
<1>3. pc[e] = "tap2net" /\ UNCHANGED <<connected, netSet, chan, buffer, plength, given>>
  BY DEF Takes
<1>4. pc' \in [Ends -> States] /\ pc'[e] = "write" /\ pc'[r] = pc[r]
  BY <1>1 DEF Takes, Goto, Types, States
<1>5. taken[e] \in Seq(Packets) /\ given[r] \in Seq(Packets) /\ buffer[r] \in Seq(Byte) /\ chan[e] \in Seq(Byte)
  BY <1>1 DEF Types
<1>6. Append(taken[e], p) \in Seq(Packets)
  BY <1>5
<1>7. Frame(p) \in Seq(Byte) /\ Frame(p) # <<>>
  <2>1. Frame(p) \in Seq(Byte) /\ Len(Frame(p)) = 2 + Len(p) /\ Len(p) \in Nat
    BY FrameShape, Zenon
  <2> QED BY <2>1
<1>8. /\ taken' \in [Ends -> Seq(Packets)] /\ taken'[e] = Append(taken[e], p) /\ taken'[r] = taken[r]
      /\ out' \in [Ends -> Seq(Byte)] /\ out'[e] = Frame(p) /\ out'[r] = out[r]
  BY <1>1, <1>2, <1>6, <1>7, Zenon DEF Types
<1>9. Types'
  BY <1>1, <1>3, <1>4, <1>8, Zenon DEF Types
<1>10. Place(e)'
  <2>1. buffer[e] = <<>> /\ Len(chan[e]) <= Capacity
    BY <1>1, <1>3 DEF Place
  <2> QED BY <1>3, <1>4, <1>7, <1>8, <2>1, Zenon DEF Place
<1>11. Place(r)'
  BY <1>1, <1>3, <1>4, <1>8, PlaceKept, Zenon
<1>12. /\ Run(e) = "runs" /\ Run(e)' = "runs" /\ Header(e)' = Header(e) /\ ~Over(e) /\ ~Over(e)'
       /\ Over(r)' = Over(r) /\ Run(r)' = Run(r) /\ Header(r)' = Header(r) /\ Header(r) \in {0, 2}
  BY <1>3, <1>4 DEF Over, Run, Header
<1>13. Stream(r, e)'
  BY <1>1, <1>3, <1>4, <1>8, <1>12, StreamKept, Zenon
<1>14. Stream(e, r)'
  <2> SUFFICES ASSUME ~Over(r)' PROVE Stream(e, r)'
    BY Zenon DEF Stream
  <2>1. out[e] = <<>>
    BY <1>1, <1>3, Zenon DEF Place
  <2>2. Flow("runs", taken[e], <<>>, chan[e], buffer[r], Header(r), given[r])
    BY <1>1, <1>12, <2>1 DEF Stream
  <2>3. Flow("runs", Append(taken[e], p), Frame(p), chan[e], buffer[r], Header(r), given[r])
    BY <1>5, <1>12, <2>2, FlowTake, Zenon
  <2>4. Flow(Run(e)', taken'[e], out'[e], chan'[e], buffer'[r], Header(r)', given'[r])
    BY <1>3, <1>8, <1>12, <2>3, Zenon
  <2>5. ASSUME pc[r] = "packet"
        PROVE  /\ plength[r] = Len(taken'[e][Len(given[r]) + 1]) /\ Len(buffer[r]) <= plength[r]
    <3>1. plength[r] = Len(taken[e][Len(given[r]) + 1]) /\ Len(buffer[r]) <= plength[r]
      BY <1>1, <1>12, <2>5 DEF Stream
    <3>2. Header(r) = 2
      BY <2>5 DEF Header
    <3>3. Len(given[r]) < Len(taken[e])
      BY <2>2, <3>2, FlowNext
    <3>4. taken'[e][Len(given[r]) + 1] = taken[e][Len(given[r]) + 1]
      BY <1>5, <1>8, <3>3
    <3> QED BY <3>1, <3>4, Zenon
  <2> QED BY <1>3, <1>4, <2>4, <2>5, Zenon DEF Stream
<1> QED BY <1>9, <1>10, <1>11, <1>13, <1>14 DEF Both

LEMMA WritesKeeps ==
  ASSUME NEW e, NEW r, Pair(e, r), Both(e, r), Writes(e)
  PROVE  Both(e, r)'
<1>1. /\ e \in Ends /\ r \in Ends /\ e # r /\ r = Peer(e) /\ Types
      /\ Place(e) /\ Place(r) /\ Stream(e, r) /\ Stream(r, e)
  BY DEF Both, Pair
<1> DEFINE x(n) == SubSeq(out[e], 1, n)
           y(n) == SubSeq(out[e], n + 1, Len(out[e]))
<1>2. PICK n \in 1..Len(out[e]) :
        /\ \/ /\ ~Over(r) /\ Len(chan[e]) + n <= Capacity
              /\ chan' = [chan EXCEPT ![e] = @ \o x(n)]
           \/ Over(r) /\ UNCHANGED chan
        /\ Written(e, y(n))
  BY <1>1 DEF Writes
<1>3. pc[e] = "write" /\ UNCHANGED <<connected, netSet, buffer, plength, taken, given>>
  BY DEF Writes
<1>4. out[e] \in Seq(Byte) /\ chan[e] \in Seq(Byte) /\ n \in 0..Len(out[e])
  BY <1>1 DEF Types
<1>5. y(n) \in Seq(Byte) /\ x(n) \in Seq(Byte) /\ Len(x(n)) = n
  BY <1>4
<1> HIDE DEF x, y
<1>6. /\ pc' \in [Ends -> States] /\ pc'[r] = pc[r]
      /\ pc'[e] \in {"write", "length", "select"} /\ (pc'[e] = "write" <=> y(n) # <<>>)
  BY <1>1, <1>2 DEF Written, Goto, Types, States
<1>7. out' \in [Ends -> Seq(Byte)] /\ out'[e] = y(n) /\ out'[r] = out[r]
  BY <1>1, <1>2, <1>5, Zenon DEF Written, Types
<1>8. /\ chan' \in [Ends -> Seq(Byte)] /\ chan'[r] = chan[r] /\ Len(chan'[e]) <= Capacity
      /\ ~Over(r) => chan'[e] = chan[e] \o x(n)
  <2>1. CASE Over(r)
    <3>1. chan' = chan
      BY <1>2, <2>1
    <3> QED BY <1>1, <2>1, <3>1, Zenon DEF Types, Place
  <2>2. CASE ~Over(r)
    <3>1. chan[e] \o x(n) \in Seq(Byte) /\ Len(chan[e] \o x(n)) = Len(chan[e]) + n
      BY <1>4, <1>5, Joined, Zenon
    <3>2. chan' = [chan EXCEPT ![e] = chan[e] \o x(n)] /\ Len(chan[e]) + n <= Capacity
      BY <1>2, <2>2
    <3>3. chan' \in [Ends -> Seq(Byte)] /\ chan'[e] = chan[e] \o x(n) /\ chan'[r] = chan[r]
      BY <1>1, <3>1, <3>2, Zenon DEF Types
    <3> QED BY <3>1, <3>2, <3>3
  <2> QED BY <2>1, <2>2
<1>9. Types'
  BY <1>1, <1>3, <1>6, <1>7, <1>8, Zenon DEF Types
<1>10. Place(e)'
  <2>1. buffer[e] = <<>>
    BY <1>1, <1>3 DEF Place
  <2> QED BY <1>3, <1>6, <1>7, <1>8, <2>1 DEF Place
<1>11. Place(r)'
  BY <1>1, <1>3, <1>6, <1>7, <1>8, PlaceKept, Zenon
<1>12. /\ Run(e) = "runs" /\ Run(e)' = "runs" /\ Header(e)' = Header(e) /\ ~Over(e) /\ pc'[e] # "packet"
       /\ Over(r)' = Over(r) /\ Run(r)' = Run(r) /\ Header(r)' = Header(r) /\ Header(r) \in {0, 2}
  BY <1>3, <1>6 DEF Over, Run, Header
<1>13. Stream(r, e)'
  BY <1>1, <1>3, <1>7, <1>8, <1>12, StreamKept, Zenon
<1>14. Stream(e, r)'
  <2> SUFFICES ASSUME ~Over(r)' PROVE Stream(e, r)'
    BY Zenon DEF Stream
  <2>1. ~Over(r)
    BY <1>12, Zenon
  <2>2. Flow("runs", taken[e], out[e], chan[e], buffer[r], Header(r), given[r])
    BY <1>1, <1>12, <2>1 DEF Stream
  <2>3. taken[e] \in Seq(Packets) /\ given[r] \in Seq(Packets) /\ buffer[r] \in Seq(Byte)
    BY <1>1 DEF Types
  <2>4. Flow("runs", taken[e], y(n), chan[e] \o x(n), buffer[r], Header(r), given[r])
    BY <1>4, <1>12, <2>2, <2>3, FlowWrite, Zenon DEF x, y
  <2>5. Flow(Run(e)', taken'[e], out'[e], chan'[e], buffer'[r], Header(r)', given'[r])
    BY <1>3, <1>7, <1>8, <1>12, <2>1, <2>4, Zenon
  <2> QED BY <1>1, <1>3, <1>6, <2>1, <2>5, Zenon DEF Stream
<1> QED BY <1>9, <1>10, <1>11, <1>13, <1>14 DEF Both

\* What reading n bytes does to the stream from r to e.
LEMMA ReadingFacts ==
  ASSUME NEW e, NEW r, Pair(e, r), Both(e, r), NEW want, NEW n \in Reads(e, want), Drain(e, n),
         ~Over(e)
  PROVE  /\ Got(e, n) \in Seq(Byte) /\ Len(Got(e, n)) <= want
         /\ chan' \in [Ends -> Seq(Byte)] /\ chan'[e] = chan[e] /\ Len(chan'[r]) <= Capacity
         /\ Flow(Run(r), taken[r], out[r], chan'[r], Got(e, n), Header(e), given[e])
<1>1. /\ e \in Ends /\ r \in Ends /\ e # r /\ r = Peer(e) /\ Types /\ Place(r) /\ Stream(r, e)
  BY DEF Both, Pair
<1>2. n \in 1..Len(chan[r]) /\ Len(buffer[e]) + n <= want
  BY <1>1, Zenon DEF Reads
<1> DEFINE x == SubSeq(chan[r], 1, n)
           y == SubSeq(chan[r], n + 1, Len(chan[r]))
<1>3. chan[r] \in Seq(Byte) /\ buffer[e] \in Seq(Byte)
  BY <1>1 DEF Types
<1>4. /\ x \in Seq(Byte) /\ Len(x) = n /\ y \in Seq(Byte) /\ Len(y) = Len(chan[r]) - n
      /\ n \in 0..Len(chan[r]) /\ n \in Nat /\ Len(chan[r]) \in Nat
  BY <1>2, <1>3
<1>5. Got(e, n) = buffer[e] \o x
  BY <1>1 DEF Got
<1>6. chan' = [chan EXCEPT ![r] = y]
  BY <1>1, Zenon DEF Drain
<1>7. Flow(Run(r), taken[r], out[r], y, Got(e, n), Header(e), given[e])
  <2>1. Flow(Run(r), taken[r], out[r], chan[r], buffer[e], Header(e), given[e])
    BY <1>1, Zenon DEF Stream
  <2>2. taken[r] \in Seq(Packets) /\ given[e] \in Seq(Packets) /\ Header(e) \in {0, 2}
    BY <1>1 DEF Types, Header
  <2> QED BY <1>3, <1>4, <1>5, <2>1, <2>2, FlowRead, Zenon
<1> HIDE DEF x, y
<1>8. chan' \in [Ends -> Seq(Byte)] /\ chan'[e] = chan[e] /\ chan'[r] = y
  BY <1>1, <1>4, <1>6, Zenon DEF Types
<1>9. Got(e, n) \in Seq(Byte) /\ Len(Got(e, n)) = Len(buffer[e]) + n
  BY <1>3, <1>4, <1>5, Joined, Zenon
<1>10. Len(y) <= Capacity
  <2>1. Len(chan[r]) <= Capacity
    BY <1>1 DEF Place
  <2> QED BY <1>4, <2>1, TunnelAssumption
<1> QED BY <1>2, <1>7, <1>8, <1>9, <1>10, Zenon

LEMMA ReadingKeeps ==
  ASSUME NEW e, NEW r, Pair(e, r), Both(e, r), ReadsByte(e) \/ ReadsPacket(e)
  PROVE  Both(e, r)'
<1>1. /\ e \in Ends /\ r \in Ends /\ e # r /\ Types
      /\ Place(e) /\ Place(r) /\ Stream(e, r) /\ Stream(r, e)
  BY DEF Both, Pair
<1>2. PICK want : Reading(e, want) /\ (pc[e] = "packet" => want = plength[e])
  BY Zenon DEF ReadsByte, ReadsPacket
<1>3. pc[e] \in {"length", "packet"} /\ (pc[e] = "length" => Len(buffer'[e]) < 2)
  BY DEF ReadsByte, ReadsPacket
<1>4. PICK n \in Reads(e, want) : Drain(e, n) /\ buffer' = [buffer EXCEPT ![e] = Got(e, n)]
  BY <1>2, Zenon DEF Reading
<1>5. UNCHANGED <<pc, connected, netSet, out, plength, taken, given>>
  BY <1>2 DEF Reading
<1>6. ~Over(e)
  BY <1>3 DEF Over
<1>7. /\ Got(e, n) \in Seq(Byte) /\ Len(Got(e, n)) <= want
      /\ chan' \in [Ends -> Seq(Byte)] /\ chan'[e] = chan[e] /\ Len(chan'[r]) <= Capacity
      /\ Flow(Run(r), taken[r], out[r], chan'[r], Got(e, n), Header(e), given[e])
  BY <1>4, <1>6, ReadingFacts, Zenon
<1>8. buffer' \in [Ends -> Seq(Byte)] /\ buffer'[e] = Got(e, n) /\ buffer'[r] = buffer[r]
  BY <1>1, <1>4, <1>7, Zenon DEF Types
<1>9. Types'
  BY <1>1, <1>5, <1>7, <1>8, Zenon DEF Types
<1>10. Place(e)'
  <2>1. out[e] # <<>> <=> pc[e] = "write"
    BY <1>1, Zenon DEF Place
  <2>2. Len(chan[e]) <= Capacity
    BY <1>1, Zenon DEF Place
  <2> QED BY <1>3, <1>5, <1>7, <2>1, <2>2, Zenon DEF Place
<1>11. Place(r)'
  BY <1>1, <1>5, <1>7, <1>8, Zenon DEF Place
<1>12. /\ Over(e)' = Over(e) /\ Run(e)' = Run(e) /\ Header(e)' = Header(e)
       /\ Over(r)' = Over(r) /\ Run(r)' = Run(r) /\ Header(r)' = Header(r)
  BY <1>5 DEF Over, Run, Header
<1>13. Stream(e, r)'
  BY <1>1, <1>5, <1>7, <1>8, <1>12, StreamKept, Zenon
<1>14. Stream(r, e)'
  <2>1. Flow(Run(r)', taken'[r], out'[r], chan'[r], buffer'[e], Header(e)', given'[e])
    BY <1>5, <1>7, <1>8, <1>12, Zenon
  <2>2. ASSUME pc[e] = "packet"
        PROVE  plength[e] = Len(taken[r][Len(given[e]) + 1]) /\ Len(buffer'[e]) <= plength[e]
    BY <1>1, <1>2, <1>6, <1>7, <1>8, <2>2, Zenon DEF Stream
  <2> QED BY <1>5, <2>1, <2>2, Zenon DEF Stream
<1> QED BY <1>9, <1>10, <1>11, <1>13, <1>14, Zenon DEF Both

LEMMA ReadsLengthKeeps ==
  ASSUME NEW e, NEW r, Pair(e, r), Both(e, r), ReadsLength(e)
  PROVE  Both(e, r)'
<1>1. /\ e \in Ends /\ r \in Ends /\ e # r /\ Types
      /\ Place(e) /\ Place(r) /\ Stream(e, r) /\ Stream(r, e)
  BY DEF Both, Pair
<1>2. PICK n \in Reads(e, 2) :
        /\ Drain(e, n) /\ Len(Got(e, n)) = 2
        /\ plength' = [plength EXCEPT ![e] = ntohs(Got(e, n))]
  BY Zenon DEF ReadsLength
<1>3. /\ pc[e] = "length" /\ buffer' = [buffer EXCEPT ![e] = <<>>]
      /\ UNCHANGED <<connected, netSet, out, taken, given>>
  BY DEF ReadsLength
<1>4. pc' \in [Ends -> States] /\ pc'[e] = "packet" /\ pc'[r] = pc[r]
  BY <1>1 DEF ReadsLength, Goto, Types, States
<1>5. ~Over(e)
  BY <1>3 DEF Over
<1>6. /\ Got(e, n) \in Seq(Byte)
      /\ chan' \in [Ends -> Seq(Byte)] /\ chan'[e] = chan[e] /\ Len(chan'[r]) <= Capacity
      /\ Flow(Run(r), taken[r], out[r], chan'[r], Got(e, n), Header(e), given[e])
  BY <1>2, <1>5, ReadingFacts, Zenon
<1>7. Header(e) = 0 /\ Header(e)' = 2 /\ ~Over(e)'
  BY <1>3, <1>4 DEF Header, Over
<1>8. taken[r] \in Seq(Packets) /\ given[e] \in Seq(Packets) /\ chan'[r] \in Seq(Byte)
  BY <1>1, <1>6 DEF Types
<1> DEFINE p == taken[r][Len(given[e]) + 1]
<1>9. /\ Len(given[e]) < Len(taken[r]) /\ ntohs(Got(e, n)) = Len(p)
      /\ Flow(Run(r), taken[r], out[r], chan'[r], <<>>, 2, given[e])
  BY <1>2, <1>6, <1>7, <1>8, FlowLength, Zenon
<1>10. p \in Packets
  BY <1>8, <1>9, SMTT(20)
<1> HIDE DEF p
<1>11. Len(p) \in UInt16 /\ 0 <= Len(p)
  BY <1>10, FrameFacts, SMT DEF UInt16
<1>12. plength' \in [Ends -> UInt16] /\ plength'[e] = Len(p) /\ plength'[r] = plength[r]
  BY <1>1, <1>2, <1>9, <1>11, Zenon DEF Types
<1>13. buffer' \in [Ends -> Seq(Byte)] /\ buffer'[e] = <<>> /\ buffer'[r] = buffer[r]
  BY <1>1, <1>3 DEF Types
<1>14. Types'
  BY <1>1, <1>3, <1>4, <1>6, <1>12, <1>13, Zenon DEF Types
<1>15. Place(e)'
  <2>1. out[e] = <<>> /\ Len(chan[e]) <= Capacity
    BY <1>1, <1>3, Zenon DEF Place
  <2> QED BY <1>3, <1>4, <1>6, <2>1, Zenon DEF Place
<1>16. Place(r)'
  BY <1>1, <1>3, <1>4, <1>6, <1>13, Zenon DEF Place
<1>17. Run(e)' = Run(e) /\ Over(r)' = Over(r) /\ Run(r)' = Run(r) /\ Header(r)' = Header(r)
  BY <1>3, <1>4 DEF Over, Run, Header
<1>18. Stream(e, r)'
  BY <1>1, <1>3, <1>4, <1>6, <1>12, <1>13, <1>17, StreamKept, Zenon
<1>19. Stream(r, e)'
  <2>1. Flow(Run(r)', taken'[r], out'[r], chan'[r], buffer'[e], Header(e)', given'[e])
    BY <1>3, <1>7, <1>9, <1>13, <1>17, Zenon
  <2>2. plength'[e] = Len(taken'[r][Len(given'[e]) + 1])
    BY <1>3, <1>12, Zenon DEF p
  <2>3. Len(buffer'[e]) <= plength'[e]
    BY <1>11, <1>12, <1>13
  <2> QED BY <2>1, <2>2, <2>3, Zenon DEF Stream
<1> QED BY <1>14, <1>15, <1>16, <1>18, <1>19, Zenon DEF Both

LEMMA DeliversKeeps ==
  ASSUME NEW e, NEW r, Pair(e, r), Both(e, r), Delivers(e)
  PROVE  Both(e, r)' /\ Len(given[e]) < Len(taken[r]) /\ buffer[e] = taken[r][Len(given[e]) + 1]
<1>1. /\ e \in Ends /\ r \in Ends /\ e # r /\ Types
      /\ Place(e) /\ Place(r) /\ Stream(e, r) /\ Stream(r, e)
  BY DEF Both, Pair
<1>2. /\ pc[e] = "packet" /\ Len(buffer[e]) = plength[e]
      /\ given' = [given EXCEPT ![e] = Append(@, buffer[e])]
      /\ buffer' = [buffer EXCEPT ![e] = <<>>]
      /\ UNCHANGED <<connected, netSet, out, chan, plength, taken>>
  BY DEF Delivers
<1>3. pc' \in [Ends -> States] /\ pc'[e] = "select" /\ pc'[r] = pc[r]
  BY <1>1 DEF Delivers, Goto, Types, States
<1>4. ~Over(e) /\ ~Over(e)' /\ Header(e) = 2 /\ Header(e)' = 0
  BY <1>2, <1>3 DEF Over, Header
<1>5. /\ Flow(Run(r), taken[r], out[r], chan[r], buffer[e], 2, given[e])
      /\ Len(buffer[e]) = Len(taken[r][Len(given[e]) + 1])
  BY <1>1, <1>2, <1>4, Zenon DEF Stream
<1>6. /\ taken[r] \in Seq(Packets) /\ given[e] \in Seq(Packets)
      /\ chan[r] \in Seq(Byte) /\ buffer[e] \in Seq(Byte)
  BY <1>1 DEF Types
<1>7. /\ Len(given[e]) < Len(taken[r]) /\ buffer[e] = taken[r][Len(given[e]) + 1]
      /\ Flow(Run(r), taken[r], out[r], chan[r], <<>>, 0, Append(given[e], buffer[e]))
  BY <1>5, <1>6, FlowDeliver, Zenon
<1>8. Append(given[e], buffer[e]) \in Seq(Packets)
  <2>1. Len(given[e]) + 1 \in 1..Len(taken[r])
    BY <1>6, <1>7
  <2>2. buffer[e] \in Packets
    BY <1>6, <1>7, <2>1
  <2> QED BY <1>6, <2>2
<1>9. /\ given' \in [Ends -> Seq(Packets)] /\ given'[e] = Append(given[e], buffer[e]) /\ given'[r] = given[r]
  BY <1>1, <1>2, <1>8, Zenon DEF Types
<1>10. buffer' \in [Ends -> Seq(Byte)] /\ buffer'[e] = <<>> /\ buffer'[r] = buffer[r]
  BY <1>1, <1>2 DEF Types
<1>11. Types'
  BY <1>1, <1>2, <1>3, <1>9, <1>10, Zenon DEF Types
<1>12. Place(e)'
  <2>1. out[e] = <<>> /\ Len(chan[e]) <= Capacity
    BY <1>1, <1>2, Zenon DEF Place
  <2> QED BY <1>2, <1>3, <1>10, <2>1, Zenon DEF Place
<1>13. Place(r)'
  BY <1>1, <1>2, <1>3, <1>10, PlaceKept, Zenon
<1>14. Run(e)' = Run(e) /\ Over(r)' = Over(r) /\ Run(r)' = Run(r) /\ Header(r)' = Header(r)
  BY <1>2, <1>3 DEF Over, Run, Header
<1>15. Stream(e, r)'
  BY <1>1, <1>2, <1>3, <1>9, <1>10, <1>14, StreamKept, Zenon
<1>16. Stream(r, e)'
  <2>1. Flow(Run(r)', taken'[r], out'[r], chan'[r], buffer'[e], Header(e)', given'[e])
    BY <1>2, <1>4, <1>7, <1>9, <1>10, <1>14, Zenon
  <2> QED BY <1>3, <2>1, Zenon DEF Stream
<1> QED BY <1>7, <1>11, <1>12, <1>13, <1>15, <1>16, Zenon DEF Both

LEMMA InvBoth == TunnelInv => \A e \in Ends : Pair(e, Peer(e)) /\ Both(e, Peer(e))
<1> SUFFICES ASSUME TunnelInv, NEW e \in Ends PROVE Pair(e, Peer(e)) /\ Both(e, Peer(e))
  BY Zenon
<1>1. Pair(e, Peer(e))
  BY Peers, Zenon
<1>2. Peer(e) \in Ends /\ Peer(Peer(e)) = e
  BY <1>1, Zenon DEF Pair
<1>3. Place(Peer(e)) /\ Stream(Peer(e), Peer(Peer(e)))
  BY <1>2, Zenon DEF TunnelInv
<1> QED BY <1>1, <1>2, <1>3, Zenon DEF TunnelInv, Both

LEMMA StepKeeps ==
  ASSUME NEW e \in Ends, TunnelInv, StepOf(e) PROVE TunnelInv'
<1> DEFINE r == Peer(e)
<1>1. Pair(e, r) /\ Both(e, r) /\ Ends = {e, r} /\ Peer(r) = e
  BY InvBoth, Peers, Zenon DEF Pair
<1> HIDE DEF r
<1>2. Both(e, r)'
  BY <1>1, MovesKeep, LeavesKeeps, TakesKeeps, WritesKeeps, ReadingKeeps, ReadsLengthKeeps,
     DeliversKeeps, Zenon DEF StepOf
<1>3. Place(e)' /\ Place(r)' /\ Stream(e, r)' /\ Stream(r, e)' /\ Types'
  BY <1>2, Zenon DEF Both
<1>4. ASSUME NEW f \in Ends PROVE Place(f)' /\ Stream(f, Peer(f))'
  <2>1. CASE f = e
    BY <1>3, <2>1, Zenon DEF r
  <2>2. CASE f = r
    BY <1>1, <1>3, <2>2, Zenon
  <2> QED BY <1>1, <2>1, <2>2
<1> QED BY <1>3, <1>4, Zenon DEF TunnelInv

LEMMA TunnelInvariant == Spec => []TunnelInv
<1>1. Init => TunnelInv
  <2> SUFFICES ASSUME Init PROVE TunnelInv
    OBVIOUS
  <2>1. Types
    <3>1. 0 \in UInt16
      BY SMT DEF UInt16
    <3>2. <<>> \in Seq(Byte) /\ <<>> \in Seq(Packets)
      OBVIOUS
    <3>3. "start" \in States
      BY DEF States
    <3> QED BY <3>1, <3>2, <3>3, Zenon DEF Init, Types
  <2>2. ASSUME NEW e \in Ends PROVE Place(e)
    BY TunnelAssumption DEF Init, Place
  <2>3. ASSUME NEW e \in Ends PROVE Stream(e, Peer(e))
    <3>1. Peer(e) \in Ends
      BY Peers, Zenon DEF Pair
    <3>2. /\ Run(e) = "runs" /\ taken[e] = <<>> /\ out[e] = <<>> /\ chan[e] = <<>>
          /\ buffer[Peer(e)] = <<>> /\ Header(Peer(e)) = 0 /\ given[Peer(e)] = <<>>
          /\ pc[Peer(e)] = "start"
      BY <3>1 DEF Init, Run, Over, Header
    <3> QED BY <3>2, FlowInit, Zenon DEF Stream
  <2> QED BY <2>1, <2>2, <2>3, Zenon DEF TunnelInv
<1>2. TunnelInv /\ [Next]_vars => TunnelInv'
  <2> SUFFICES ASSUME TunnelInv, [Next]_vars PROVE TunnelInv'
    OBVIOUS
  <2>1. CASE Next
    BY <2>1, Steps, StepKeeps, Zenon DEF TunnelInv
  <2>2. CASE UNCHANGED vars
    BY <2>2, Zenon DEF vars, TunnelInv, Types, Place, Stream, Run, Header, Over
  <2> QED BY <2>1, <2>2
<1> QED BY <1>1, <1>2, PTL DEF Spec

-----------------------------------------------------------------------------
(* The theorems.                                                           *)

\* The packet that an end is reading is one of Packets, and of the length read.
LEMMA Expected ==
  ASSUME TunnelInv, NEW e \in Ends, pc[e] = "packet"
  PROVE  /\ Len(given[e]) < Len(taken[Peer(e)])
         /\ taken[Peer(e)][Len(given[e]) + 1] \in Packets
         /\ plength[e] = Len(taken[Peer(e)][Len(given[e]) + 1])
         /\ Len(buffer[e]) <= plength[e] /\ plength[e] <= BUFSIZE
<1> DEFINE r == Peer(e)
           p == taken[r][Len(given[e]) + 1]
<1>1. Types /\ Stream(r, e) /\ r \in Ends
  BY InvBoth, Zenon DEF Both, Pair
<1>2. ~Over(e) /\ Header(e) = 2
  BY DEF Over, Header
<1>3. /\ Flow(Run(r), taken[r], out[r], chan[r], buffer[e], 2, given[e])
      /\ plength[e] = Len(p) /\ Len(buffer[e]) <= plength[e]
  BY <1>1, <1>2, Zenon DEF Stream
<1>4. Len(given[e]) < Len(taken[r])
  BY <1>3, FlowNext, Zenon
<1>5. taken[r] \in Seq(Packets) /\ given[e] \in Seq(Packets)
  BY <1>1, Zenon DEF Types
<1>6. p \in Packets
  <2> HIDE DEF r
  <2>1. Len(given[e]) + 1 \in 1..Len(taken[r])
    BY <1>4, <1>5
  <2> QED BY <1>5, <2>1
<1> HIDE DEF p
<1>7. Len(p) <= BUFSIZE
  BY <1>6, TunnelAssumption, Zenon
<1>8. plength[e] <= BUFSIZE
  BY <1>3, <1>7, Zenon
<1> QED BY <1>3, <1>4, <1>6, <1>8, Zenon DEF p

\* Every variable has its type; in particular what an end writes to its
\* interface is a packet, and what read_n reads fits the buffer.
THEOREM TunnelTypeCorrect == Spec => []TypeOK
<1>1. TunnelInv => TypeOK
  <2> SUFFICES ASSUME TunnelInv PROVE TypeOK
    OBVIOUS
  <2>1. Types /\ \A e \in Ends : Place(e)
    BY Zenon DEF TunnelInv
  <2>2. BUFSIZE \in Nat /\ 1 <= BUFSIZE
    BY TunnelAssumption, SMT DEF UInt16
  <2>3. ASSUME NEW e \in Ends PROVE Len(buffer[e]) <= BUFSIZE
    <3>1. buffer[e] \in Seq(Byte) /\ plength[e] \in UInt16
      BY <2>1, Zenon DEF Types
    <3>2. CASE pc[e] = "packet"
      <4>1. Len(buffer[e]) <= plength[e] /\ plength[e] <= BUFSIZE
        BY <3>2, Expected, Zenon
      <4>2. plength[e] \in Nat /\ Len(buffer[e]) \in Nat
        BY <3>1, SMT DEF UInt16
      <4> QED BY <2>2, <4>1, <4>2
    <3>3. CASE pc[e] # "packet"
      <4>1. Len(buffer[e]) < 2 /\ Len(buffer[e]) \in Nat
        BY <2>1, <3>1, <3>3 DEF Place
      <4> QED BY <2>2, <4>1
    <3> QED BY <3>2, <3>3
  <2>4. ASSUME NEW e \in Ends
        PROVE  /\ out[e] \in Seq(Byte) /\ (out[e] # <<>> <=> pc[e] = "write")
               /\ chan[e] \in Seq(Byte) /\ Len(chan[e]) <= Capacity
               /\ buffer[e] \in Seq(Byte) /\ taken[e] \in Seq(Packets) /\ given[e] \in Seq(Packets)
    BY <2>1, Zenon DEF Types, Place
  <2> QED BY <2>1, <2>3, <2>4, Zenon DEF TypeOK, Types
<1> QED BY <1>1, TunnelInvariant, PTL

\* The length that read_n(net_fd, buffer, ntohs(plength)) is given never exceeds
\* the buffer, however the bytes of lengths and packets were cut up on the way.
THEOREM TunnelBufferFits == Spec => []BufferFits
<1>1. TunnelInv => BufferFits
  BY Expected, Zenon DEF BufferFits
<1> QED BY <1>1, TunnelInvariant, PTL

-----------------------------------------------------------------------------
(* Stalls.                                                                 *)

\* An end that was told, or has decided, to read finds something to read: only it
\* takes bytes from the stream, and an end that has gone away stays away.
Ready(e) ==
  /\ pc[e] \in {"tap2net", "write"} /\ netSet[e] => Readable(e)
  /\ pc[e] = "length" /\ buffer[e] = <<>> => Readable(e)

ReadyInv == \A e \in Ends : Ready(e)

LEMMA ReadyKept ==
  ASSUME NEW e, NEW r, Pair(e, r), TunnelInv, ReadyInv, StepOf(e)
  PROVE  Ready(e)' /\ Ready(r)'
<1>1. /\ e \in Ends /\ r \in Ends /\ e # r /\ r = Peer(e) /\ e = Peer(r)
      /\ Ready(e) /\ Ready(r) /\ Types /\ Place(e)
  BY Zenon DEF Pair, ReadyInv, TunnelInv
<1>2. /\ pc \in [Ends -> States] /\ chan \in [Ends -> Seq(Byte)] /\ buffer \in [Ends -> Seq(Byte)]
      /\ netSet \in [Ends -> BOOLEAN] /\ chan[e] \in Seq(Byte)
  BY <1>1, Zenon DEF Types
\* What another end's step does to r.
<1>3. ASSUME pc'[r] = pc[r], netSet'[r] = netSet[r], buffer'[r] = buffer[r],
             chan[e] # <<>> => chan'[e] # <<>> \/ Over(e)', Over(e) => Over(e)'
      PROVE  Ready(r)'
  <2>1. Readable(r) => Readable(r)'
    BY <1>1, <1>3, Zenon DEF Readable
  <2> QED BY <1>1, <1>3, <2>1, Zenon DEF Ready
\* What its own step does, as long as it takes no byte.
<1>4. ASSUME pc'[r] = pc[r], chan'[r] = chan[r] PROVE Readable(e)' <=> Readable(e)
  BY <1>1, <1>4, Zenon DEF Readable, Over
<1>5. CASE Moves(e)
  <2>1. PICK l \in States \ {"write", "packet", "done", "aborted"} :
          Goto(e, l) /\ (l = "length" \/ (l = "tap2net" /\ netSet'[e]) => Readable(e))
    BY <1>5, Zenon DEF Moves
  <2>2. pc'[e] = l /\ pc'[r] = pc[r]
    BY <1>1, <1>2, <2>1, Zenon DEF Goto
  <2>3. chan' = chan /\ buffer' = buffer /\ netSet'[r] = netSet[r] /\ ~Over(e)
    BY <1>1, <1>5 DEF Moves, Over
  <2>4. Readable(e)' <=> Readable(e)
    BY <1>4, <2>2, <2>3
  <2>5. Ready(e)'
    BY <2>1, <2>2, <2>4 DEF Ready
  <2> QED BY <1>3, <2>2, <2>3, <2>5, Zenon
<1>6. CASE Leaves(e)
  <2>1. PICK how \in {"done", "aborted"} : End(e, how)
    BY <1>6, Zenon DEF Leaves
  <2>2. pc'[e] = how /\ pc'[r] = pc[r]
    BY <1>1, <1>2, <2>1, Zenon DEF End, Goto
  <2>3. buffer'[r] = buffer[r] /\ netSet' = netSet
    BY <1>1, <1>2, <2>1, Zenon DEF End
  <2>4. Over(e)' /\ Ready(e)'
    BY <2>2 DEF Over, Ready
  <2> QED BY <1>3, <2>2, <2>3, <2>4, Zenon
<1>7. CASE Takes(e)
  <2>1. pc[e] = "tap2net" /\ pc'[e] = "write" /\ pc'[r] = pc[r]
    BY <1>1, <1>2, <1>7, Zenon DEF Takes, Goto
  <2>2. chan' = chan /\ buffer' = buffer /\ netSet' = netSet /\ ~Over(e)
    BY <1>7, <2>1 DEF Takes, Over
  <2>3. Readable(e)' <=> Readable(e)
    BY <1>4, <2>1, <2>2
  <2>4. Ready(e)'
    BY <1>1, <2>1, <2>2, <2>3 DEF Ready
  <2> QED BY <1>3, <2>1, <2>2, <2>4, Zenon
<1>8. CASE Writes(e)
  <2>1. PICK n \in 1..Len(out[e]) :
          /\ \/ chan' = [chan EXCEPT ![e] = @ \o SubSeq(out[e], 1, n)]
             \/ UNCHANGED chan
          /\ Written(e, SubSeq(out[e], n + 1, Len(out[e])))
    BY <1>8, Zenon DEF Writes
  <2>2. pc[e] = "write" /\ buffer' = buffer /\ netSet' = netSet /\ ~Over(e)
    BY <1>8 DEF Writes, Over
  <2>3. pc'[r] = pc[r] /\ (pc'[e] = "write" \/ (pc'[e] = "length" /\ netSet[e]) \/ pc'[e] = "select")
    BY <1>1, <1>2, <2>1 DEF Written, Goto
  <2>4. chan'[r] = chan[r]
    BY <1>1, <1>2, <2>1, Zenon
  <2>5. chan[e] # <<>> => chan'[e] # <<>>
    <3>1. CASE UNCHANGED chan
      BY <3>1
    <3>2. CASE chan' = [chan EXCEPT ![e] = @ \o SubSeq(out[e], 1, n)]
      <4> DEFINE x == SubSeq(out[e], 1, n)
      <4>1. out[e] \in Seq(Byte)
        BY <1>1, Zenon DEF Types
      <4>2. x \in Seq(Byte) /\ Len(x) = n /\ n \in Nat /\ n > 0
        BY <4>1
      <4>3. chan'[e] = chan[e] \o x
        BY <1>1, <1>2, <3>2, Zenon
      <4> HIDE DEF x
      <4>4. chan[e] \o x \in Seq(Byte) /\ Len(chan[e] \o x) = Len(chan[e]) + Len(x)
        BY <1>2, <4>2, Joined, Zenon
      <4> DEFINE w == chan[e] \o x
      <4> HIDE DEF w
      <4>5. w \in Seq(Byte) /\ Len(w) = Len(chan[e]) + Len(x) /\ Len(chan[e]) \in Nat
        <5>1. w \in Seq(Byte) /\ Len(w) = Len(chan[e]) + Len(x) /\ chan[e] \in Seq(Byte)
          BY <1>2, <4>4, Zenon DEF w
        <5> QED BY <5>1
      <4>6. w # <<>>
        BY <4>2, <4>5
      <4> QED BY <4>3, <4>6, Zenon DEF w
    <3> QED BY <2>1, <3>1, <3>2
  <2>6. Readable(e)' <=> Readable(e)
    BY <1>4, <2>3, <2>4, Zenon
  <2>7. Ready(e)'
    BY <1>1, <2>2, <2>3, <2>6 DEF Ready
  <2> QED BY <1>3, <2>2, <2>3, <2>5, <2>7, Zenon
<1>9. CASE ReadsByte(e) \/ ReadsPacket(e)
  <2>1. PICK want : Reading(e, want)
    BY <1>9, Zenon DEF ReadsByte, ReadsPacket
  <2>2. PICK n \in Reads(e, want) : Drain(e, n) /\ buffer' = [buffer EXCEPT ![e] = Got(e, n)]
    BY <2>1, Zenon DEF Reading
  <2>3. pc' = pc /\ netSet' = netSet
    BY <2>1, Zenon DEF Reading
  <2>4. pc[e] \in {"length", "packet"} /\ ~Over(e)
    BY <1>9 DEF ReadsByte, ReadsPacket, Over
  <2>5. buffer'[r] = buffer[r] /\ buffer'[e] = Got(e, n) /\ chan'[e] = chan[e]
    BY <1>1, <1>2, <2>2, Zenon DEF Drain
  <2>6. Got(e, n) # <<>>
    <3> DEFINE x == SubSeq(chan[r], 1, n)
    <3>1. n \in 1..Len(chan[r]) /\ Got(e, n) = buffer[e] \o x
      BY <1>1, Zenon DEF Reads, Got
    <3>2. chan[r] \in Seq(Byte) /\ buffer[e] \in Seq(Byte)
      BY <1>1, <1>2, Zenon
    <3>3. x \in Seq(Byte) /\ Len(x) = n /\ n \in Nat /\ n > 0
      BY <3>1, <3>2
    <3> HIDE DEF x
    <3>4. Got(e, n) \in Seq(Byte) /\ Len(Got(e, n)) = Len(buffer[e]) + Len(x)
      BY <3>1, <3>2, <3>3, Joined, Zenon
    <3>5. Len(buffer[e]) \in Nat
      BY <3>2
    <3> QED BY <3>3, <3>4, <3>5
  <2>7. Ready(e)'
    BY <2>3, <2>4, <2>5, <2>6 DEF Ready
  <2> QED BY <1>3, <2>3, <2>4, <2>5, <2>7, Zenon
<1>10. CASE ReadsLength(e)
  <2>1. PICK n \in Reads(e, 2) : Drain(e, n)
    BY <1>10, Zenon DEF ReadsLength
  <2>2. pc[e] = "length" /\ pc'[e] = "packet" /\ pc'[r] = pc[r]
    BY <1>1, <1>2, <1>10, Zenon DEF ReadsLength, Goto
  <2>3. buffer'[r] = buffer[r] /\ netSet' = netSet /\ chan'[e] = chan[e]
    BY <1>1, <1>2, <1>10, <2>1, Zenon DEF ReadsLength, Drain
  <2>4. ~Over(e) /\ Ready(e)'
    BY <2>2 DEF Over, Ready
  <2> QED BY <1>3, <2>2, <2>3, <2>4, Zenon
<1>11. CASE Delivers(e)
  <2>1. pc[e] = "packet" /\ pc'[e] = "select" /\ pc'[r] = pc[r]
    BY <1>1, <1>2, <1>11, Zenon DEF Delivers, Goto
  <2>2. buffer'[r] = buffer[r] /\ netSet' = netSet /\ chan' = chan
    BY <1>1, <1>2, <1>11, Zenon DEF Delivers
  <2>3. ~Over(e) /\ Ready(e)'
    BY <2>1 DEF Over, Ready
  <2> QED BY <1>3, <2>1, <2>2, <2>3, Zenon
<1> QED BY <1>5, <1>6, <1>7, <1>8, <1>9, <1>10, <1>11 DEF StepOf

LEMMA ReadyInvariant == Spec => []ReadyInv
<1>1. Init => ReadyInv
  BY DEF Init, ReadyInv, Ready
<1>2. TunnelInv /\ ReadyInv /\ [Next]_vars => ReadyInv'
  <2> SUFFICES ASSUME TunnelInv, ReadyInv, [Next]_vars PROVE ReadyInv'
    OBVIOUS
  <2>1. CASE Next
    <3>1. PICK e \in Ends : StepOf(e)
      BY <2>1, Steps, Zenon DEF TunnelInv
    <3>2. Ready(e)' /\ Ready(Peer(e))' /\ Ends = {e, Peer(e)}
      BY <3>1, Peers, ReadyKept, Zenon
    <3> QED BY <3>2, Zenon DEF ReadyInv
  <2>2. CASE UNCHANGED vars
    BY <2>2, Zenon DEF vars, ReadyInv, Ready, Readable, Over
  <2> QED BY <2>1, <2>2
<1> QED BY <1>1, <1>2, TunnelInvariant, PTL DEF Spec

\* An end that waits where it does not write waits in select().
LEMMA WaitsInSelect ==
  ASSUME TunnelInv, ReadyInv, NEW e \in Ends, Blocked(e), Blocked(Peer(e)),
         pc[e] # "write", pc[Peer(e)] # "write"
  PROVE  pc[e] = "select"
<1> DEFINE r == Peer(e)
<1>1. /\ Pair(e, r) /\ Types /\ Place(e) /\ Place(r) /\ Stream(r, e) /\ Ready(e)
  BY InvBoth, Zenon DEF Both, ReadyInv
<1>2. r \in Ends /\ Peer(r) = e
  BY <1>1, Zenon DEF Pair
<1> HIDE DEF r
<1>3. pc[r] \in {"select", "length", "packet"} /\ pc[e] \in {"select", "length", "packet"} /\ ~Readable(e)
  BY DEF Blocked, r
<1>4. Run(r) = "runs" /\ ~Over(e) /\ ~Over(r)
  BY <1>3 DEF Run, Over
<1>5. chan[r] = <<>> /\ out[r] = <<>>
  <2>1. chan[r] = <<>>
    BY <1>3, Zenon DEF Readable, r
  <2>2. pc[r] # "write"
    BY <1>3
  <2> QED BY <1>1, <2>1, <2>2, Zenon DEF Place
<1>6. Flow("runs", taken[r], <<>>, <<>>, buffer[e], Header(e), given[e])
  BY <1>1, <1>4, <1>5, Zenon DEF Stream
<1> DEFINE p == taken[r][Len(given[e]) + 1]
<1>7. taken[r] \in Seq(Packets) /\ given[e] \in Seq(Packets) /\ buffer[e] \in Seq(Byte) /\ Header(e) \in {0, 2}
  BY <1>1, <1>2 DEF Types, Header
<1>8. \/ Header(e) = 0 /\ Len(buffer[e]) = 0
      \/ Len(given[e]) < Len(taken[r]) /\ Header(e) + Len(buffer[e]) >= 2 + Len(p)
  BY <1>6, <1>7, FlowEmpty, Zenon
<1>9. ASSUME Len(given[e]) < Len(taken[r]) PROVE Len(p) \in Nat
  <2>1. p \in Packets
    BY <1>7, <1>9
  <2> QED BY <2>1, FrameShape, Zenon
<1>10. Len(buffer[e]) \in Nat
  BY <1>7
<1> HIDE DEF p
<1>11. CASE pc[e] = "length"
  <2>1. Header(e) = 0
    BY <1>11 DEF Header
  <2>2. Len(buffer[e]) < 2
    BY <1>1, <1>11, Zenon DEF Place
  <2>3. Len(buffer[e]) = 0
    BY <1>8, <1>9, <1>10, <2>1, <2>2
  <2>4. buffer[e] = <<>>
    BY <1>7, <2>3
  <2> QED BY <1>1, <1>3, <1>11, <2>4, Zenon DEF Ready
<1>12. CASE pc[e] = "packet"
  <2>1. Header(e) = 2
    BY <1>12 DEF Header
  <2>2. Len(buffer[e]) < plength[e]
    BY <1>12 DEF Blocked
  <2>3. plength[e] = Len(p)
    BY <1>1, <1>4, <1>12, Zenon DEF Stream, p
  <2> QED BY <1>8, <1>9, <1>10, <2>1, <2>2, <2>3
<1> QED BY <1>3, <1>11, <1>12

\* The two ends wait for each other in one way only: both inside cwrite(net_fd,
\* ...), with both directions full.  No read_n waits for the rest of a length or
\* of a packet that the other end is not about to write.
THEOREM StallsInOneWay == Spec => []StallsOnlyWhenFull
<1>1. TunnelInv /\ ReadyInv => StallsOnlyWhenFull
  <2> SUFFICES ASSUME TunnelInv, ReadyInv, \A e \in Ends : Blocked(e)
               PROVE  (\A e \in Ends : pc[e] = "select") \/ (\A e \in Ends : pc[e] = "write")
    BY Zenon DEF StallsOnlyWhenFull
  <2>1. \A e \in Ends : Peer(e) \in Ends /\ Peer(Peer(e)) = e
    BY Peers, Zenon DEF Pair
  <2>2. ASSUME NEW e \in Ends, pc[e] = "write" PROVE pc[Peer(e)] = "write"
    <3>1. chan[e] # <<>>
      <4>1. Len(chan[e]) = Capacity
        BY <2>2 DEF Blocked
      <4> QED BY <4>1, TunnelAssumption
    <3>2. Readable(Peer(e))
      BY <2>1, <3>1, Zenon DEF Readable
    <3>3. Blocked(Peer(e))
      BY <2>1, <2>2
    <3> QED BY <3>2, <3>3, Zenon DEF Blocked
  <2>3. CASE \E e \in Ends : pc[e] = "write"
    BY <2>2, <2>3, Peers
  <2>4. CASE \A e \in Ends : pc[e] # "write"
    BY <2>1, <2>4, WaitsInSelect, Zenon
  <2> QED BY <2>3, <2>4
<1> QED BY <1>1, TunnelInvariant, ReadyInvariant, PTL

-----------------------------------------------------------------------------
(* The tunnel implements a pipe of packets.                                *)

LEMMA StepOfPipe ==
  ASSUME NEW e \in Ends, TunnelInv, StepOf(e)
  PROVE  Pipe!PipeNext \/ UNCHANGED Pipe!pipeVars
<1> DEFINE r == Peer(e)
           open == [f \in Ends |-> ~Over(f)]
<1>1. Pair(e, r) /\ Both(e, r)
  BY InvBoth, Zenon
<1>2. e \in Ends /\ r \in Ends /\ e # r /\ Types /\ Ends = {e, r}
  BY <1>1, Peers, Zenon DEF Pair, Both
<1>3. pc \in [Ends -> States] /\ given \in [Ends -> Seq(Packets)]
  BY <1>2, Zenon DEF Types
<1> HIDE DEF r
<1>4. ASSUME pc'[r] = pc[r], Over(e)' <=> Over(e), taken' = taken, given' = given
      PROVE  UNCHANGED Pipe!pipeVars
  <2>1. \A f \in Ends : (~Over(f))' <=> ~Over(f)
    BY <1>2, <1>4, Zenon DEF Over
  <2>2. open' = open
    BY <2>1, Zenon
  <2> QED BY <1>4, <2>2 DEF Pipe!pipeVars
<1>5. CASE Moves(e)
  <2>1. pc'[r] = pc[r] /\ ~Over(e) /\ ~Over(e)'
    BY <1>2, <1>3, <1>5 DEF Moves, Goto, Over
  <2> QED BY <1>4, <1>5, <2>1 DEF Moves
<1>6. CASE Leaves(e)
  <2>1. PICK how \in {"done", "aborted"} : End(e, how)
    BY <1>6, Zenon DEF Leaves
  <2>2. pc'[e] = how /\ pc'[r] = pc[r] /\ taken' = taken /\ given' = given
    BY <1>2, <1>3, <2>1, Zenon DEF End, Goto
  <2>3. ~Over(e) /\ Over(e)' /\ (Over(r)' <=> Over(r))
    BY <1>6, <2>2 DEF Leaves, Over
  <2>4. open[e] /\ open' = [open EXCEPT ![e] = FALSE]
    <3>1. \A f \in Ends : (~Over(f))' = IF f = e THEN FALSE ELSE ~Over(f)
      BY <1>2, <2>3, Zenon
    <3> QED BY <1>2, <2>3, <3>1, Zenon
  <2>5. Pipe!Close(e)
    BY <2>2, <2>4, Zenon DEF Pipe!Close
  <2> QED BY <1>2, <2>5, Zenon DEF Pipe!PipeNext
<1>7. CASE Takes(e)
  <2>1. pc[e] = "tap2net" /\ pc'[e] = "write" /\ pc'[r] = pc[r]
    BY <1>2, <1>3, <1>7, Zenon DEF Takes, Goto
  <2>2. \A f \in Ends : (~Over(f))' <=> ~Over(f)
    BY <1>2, <2>1 DEF Over
  <2>3. open' = open /\ open[e]
    <3>1. ~Over(e)
      BY <2>1 DEF Over
    <3> QED BY <2>2, <3>1, Zenon
  <2>4. Pipe!Accept(e)
    BY <1>7, <2>3, Zenon DEF Pipe!Accept, Takes
  <2> QED BY <2>4, Zenon DEF Pipe!PipeNext
<1>8. CASE Writes(e)
  <2>1. pc'[r] = pc[r] /\ ~Over(e) /\ ~Over(e)'
    BY <1>2, <1>3, <1>8 DEF Writes, Written, Goto, Over
  <2> QED BY <1>4, <1>8, <2>1 DEF Writes
<1>9. CASE ReadsByte(e) \/ ReadsPacket(e)
  BY <1>4, <1>9, Zenon DEF ReadsByte, ReadsPacket, Reading, Over
<1>10. CASE ReadsLength(e)
  <2>1. pc'[r] = pc[r] /\ ~Over(e) /\ ~Over(e)'
    BY <1>2, <1>3, <1>10 DEF ReadsLength, Goto, Over
  <2> QED BY <1>4, <1>10, <2>1 DEF ReadsLength
<1>11. CASE Delivers(e)
  <2>1. pc[e] = "packet" /\ pc'[e] = "select" /\ pc'[r] = pc[r] /\ taken' = taken
    BY <1>2, <1>3, <1>11, Zenon DEF Delivers, Goto
  <2>2. \A f \in Ends : (~Over(f))' <=> ~Over(f)
    BY <1>2, <2>1 DEF Over
  <2>3. open' = open /\ open[e]
    <3>1. ~Over(e)
      BY <2>1 DEF Over
    <3> QED BY <2>2, <3>1, Zenon
  <2>4. Len(given[e]) < Len(taken[r]) /\ buffer[e] = taken[r][Len(given[e]) + 1]
    BY <1>1, <1>11, DeliversKeeps, Zenon
  <2>5. given' = [given EXCEPT ![e] = Append(@, taken[r][Len(@) + 1])]
    BY <1>11, <2>4, Zenon DEF Delivers
  <2>6. Pipe!Deliver(e)
    BY <2>1, <2>3, <2>4, <2>5, Zenon DEF Pipe!Deliver, r
  <2> QED BY <2>6, Zenon DEF Pipe!PipeNext
<1> QED BY <1>5, <1>6, <1>7, <1>8, <1>9, <1>10, <1>11 DEF StepOf

\* The tunnel implements FramePipe: whatever becomes of the writes and reads and
\* wherever an end stops, cwrite(tap_fd, ...) writes the packets that the other
\* end has read from its interface, whole, in order and each at most once.
THEOREM TunnelImplementsPipe == Spec => CarriesPackets
<1>1. Init => Pipe!PipeInit
  BY Zenon DEF Init, Pipe!PipeInit, Over
<1>2. TunnelInv /\ [Next]_vars => [Pipe!PipeNext]_(Pipe!pipeVars)
  <2> SUFFICES ASSUME TunnelInv, [Next]_vars PROVE Pipe!PipeNext \/ UNCHANGED Pipe!pipeVars
    OBVIOUS
  <2>1. CASE Next
    BY <2>1, Steps, StepOfPipe, Zenon DEF TunnelInv
  <2>2. CASE UNCHANGED vars
    BY <2>2, Zenon DEF vars, Pipe!pipeVars, Over
  <2> QED BY <2>1, <2>2
<1> QED BY <1>1, <1>2, TunnelInvariant, PTL DEF Spec, CarriesPackets, Pipe!PipeSpec
=============================================================================
