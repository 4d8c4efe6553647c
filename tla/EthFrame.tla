------------------------------ MODULE EthFrame ------------------------------
(***************************************************************************)
(* The bytes of an Ethernet frame (eth.h, eth.cc): crc32, the padding and  *)
(* framing of SendEthernetFrame, and the checks of RecvEthernetFrame, with *)
(* a wire that may flip bits in between.                                   *)
(*                                                                         *)
(* A byte is the set of its bits that are 1, a subset of 0..7, and a       *)
(* uint32_t a subset of 0..31, so that exclusive or is SymDiff.  The sizes *)
(* of eth.h are constants, so that TLC can try every error pattern in      *)
(* frames that are small.                                                  *)
(***************************************************************************)
EXTENDS Integers, Sequences, FiniteSets, FiniteSetsExt

CONSTANTS
  Header,                \* the bytes of the EthernetHeader
  kEthernetPayloadMin, kEthernetPayloadMax,
  Payloads,              \* byte sequences the caller may send
  RecvSizes,             \* payload sizes the caller of RecvEthernetFrame gives
  FlipMax                \* bound: bits the wire may flip in one frame

kCrcSize == 4

kEthernetOverhead == Len(Header) + kCrcSize

ASSUME EthFrameAssumption ==
  /\ Header \in Seq(SUBSET (0..7)) /\ Payloads \subseteq Seq(SUBSET (0..7))
  /\ kEthernetPayloadMin \in Nat /\ kEthernetPayloadMax \in Nat
  /\ kEthernetPayloadMin <= kEthernetPayloadMax
  /\ RecvSizes \subseteq Nat /\ FlipMax \in Nat

VARIABLES
  wire,      \* frames on the wire: at most one, as sent
  flips,     \* pairs <<byte, bit>> of it that the wire has flipped
  sent,      \* the payload the last call of SendEthernetFrame was given
  sendSt,    \* what that call returned
  want,      \* the payload_size the last RecvEthernetFrame was given
  recvSt,    \* what that call returned, "none" since the last send
  got        \* *payload after it

vars == <<wire, flips, sent, sendSt, want, recvSt, got>>

-----------------------------------------------------------------------------
(* crc32 *)

\* 0xEDB88320
Polynomial == {31, 30, 29, 27, 26, 24, 23, 21, 20, 19, 15, 9, 8, 5}

\* One turn of the inner loop.
CrcBit(crc) ==
  LET shifted == {i - 1 : i \in crc \ {0}}
  IN  IF 0 \in crc THEN SymDiff(shifted, Polynomial) ELSE shifted

\* What its turns make of crc, one after the other.
CrcBits[crc \in SUBSET (0..31)] ==
  LET bits[j \in Nat] == IF j = 0 THEN crc ELSE CrcBit(bits[j - 1])
  IN  bits

\* One turn of the outer loop.
CrcByte[crc \in SUBSET (0..31)] ==
  [byte \in SUBSET (0..7) |-> CrcBits[SymDiff(crc, byte)][8]]

\* crc after each turn of it.
CrcLoop(message) ==
  LET loop[n \in 0..Len(message)] ==
        IF n = 0 THEN 0..31 ELSE CrcByte[loop[n - 1]][message[n]]
  IN  loop

crc32(message) == (0..31) \ CrcLoop(message)[Len(message)]

\* memcpy of a uint32_t on a little-endian machine.
CrcBytes(crc) == [k \in 1..kCrcSize |-> {i \in 0..7 : i + 8 * (k - 1) \in crc}]

-----------------------------------------------------------------------------
(* Sending, the wire, receiving *)

Init ==
  /\ wire = <<>> /\ flips = {} /\ sent = <<>> /\ sendSt = "none"
  /\ want = 0 /\ recvSt = "none" /\ got = <<>>

Padded_Not(payload) == payload

\* memset and memcpy of the payload: zeros up to kEthernetPayloadMin.
Padded(payload) ==
  [i \in 1..Max({Len(payload), kEthernetPayloadMin}) |->
     IF i <= Len(payload) THEN payload[i] ELSE {}]

MakeFrame_Headless(payload) ==
  Header \o Padded(payload) \o CrcBytes(crc32(Padded(payload)))

MakeFrame(payload) ==
  LET body == Header \o Padded(payload) IN body \o CrcBytes(crc32(body))

SendEthernetFrame ==
  /\ wire = <<>>
  /\ \E payload \in Payloads :
       /\ sent' = payload
       /\ \/ /\ Len(payload) > kEthernetPayloadMax
             /\ sendSt' = "invalid"
             /\ UNCHANGED wire
          \/ /\ Len(payload) <= kEthernetPayloadMax
             /\ sendSt' = "ok"
             /\ wire' = <<MakeFrame(payload)>>
  /\ flips' = {} /\ recvSt' = "none" /\ want' = 0 /\ got' = <<>>

\* The wire flips one more bit (in ascending order).
Flip ==
  /\ wire # <<>> /\ Cardinality(flips) < FlipMax
  /\ \E i \in 1..Len(wire[1]), b \in 0..7 :
       /\ \A e \in flips : 8 * e[1] + e[2] < 8 * i + b
       /\ flips' = flips \cup {<<i, b>>}
  /\ UNCHANGED <<wire, sent, sendSt, want, recvSt, got>>

OnWire == [i \in 1..Len(wire[1]) |->
             SymDiff(wire[1][i], {b \in 0..7 : <<i, b>> \in flips})]

BufferSize(size) ==
  (IF size < kEthernetPayloadMin THEN kEthernetPayloadMin ELSE size) + kEthernetOverhead

CrcMatches_Any(frame) == TRUE

CrcMatches(frame) ==
  LET size == Len(frame)
  IN  CrcBytes(crc32(SubSeq(frame, 1, size - kCrcSize)))
        = SubSeq(frame, size - kCrcSize + 1, size)

ExtractPayload_Padless(frame) ==
  SubSeq(frame, Len(Header) + 1, Len(frame) - kEthernetOverhead)

\* payload->resize and the memcpy that follows.
ExtractPayload(frame) == SubSeq(frame, Len(Header) + 1, Len(frame) - kCrcSize)

RecvEthernetFrame ==
  \E size \in RecvSizes :
    /\ want' = size
    /\ \/ /\ size > kEthernetPayloadMax
          /\ recvSt' = "invalid"
          /\ UNCHANGED <<wire, got>>
       \/ /\ size <= kEthernetPayloadMax
          /\ wire # <<>>
          /\ wire' = <<>>
          /\ LET \* recv() cuts off what does not fit in the buffer
                 frame == SubSeq(OnWire, 1, Min({Len(wire[1]), BufferSize(size)}))
             IN  \/ /\ CrcMatches(frame)
                    /\ recvSt' = "ok" /\ got' = ExtractPayload(frame)
                 \/ /\ ~CrcMatches(frame)
                    /\ recvSt' = "mismatch" /\ UNCHANGED got
    /\ UNCHANGED <<flips, sent, sendSt>>

Next == SendEthernetFrame \/ Flip \/ RecvEthernetFrame

Spec == Init /\ [][Next]_vars

-----------------------------------------------------------------------------
(* Properties *)

\* A frame's size lies between those of eth.h, and each status is one of its own.
TypeOK ==
  /\ \A i \in DOMAIN wire :
       /\ Len(wire[i]) >= kEthernetPayloadMin + kEthernetOverhead
       /\ Len(wire[i]) <= kEthernetPayloadMax + kEthernetOverhead
  /\ flips \in SUBSET (Nat \X (0..7)) /\ Cardinality(flips) <= FlipMax
  /\ sendSt \in {"none", "ok", "invalid"}
  /\ recvSt \in {"none", "ok", "invalid", "mismatch"}

\* RecvEthernetFrame returns Ok for no frame that the wire has damaged, or that
\* recv() has cut short because the caller's payload_size was too small for it.
DamageDetected ==
  recvSt = "ok" =>
    flips = {} /\ Len(MakeFrame(sent)) <= BufferSize(want)

\* It returns Ok for every other frame of SendEthernetFrame, and the payload it
\* returns is the one that was sent, followed by the padding.
PayloadDelivered ==
  recvSt \in {"ok", "mismatch"} /\ flips = {} /\ Len(MakeFrame(sent)) <= BufferSize(want) =>
    recvSt = "ok" /\ got = Padded(sent)

\* crc32 is the CRC that IEEE 802.3 defines, by division of polynomials over
\* GF(2): the message as coefficients, first bit highest, times x^32, the first
\* 32 coefficients complemented, modulo the generator, complemented.  A polynomial
\* is the set of its exponents.
Generator == {32, 26, 23, 22, 16, 12, 11, 10, 8, 7, 5, 4, 2, 1, 0}

\* One step of the division: the term of degree d goes.
Eliminate(S, d) ==
  IF d \in S THEN SymDiff(S, {g + d - 32 : g \in Generator}) ELSE S

\* What is left of S, whose degree is less than n + 32, after each of its steps.
Division(S, n) ==
  LET rest[j \in Nat] == IF j = 0 THEN S ELSE Eliminate(rest[j - 1], n + 32 - j)
  IN  rest

\* The bits of the message that are 1, numbered in the order of transmission.
Bits(message) == UNION {{8 * (k - 1) + b : b \in message[k]} : k \in 1..Len(message)}

Crc802_3(message) ==
  LET n == 8 * Len(message)
      M == {n + 31 - p : p \in Bits(message)}
      R == Division(SymDiff(M, n..(n + 31)), n)[n]
  IN  {i \in 0..31 : 31 - i \notin R}

\* The four bytes after the payload are the CRC of 802.3, as a stack or a network
\* card that checks them would compute it.
FcsIsCrc ==
  \A i \in DOMAIN wire :
    LET size == Len(wire[i])
    IN  SubSeq(wire[i], size - kCrcSize + 1, size)
          = CrcBytes(Crc802_3(SubSeq(wire[i], 1, size - kCrcSize)))

=============================================================================
