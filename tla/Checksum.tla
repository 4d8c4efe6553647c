------------------------------ MODULE Checksum ------------------------------
(***************************************************************************)
(* ip::Checksum (ip.cc), one action per loop turn, run twice the way the   *)
(* programs and a receiver use it: over a header whose checksum field is   *)
(* zero (MakeDatagram, MakeEchoRequest), and then over the header with the *)
(* result stored in that field.                                            *)
(*                                                                         *)
(* sum is a uint32_t in the code.  Here it is the exact number: FitsWord32 *)
(* says that for the buffers in question the two are the same.             *)
(***************************************************************************)
EXTENDS Integers, Sequences

CONSTANTS
  Buffers,      \* byte sequences with a zero checksum field
  FieldAt       \* offset of the checksum field: 10 in IPv4, 2 in ICMP

Byte == {n \in Nat : n < 256}

ASSUME ChecksumAssumption ==
  /\ FieldAt \in Nat /\ FieldAt % 2 = 0
  /\ \A b \in Buffers : /\ b \in Seq(Byte)
                          /\ FieldAt + 2 <= Len(b) /\ Len(b) <= 131072
                          /\ b[FieldAt + 1] = 0 /\ b[FieldAt + 2] = 0

VARIABLES
  buffer, ptr, count, sum,   \* as in the code; ptr is a byte offset
  pc,                        \* "add", "fold" or "done"
  pass,                      \* 1: checksum the header; 2: verify it
  total,                     \* ghost: the plain sum of the words added
  carried                    \* ghost: how often 65535 was taken out by folding

vars == <<buffer, ptr, count, sum, pc, pass, total, carried>>

Init ==
  /\ buffer \in Buffers /\ pass = 1
  /\ ptr = 0 /\ count = Len(buffer) /\ sum = 0 /\ pc = "add" /\ total = 0 /\ carried = 0

\* sum += *ptr, a little-endian uint16_t.
WordAt == buffer[ptr + 1] + 256 * buffer[ptr + 2]

AddWord ==
  /\ pc = "add" /\ count > 1
  /\ sum' = sum + WordAt /\ total' = total + WordAt
  /\ ptr' = ptr + 2 /\ count' = count - 2
  /\ UNCHANGED <<buffer, pc, pass, carried>>

\* The odd byte, if there is one.
AddByte ==
  /\ pc = "add" /\ count <= 1
  /\ LET byte == IF count > 0 THEN buffer[ptr + 1] ELSE 0
     IN  sum' = sum + byte /\ total' = total + byte
  /\ pc' = "fold"
  /\ UNCHANGED <<buffer, ptr, count, pass, carried>>

Folded_DropCarry(s) == s % 65536

Folded(s) == (s % 65536) + (s \div 65536)

Fold_Unreduced == pc = "fold" /\ sum >= 65536 /\ UNCHANGED vars

Fold ==
  /\ pc = "fold" /\ sum >= 65536
  /\ sum' = Folded(sum)
  /\ carried' = carried + (sum \div 65536)
  /\ UNCHANGED <<buffer, ptr, count, pc, pass, total>>

Return ==
  /\ pc = "fold" /\ sum < 65536
  /\ pc' = "done"
  /\ UNCHANGED <<buffer, ptr, count, sum, pass, total, carried>>

Result_NoComplement == sum

\* The uint16_t that ~sum is returned as.
Result == 65535 - sum

\* hdr.checksum = Checksum(&hdr, sizeof(hdr)); then the receiver's check.
Store ==
  /\ pc = "done" /\ pass = 1
  /\ pass' = 2
  /\ buffer' = [buffer EXCEPT ![FieldAt + 1] = Result % 256,
                              ![FieldAt + 2] = Result \div 256]
  /\ ptr' = 0 /\ count' = Len(buffer) /\ sum' = 0 /\ pc' = "add"
  /\ total' = 0 /\ carried' = 0

Next == AddWord \/ AddByte \/ Fold \/ Return \/ Store

Spec == Init /\ [][Next]_vars

FairSpec == Spec /\ WF_vars(Next)

-----------------------------------------------------------------------------
(* Properties *)

\* The result is the ones' complement of the ones' complement sum: added to the
\* words it was computed from it gives a multiple of 65535 (RFC 1071).
ResultCancels ==
  pc = "done" => Result \in Nat /\ Result < 65536 /\ (total + Result) % 65535 = 0

\* The 32-bit accumulator never overflows.
FitsWord32 == sum \in Nat /\ sum \div 65536 < 65536

\* A header that holds its checksum has the checksum 0.
VerifiesToZero == pc = "done" /\ pass = 2 => Result = 0

\* Both loops end.
Terminates == <>(pc = "done" /\ pass = 2)

=============================================================================
