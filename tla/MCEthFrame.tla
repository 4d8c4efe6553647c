----------------------------- MODULE MCEthFrame -----------------------------
(* Frames small enough to try every error pattern of a few bits.             *)
EXTENDS EthFrame

Byte(n) == {b \in 0..7 : (n \div 2^b) % 2 = 1}
Bytes(s) == [i \in 1..Len(s) |-> Byte(s[i])]

SmallHeader == Bytes(<<2, 66>>)
SmallPayloads == {Bytes(s) : s \in {<<>>, <<171>>, <<171, 0, 1>>, <<1, 2, 3, 4>>}}
SmallRecvSizes == {0, 1, 2, 3, 4}

\* The header and the packet of the frame whose CRC eth_test.cc gives.
RealHeader ==
  Bytes(<<8, 0, 39, 244, 203, 148, 10, 0, 39, 0, 0, 0, 8, 6>>)
ArpPacket ==
  Bytes(<<0, 1, 8, 0, 6, 4, 0, 2, 10, 0, 39, 0, 0, 0, 192, 168, 99, 1,
          8, 0, 39, 244, 203, 148, 192, 168, 99, 100>>)

\* eth_test.cc: 0xa6cb0959
ASSUME CrcTest ==
  CrcBytes(crc32(RealHeader \o ArpPacket \o [i \in 1..18 |-> {}]))
    = Bytes(<<89, 9, 203, 166>>)

=============================================================================
