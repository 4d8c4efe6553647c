----------------------------- MODULE MCChecksum -----------------------------
(* Buffers of four to nine bytes (an EchoBody has eight), their checksum     *)
(* field where ICMP has it, over the byte values at which carries happen.    *)
EXTENDS Checksum

Small == UNION {[1..n -> {0, 1, 255}] : n \in 0..5}
MCBuffers ==
  {<<b, 255>> \o <<0, 0>> \o s : b \in {0, 1, 255}, s \in Small}

=============================================================================
