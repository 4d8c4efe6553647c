----------------------------- MODULE NetworkSim -----------------------------
(***************************************************************************)
(* The network that arp_test.cc simulates (network_sim.h, network_sim.cc): *)
(* hosts, each with a queue of bytes per sender, and the FakeSockets that  *)
(* push to them and pop from them.                                         *)
(***************************************************************************)
EXTENDS Naturals, Sequences

CONSTANTS
  Macs, kBroadcastMac,
  Data,         \* what callers send
  LengthMax,    \* bound: bytes a caller asks for
  SendMax,      \* bound: calls of SendTo
  Absent        \* no such key in queues_

VARIABLES
  hosts,     \* set of the MAC addresses of hosts_
  queues,    \* [Macs -> [Macs -> Seq or Absent]]: queues_ of each host
  pushed,    \* history: [Macs -> [Macs -> bytes sent and not yet received]]
  sends,     \* history: calls of SendTo
  thrown     \* std::invalid_argument, which nothing catches

vars == <<hosts, queues, pushed, sends, thrown>>

Init ==
  /\ hosts = {}
  /\ queues = [h \in Macs |-> [s \in Macs |-> Absent]]
  /\ pushed = [h \in Macs |-> [s \in Macs |-> <<>>]]
  /\ sends = 0 /\ thrown = FALSE

\* SetUp and the test add hosts before they make sockets for them.
AddHostWithMac(mac) ==
  /\ mac \notin hosts /\ sends = 0
  /\ hosts' = hosts \cup {mac}
  /\ UNCHANGED <<queues, pushed, sends, thrown>>

\* operator[]: "Sender is automatically added to queues_ if not present."
At(queue) == IF queue = Absent THEN <<>> ELSE queue

\* Push for a sender other than kBroadcastMac, which no socket has as its own
\* address: `auto q = queues_[sender]' is a copy, and the insert goes to it.
Push(queue, data) == At(queue)

\* Pop, length being no more than the size: it pops from a copy too.
Pop(queue, length) == At(queue)

HostForMac(mac) == {mac} \cap hosts

\* FakeSocket::SendTo of the socket with address src.
SendTo(src, dst, data) ==
  LET recipients == IF dst = kBroadcastMac THEN hosts ELSE HostForMac(dst)
  IN  /\ sends < SendMax /\ sends' = sends + 1
      /\ thrown' = (dst # kBroadcastMac /\ recipients = {})
      /\ queues' = [h \in Macs |-> IF h \in recipients
                      THEN [queues[h] EXCEPT ![src] = Push(@, data)] ELSE queues[h]]
      /\ pushed' = [h \in Macs |-> IF h \in recipients
                      THEN [pushed[h] EXCEPT ![src] = @ \o data] ELSE pushed[h]]
      /\ UNCHANGED hosts

\* FakeSocket::RecvFrom of the socket with address mac.
RecvFrom(mac, src, length) ==
  /\ thrown' = (HostForMac(mac) = {} \/ length > Len(At(queues[mac][src])))
  /\ queues' = [queues EXCEPT ![mac][src] = IF thrown' THEN At(@) ELSE Pop(@, length)]
  /\ pushed' = [pushed EXCEPT ![mac][src] = IF thrown' THEN @ ELSE SubSeq(@, length + 1, Len(@))]
  /\ UNCHANGED <<hosts, sends>>

Next ==
  /\ ~thrown
  /\ \/ \E mac \in Macs : AddHostWithMac(mac)
     \/ \E src \in hosts, dst \in Macs \cup {kBroadcastMac}, data \in Data : SendTo(src, dst, data)
     \/ \E mac \in hosts, src \in Macs, length \in 0..LengthMax : RecvFrom(mac, src, length)

Spec == Init /\ [][Next]_vars

-----------------------------------------------------------------------------

\* "Queues holding data waiting to be received on this host": what SendTo pushed
\* for a host and RecvFrom has not yet popped is in the host's queue.
DataWaits == \A h, s \in Macs : At(queues[h][s]) = pushed[h][s]

=============================================================================
