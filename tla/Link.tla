-------------------------------- MODULE Link --------------------------------
(***************************************************************************)
(* The bottom of the stack: one broadcast domain of hosts, the raw packet  *)
(* socket each process opens (socket.h, raw_socket.cc) and the Ethernet    *)
(* layer that frames what goes through it (eth.h, eth.cc).                 *)
(*                                                                         *)
(* The kernel is external.  It keeps one receive queue per open socket,    *)
(* delivers a frame to every other open socket of the sending host (the    *)
(* sockets are ETH_P_ALL, which taps outgoing frames too; the kernel skips *)
(* only the socket that sent the frame) and to the sockets of the hosts    *)
(* the frame reaches.  A frame that finds a full queue is dropped.         *)
(*                                                                         *)
(* Every frame the programs build is padded to 64 bytes and every receive  *)
(* buffer holds 64 bytes, so sizes play no part here (see EthFrame).  The  *)
(* frame check sequence is the field fcs: TRUE when the last four bytes    *)
(* are the CRC of the others, as SendEthernetFrame makes them, FALSE for a *)
(* damaged frame and for a frame of any stack that does not append a       *)
(* software CRC.                                                           *)
(***************************************************************************)
EXTENDS Naturals, Sequences, FiniteSets

CONSTANTS
  Hosts,           \* machines on the link
  Procs,           \* processes, each with at most one RawSocket
  HostOf,          \* the machine a process runs on
  Ips, Macs,       \* addresses
  kBroadcastMac,
  NoIp, NoMac,     \* "nothing stored here"
  IfIp0, IfMac0,   \* addresses eth0 of each host starts with
  OtherPayloads,   \* payloads that are no ARP packet
  Stray,           \* frames that come from outside the modelled processes
  RcvQueueMax,     \* bound: frames a socket's receive queue holds
  ReaddressMax,    \* bound: other addresses the hosts are given, all told
  Faults           \* what may go wrong in this instance

\* struct Packet.  The fixed type and length fields are never examined.
Packet ==
  [op : {"request", "response"},
   sha : Macs, spa : Ips, tha : Macs \cup {kBroadcastMac}, tpa : Ips]

\* The source MAC and the EtherType of a frame are never examined either.
Frame ==
  [dst : Macs \cup {kBroadcastMac}, fcs : BOOLEAN,
   payload : Packet \cup OtherPayloads]

FaultKinds == {"loss", "flood", "ioerror", "crash"}

ASSUME LinkAssumption ==
  /\ HostOf \in [Procs -> Hosts]
  /\ NoIp \notin Ips /\ NoMac \notin Macs /\ kBroadcastMac \notin Macs
  /\ IfIp0 \in [Hosts -> Ips] /\ IfMac0 \in [Hosts -> Macs]
  /\ RcvQueueMax \in Nat \ {0} /\ ReaddressMax \in Nat
  /\ Faults \subseteq FaultKinds

\* Bytes 6 and 7 of these payloads, where an ARP packet has its opcode, are
\* neither 1 nor 2: they are 0 in an IP datagram, 0xabab or 0xdede in eth_echo.
ASSUME OtherAssumption == \A x \in OtherPayloads : x.op = "other"

ASSUME StrayAssumption ==
  /\ Stray \subseteq Frame
  /\ \A f \in Stray : ~f.fcs \/ f.payload \in OtherPayloads

VARIABLES
  ifIp, ifMac,     \* [Hosts -> address]: eth0, as the ioctls report it
  heldIp, heldMac, \* [Hosts -> set]: every address eth0 has ever had
  up,              \* [Procs -> BOOLEAN]: the process has its socket open
  q,               \* [Procs -> Seq(Frame)]: the socket's receive queue
  hostIp,          \* [Procs -> Ips or NoIp]: host_ip_, NoIp while not cached
  ifIndex          \* [Procs -> BOOLEAN]: interface_index_ is cached

ifVars == <<ifIp, ifMac, heldIp, heldMac>>
sockVars == <<up, q, hostIp, ifIndex>>
linkVars == <<ifVars, sockVars>>

LinkTypeOK ==
  /\ ifIp \in [Hosts -> Ips] /\ ifMac \in [Hosts -> Macs]
  /\ heldIp \in [Hosts -> SUBSET Ips] /\ heldMac \in [Hosts -> SUBSET Macs]
  /\ up \in [Procs -> BOOLEAN]
  /\ q \in [Procs -> Seq(Frame)]
  /\ \A p \in Procs : Len(q[p]) <= RcvQueueMax
  /\ hostIp \in [Procs -> Ips \cup {NoIp}]
  /\ ifIndex \in [Procs -> BOOLEAN]

LinkInit(Running) ==
  /\ ifIp = IfIp0 /\ ifMac = IfMac0
  /\ heldIp = [h \in Hosts |-> {IfIp0[h]}]
  /\ heldMac = [h \in Hosts |-> {IfMac0[h]}]
  /\ up = [p \in Procs |-> p \in Running]
  /\ q = [p \in Procs |-> <<>>]
  /\ hostIp = [p \in Procs |-> NoIp]
  /\ ifIndex = [p \in Procs |-> FALSE]

-----------------------------------------------------------------------------
(* The kernel and the wire (external). *)

IoError == "ioerror" \in Faults

Deliver_Unbounded(in, f, S) ==
  [s \in Procs |-> IF s \in S THEN Append(in[s], f) ELSE in[s]]

\* The queues `in' after frame f reached the sockets S.
Deliver(in, f, S) ==
  [s \in Procs |-> IF s \in S /\ Len(in[s]) < RcvQueueMax
                   THEN Append(in[s], f) ELSE in[s]]

AddressedTo(f) == {h \in Hosts : f.dst \in {kBroadcastMac, ifMac[h]}}

\* The sets of hosts that may see a frame which host h sends.
Arrivals(h, f) ==
  {H \in SUBSET Hosts :
     /\ h \in H
     /\ "loss" \in Faults \/ AddressedTo(f) \subseteq H
     /\ "flood" \in Faults \/ H \subseteq AddressedTo(f) \cup {h}}

\* A frame of some other stack, or a damaged one, arrives at host h.
StrayArrives(h) ==
  /\ \E f \in Stray : q' = Deliver(q, f, {s \in Procs : up[s] /\ HostOf[s] = h})
  /\ UNCHANGED <<ifVars, up, hostIp, ifIndex>>

\* The number of addresses the hosts have had since the start.
AddressesHeld ==
  Cardinality({x \in Hosts \X (Ips \cup Macs) : x[2] \in heldIp[x[1]] \cup heldMac[x[1]]})

\* eth0 of host h is given another address, one that no other host uses.
Readdress(h) ==
  /\ AddressesHeld < 2 * Cardinality(Hosts) + ReaddressMax
  /\ \/ /\ \E ip \in Ips : /\ \A g \in Hosts : ifIp[g] # ip
                           /\ ifIp' = [ifIp EXCEPT ![h] = ip]
                           /\ heldIp' = [heldIp EXCEPT ![h] = @ \cup {ip}]
        /\ UNCHANGED <<ifMac, heldMac>>
     \/ /\ \E m \in Macs : /\ \A g \in Hosts : ifMac[g] # m
                           /\ ifMac' = [ifMac EXCEPT ![h] = m]
                           /\ heldMac' = [heldMac EXCEPT ![h] = @ \cup {m}]
        /\ UNCHANGED <<ifIp, heldIp>>
  /\ UNCHANGED sockVars

-----------------------------------------------------------------------------
(* RawSocket *)

Fresh(p) ==
  /\ q' = [q EXCEPT ![p] = <<>>]
  /\ hostIp' = [hostIp EXCEPT ![p] = NoIp]
  /\ ifIndex' = [ifIndex EXCEPT ![p] = FALSE]

\* A new process calls RawSocket::CreateOrDie and socket() succeeds.
CreateOrDie(p) == up' = [up EXCEPT ![p] = TRUE] /\ Fresh(p)

\* The process is gone, and its socket and its static variables with it.
CloseSocket(p) == up' = [up EXCEPT ![p] = FALSE] /\ Fresh(p)

\* What GetHostIpAddress returns when it succeeds: the first address it saw.
HostIp(p) == IF hostIp[p] # NoIp THEN hostIp[p] ELSE ifIp[HostOf[p]]

\* It can fail only while nothing is cached.
GetHostIpFails(p) == IoError /\ hostIp[p] = NoIp

CacheHostIp(p) == hostIp' = [hostIp EXCEPT ![p] = HostIp(p)]

\* GetHostMacAddress never sets its `cached', so every call asks the kernel.
HostMac(p) == ifMac[HostOf[p]]

GetHostMacFails(p) == IoError

\* The index of eth0 is cached too, so this can fail only the first time.
GetInterfaceIndexFails(p) == IoError /\ ~ifIndex[p]

MakeSockAddrFails(p) == GetInterfaceIndexFails(p)

\* SendTo: "sent" once sendto() took the frame, "-1" when it did not, "-123"
\* when the interface index is unknown and cannot be had.  `in' is the state of
\* the queues before the call.
SendTo(p, in, f, result) ==
  \/ /\ result = "sent"
     /\ \E H \in Arrivals(HostOf[p], f) :
          q' = Deliver(in, f, {s \in Procs \ {p} : up[s] /\ HostOf[s] \in H})
     /\ ifIndex' = [ifIndex EXCEPT ![p] = TRUE]
  \/ /\ result = "-1" /\ IoError
     /\ q' = in
     /\ ifIndex' = [ifIndex EXCEPT ![p] = TRUE]
  \/ /\ result = "-123" /\ MakeSockAddrFails(p)
     /\ q' = in
     /\ UNCHANGED ifIndex

-----------------------------------------------------------------------------
(* Ethernet *)

\* SendEthernetFrame compares the result of SendTo with -1 and nothing else.
SendEthernetFrame(p, in, dst, payload, status) ==
  \E result \in {"sent", "-1", "-123"} :
    /\ SendTo(p, in, [dst |-> dst, fcs |-> TRUE, payload |-> payload], result)
    /\ status = IF result = "-1" THEN "error" ELSE "ok"

Received(p) == Head(q[p])

\* The queues once p has taken that frame.
Drained(p) == [q EXCEPT ![p] = Tail(@)]

RecvEthernetFrame_NoCrc(p, status) == q[p] # <<>> /\ status = "ok"

\* RecvEthernetFrame gets Received(p); it blocks while the queue is empty.
RecvEthernetFrame(p, status) ==
  q[p] # <<>> /\ status = IF Received(p).fcs THEN "ok" ELSE "error"

\* recvfrom() returns -1.
RecvFails(p) == IoError

=============================================================================
