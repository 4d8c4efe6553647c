--------------------------------- MODULE Ip ---------------------------------
(***************************************************************************)
(* The IP layer (ip.h, ip.cc) over ARP and Ethernet: the routing table and *)
(* the parts of SendDatagram and RecvDatagram.  SendDatagram calls         *)
(* arp::GetMac, which may wait for a response; the program (Ping) puts the *)
(* parts in sequence.                                                      *)
(*                                                                         *)
(* The programs read the routing table file and never write it, so it is a *)
(* constant here.  The header fields other than the addresses play no part *)
(* (for the checksum see Checksum).                                        *)
(***************************************************************************)
EXTENDS Arp

CONSTANTS
  kDefaultDst,     \* 0.0.0.0
  RoutingFile      \* the file --routing_table names, on each host

Destinations == Ips \cup {kDefaultDst}

RoutingTable == [Destinations -> Ips \cup {NoIp}]

\* What MakeDatagram builds, as far as anything depends on it.
MakeDatagram(src, dst) == [op |-> "other", src |-> src, dst |-> dst]

ASSUME IpAssumption ==
  /\ kDefaultDst \notin Ips \cup {NoIp}
  /\ RoutingFile \in [Hosts -> RoutingTable]
  /\ \A src, dst \in Ips : MakeDatagram(src, dst) \in OtherPayloads

VARIABLES
  routes,      \* [Procs -> RoutingTable]: g_routing_table
  datagrams    \* history: where each was sent from, for, and to

ipVars == <<routes, datagrams>>

NoRoutes == [d \in Destinations |-> NoIp]

IpTypeOK ==
  /\ routes \in [Procs -> RoutingTable]
  /\ datagrams \subseteq [host : Hosts, dst : Ips, mac : Macs]

IpInit == routes = [p \in Procs |-> NoRoutes] /\ datagrams = {}

\* A new process starts with an empty table.
FreshRoutes(p) == routes' = [routes EXCEPT ![p] = NoRoutes] /\ UNCHANGED datagrams

\* Loading the table again would change nothing: `loaded' only saves time.
MaybeLoadRoutingTable(p) == routes' = [routes EXCEPT ![p] = RoutingFile[HostOf[p]]]

\* GetHostMacAndIp asks for the IP address first.
GetHostMacAndIp(p, status) ==
  \/ status = "error" /\ GetHostIpFails(p) /\ UNCHANGED hostIp
  \/ status = "error" /\ GetHostMacFails(p) /\ CacheHostIp(p)
  \/ status = "ok" /\ CacheHostIp(p)

\* SendDatagram as far as the routing decision; status "error" is the .value()
\* of an error, which ends the process.
StartDatagram(p, status) ==
  /\ MaybeLoadRoutingTable(p)
  /\ GetHostMacAndIp(p, status)
  /\ UNCHANGED <<ifVars, up, q, ifIndex, arpVars, datagrams>>

RoutedDst_NoDefault(table, dst) == IF table[dst] # NoIp THEN table[dst] ELSE dst

\* routed_dst: the default route comes first.
RoutedDst(table, dst) ==
  IF table[kDefaultDst] # NoIp THEN table[kDefaultDst]
  ELSE IF table[dst] # NoIp THEN table[dst] ELSE dst

\* The rest of SendDatagram, once GetMac has returned dst_mac.
FinishDatagram(p, dst, dst_mac, status) ==
  /\ SendEthernetFrame(p, q, dst_mac, MakeDatagram(hostIp[p], dst), status)
  /\ datagrams' = datagrams \cup {[host |-> HostOf[p], dst |-> dst, mac |-> dst_mac]}
  /\ UNCHANGED <<ifVars, up, hostIp, arpVars, routes>>

\* RecvDatagram looks at nothing but the CRC.
RecvDatagram(p, status) ==
  /\ \/ status = "error" /\ RecvFails(p) /\ UNCHANGED q
     \/ RecvEthernetFrame(p, status) /\ q' = Drained(p)
  /\ UNCHANGED <<ifVars, up, hostIp, ifIndex, arpVars, ipVars>>

=============================================================================
