------------------------------ MODULE MCTools -------------------------------
(* A server on h2, clients on both hosts, and a monitor, either of the two,  *)
(* on h1, whose eth0 has kClientMac.  Other stacks send an echo request       *)
(* (ICMP), an IGMP report, and something short with the EtherType of ARP.     *)
EXTENDS Tools, TLC

CONSTANTS h1, h2, s, c1, c2, m

MCHostOf == [p \in Procs |-> (s :> h2 @@ c1 :> h1 @@ c2 :> h2 @@ m :> h1)[p]]

Other(type, protocol, full) ==
  [to |-> "all", type |-> type, protocol |-> protocol, full |-> full,
   fcs |-> FALSE, payload |-> "other"]

MCStray == {Other("IP", 1, TRUE), Other("IP", 2, FALSE), Other("ARP", 66, FALSE)}

=============================================================================
