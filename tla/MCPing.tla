------------------------------- MODULE MCPing -------------------------------
(* h1 pings; h2 and h3 run servers.  i4 is an address beyond the link.       *)
EXTENDS Ping, TLC

CONSTANTS h1, h2, h3, s2, s3, p1, i1, i2, i3, i4, m1, m2, m3

MCHostOf == [p \in Procs |-> (s2 :> h2 @@ s3 :> h3 @@ p1 :> h1)[p]]
MCIfIp == [h \in Hosts |-> (h1 :> i1 @@ h2 :> i2 @@ h3 :> i3)[h]]
MCIfMac == [h \in Hosts |-> (h1 :> m1 @@ h2 :> m2 @@ h3 :> m3)[h]]

MCTargets == [p \in Pingers |-> {i3, i4}]

Table(m) == [d \in Destinations |-> IF d \in DOMAIN m THEN m[d] ELSE NoIp]

\* h1 routes everything through i2 ...
DefaultFile == [h \in Hosts |-> IF h = h1 THEN Table(kDefaultDst :> i2) ELSE NoRoutes]

\* ... or i4 through i3 and everything else through i2.
ListedFile ==
  [h \in Hosts |-> IF h = h1 THEN Table(kDefaultDst :> i2 @@ i4 :> i3) ELSE NoRoutes]

MCOther == {MakeDatagram(src, dst) : src \in Ips, dst \in Ips}

\* A kernel's reply to an echo request, and an intact datagram for h1.
MCStray ==
  {[dst |-> m1, fcs |-> b, payload |-> MakeDatagram(i4, i1)] : b \in BOOLEAN}

=============================================================================
