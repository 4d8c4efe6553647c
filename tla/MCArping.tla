------------------------------ MODULE MCArping ------------------------------
(* Instances of Arping for TLC: hosts h1, h2, ... with addresses i1/m1, ... *)
EXTENDS Arping, TLC

CONSTANTS h1, h2, h3, s1, s2, s3, c1, c2, i1, i2, i3, m1, m2, m3

Placement ==
  s1 :> h1 @@ s2 :> h2 @@ s3 :> h3 @@ c1 :> h1 @@ c2 :> h2

MCHostOf == [p \in Procs |-> Placement[p]]
MCIfIp == [h \in Hosts |-> (h1 :> i1 @@ h2 :> i2 @@ h3 :> i3)[h]]
MCIfMac == [h \in Hosts |-> (h1 :> m1 @@ h2 :> m2 @@ h3 :> m3)[h]]

Echo == [op |-> "other"]
MCOther == {Echo}

\* A damaged response that binds i1 to m2, and an intact frame of eth_echo.
Damaged ==
  [dst |-> m1, fcs |-> FALSE,
   payload |-> [op |-> "response", sha |-> m2, spa |-> i1, tha |-> m1, tpa |-> i1]]
MCStray == {Damaged, [dst |-> kBroadcastMac, fcs |-> TRUE, payload |-> Echo]}

=============================================================================
