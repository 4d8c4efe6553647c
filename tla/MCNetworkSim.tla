---------------------------- MODULE MCNetworkSim ----------------------------
(* Two hosts, as in arp_test.cc. *)
EXTENDS NetworkSim

MCData == {<<1>>, <<2, 3>>}

=============================================================================
