------------------------------ MODULE MCTunnel ------------------------------
(* Packets of one and two bytes that look like parts of a length; a frame of  *)
(* either does not fit in the connection.                                     *)
EXTENDS Tunnel

MCPackets == {<<1>>, <<0, 2>>}

=============================================================================
