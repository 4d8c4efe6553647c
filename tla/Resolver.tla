------------------------------ MODULE Resolver ------------------------------
(***************************************************************************)
(* What arping promises, without frames, queues, files and processes: each *)
(* host has a table of bindings that outlives the runs of the program.     *)
(* The table gains one binding at a time, of addresses that some host has  *)
(* had, and keeps the others; at worst it is forgotten as a whole.         *)
(***************************************************************************)
CONSTANTS Hosts, Ips, Macs, NoMac

VARIABLES
  heldIp, heldMac,   \* [Hosts -> set]: the addresses each host has had
  table              \* [Hosts -> [Ips -> Macs or NoMac]]

resolverVars == <<heldIp, heldMac, table>>

Blank == [ip \in Ips |-> NoMac]

ResolverInit == table = [h \in Hosts |-> Blank]

LearnBinding(h, ip, mac) ==
  /\ \E g \in Hosts : ip \in heldIp[g] /\ mac \in heldMac[g]
  /\ table' = [table EXCEPT ![h][ip] = mac]
  /\ UNCHANGED <<heldIp, heldMac>>

Forget(h) ==
  /\ table' = [table EXCEPT ![h] = Blank]
  /\ UNCHANGED <<heldIp, heldMac>>

GainAddress ==
  /\ \A h \in Hosts : heldIp[h] \subseteq heldIp'[h] /\ heldMac[h] \subseteq heldMac'[h]
  /\ UNCHANGED table

ResolverNext ==
  \/ GainAddress
  \/ \E h \in Hosts : Forget(h)
  \/ \E h \in Hosts, ip \in Ips, mac \in Macs : LearnBinding(h, ip, mac)

ResolverSpec == ResolverInit /\ [][ResolverNext]_resolverVars

=============================================================================
