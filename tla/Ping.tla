-------------------------------- MODULE Ping --------------------------------
(***************************************************************************)
(* The ping program (ping.cc, and GetMac of arp.cc) on a link where other  *)
(* hosts run arping --server.  The replies to its echo requests come from  *)
(* kernels, which append no software CRC: they are among the Stray frames. *)
(***************************************************************************)
EXTENDS Ip

CONSTANTS
  Servers, Pingers,   \* processes running arping --server, and ping
  Targets,            \* [Pingers -> set of addresses --ip may give]
  NumRequests         \* --num_requests

\* One ping per host at a time: each cache file has a single writer.
ASSUME PingAssumption ==
  /\ Servers \cup Pingers = Procs /\ Servers \cap Pingers = {}
  /\ NumRequests \in Nat /\ Targets \in [Pingers -> SUBSET Ips]
  /\ \A c, d \in Pingers : HostOf[c] = HostOf[d] => c = d

VARIABLES
  pc,        \* [Procs -> where the process is]
  target,    \* [Procs -> the address --ip gives]
  round,     \* [Procs -> i of the loop in Main]
  dstMac,    \* [Procs -> what GetMac returned in this round]
  ret        \* [Procs -> how the last Main() ended]

progVars == <<pc, target, round, dstMac, ret>>
vars == <<linkVars, arpVars, ipVars, progVars>>

States ==
  {"off", "serve", "start", "load", "request", "response", "save", "send", "receive", "done"}

\* Every variable has its type, and GetMac has returned before a datagram is sent.
TypeOK ==
  /\ LinkTypeOK /\ ArpTypeOK /\ IpTypeOK
  /\ pc \in [Procs -> States]
  /\ \A p \in Procs : up[p] <=> pc[p] # "off"
  /\ target \in [Procs -> Ips \cup {NoIp}]
  /\ round \in [Procs -> 0..NumRequests]
  /\ dstMac \in [Procs -> Macs \cup {NoMac}]
  /\ \A p \in Procs : pc[p] = "send" => dstMac[p] \in Macs /\ hostIp[p] \in Ips
  /\ ret \in [Procs -> {"none", "0", "1", "abort"}]

Init ==
  /\ LinkInit(Servers) /\ ArpInit /\ IpInit
  /\ pc = [p \in Procs |-> IF p \in Servers THEN "serve" ELSE "off"]
  /\ target = [p \in Procs |-> NoIp]
  /\ round = [p \in Procs |-> 0]
  /\ dstMac = [p \in Procs |-> NoMac]
  /\ ret = [p \in Procs |-> "none"]

-----------------------------------------------------------------------------

Goto(p, l) == pc' = [pc EXCEPT ![p] = l]

\* The loop test of Main: another Ping, or return 0.
Iterate(p, i) ==
  /\ round' = [round EXCEPT ![p] = i]
  /\ Goto(p, IF i < NumRequests THEN "start" ELSE "done")
  /\ ret' = [ret EXCEPT ![p] = IF i < NumRequests THEN "none" ELSE "0"]

Fail(p, how) ==
  /\ Goto(p, "done")
  /\ ret' = [ret EXCEPT ![p] = how]
  /\ UNCHANGED round

Start(p) ==
  /\ p \in Pingers /\ pc[p] = "off"
  /\ CreateOrDie(p) /\ FreshStatics(p) /\ FreshRoutes(p)
  /\ \E ip \in Targets[p] : target' = [target EXCEPT ![p] = ip]
  /\ dstMac' = [dstMac EXCEPT ![p] = NoMac]
  /\ Iterate(p, 0)
  /\ UNCHANGED ifVars

\* Ping and the beginning of SendDatagram.
StartPing(p) ==
  /\ pc[p] = "start"
  /\ \/ StartDatagram(p, "ok") /\ Goto(p, "load") /\ UNCHANGED <<round, ret>>
     \/ StartDatagram(p, "error") /\ Fail(p, "abort")
  /\ UNCHANGED <<target, dstMac>>

\* MaybeLoadArpCache, at the beginning of Request.
LoadCache(p) ==
  /\ pc[p] = "load"
  /\ \/ MaybeLoadArpCache(p)
     \/ loaded[p] /\ UNCHANGED <<linkVars, arpVars>>
  /\ Goto(p, "request")
  /\ UNCHANGED <<ipVars, target, round, dstMac, ret>>

\* GetMac as far as the call of HandleResponse.
GetMac_Request(p) ==
  LET ip == RoutedDst(routes[p], target[p])
  IN  /\ pc[p] = "request"
      /\ \/ /\ Request(p, ip, "exists")
            /\ dstMac' = [dstMac EXCEPT ![p] = cache[p][ip]]
            /\ Goto(p, "send")
            /\ UNCHANGED <<round, ret>>
         \/ Request(p, ip, "error") /\ Fail(p, "1") /\ UNCHANGED dstMac
         \/ Request(p, ip, "ok") /\ Goto(p, "response") /\ UNCHANGED <<round, dstMac, ret>>
      /\ UNCHANGED <<ipVars, target>>

GetMac_Response(p) ==
  /\ pc[p] = "response"
  /\ \/ HandleResponse(p, "error") /\ Fail(p, "1") /\ UNCHANGED dstMac
     \/ /\ HandleResponse(p, "ok")
        /\ dstMac' = [dstMac EXCEPT ![p] = Received(p).payload.sha]
        /\ Goto(p, "save")
        /\ UNCHANGED <<round, ret>>
  /\ UNCHANGED <<ipVars, target>>

SaveCache(p) ==
  /\ pc[p] = "save"
  /\ SerializeArpCache(p)
  /\ Goto(p, "send")
  /\ UNCHANGED <<ipVars, target, round, dstMac, ret>>

SendEcho(p) ==
  /\ pc[p] = "send"
  /\ \/ FinishDatagram(p, target[p], dstMac[p], "ok") /\ Goto(p, "receive") /\ UNCHANGED <<round, ret>>
     \/ FinishDatagram(p, target[p], dstMac[p], "error") /\ Fail(p, "1")
  /\ UNCHANGED <<target, dstMac>>

\* Whatever RecvDatagram returns counts as the reply.
RecvReply(p) ==
  /\ pc[p] = "receive"
  /\ \/ RecvDatagram(p, "ok") /\ Iterate(p, round[p] + 1)
     \/ RecvDatagram(p, "error") /\ Fail(p, "1")
  /\ UNCHANGED <<target, dstMac>>

ServeRequest(p) ==
  /\ pc[p] = "serve"
  /\ HandleRequest(p)
  /\ UNCHANGED <<ipVars, progVars>>

\* A ping ends: by returning from main, or killed wherever it is.
Exit(p) ==
  /\ p \in Pingers /\ pc[p] # "off"
  /\ pc[p] = "done" \/ "crash" \in Faults
  /\ CloseSocket(p) /\ FreshStatics(p) /\ FreshRoutes(p)
  /\ Goto(p, "off")
  /\ UNCHANGED <<ifVars, target, round, dstMac, ret>>

Next ==
  \/ \E p \in Procs :
       \/ Start(p) \/ StartPing(p) \/ LoadCache(p) \/ GetMac_Request(p) \/ GetMac_Response(p)
       \/ SaveCache(p) \/ SendEcho(p) \/ RecvReply(p) \/ ServeRequest(p) \/ Exit(p)
  \/ \E h \in Hosts : StrayArrives(h) /\ UNCHANGED <<arpVars, ipVars, progVars>>

Spec == Init /\ [][Next]_vars

-----------------------------------------------------------------------------
(* Properties *)

\* On a host with a default route every datagram goes to the gateway of that
\* route, although GetMac takes any response for the one it asked for: after
\* kills, restarts with other targets, late replies, failed calls and frames of
\* others too, as long as all hosts that ask by ARP have that gateway.
GatewayUsed ==
  \A d \in datagrams :
    LET gateway == RoutingFile[d.host][kDefaultDst]
    IN  gateway # NoIp => Owned(gateway, d.mac)

\* A datagram for a destination that the routing table lists goes to the gateway
\* listed for it: the entry for 0.0.0.0 is the default, for the others.
ListedRouteUsed ==
  \A d \in datagrams :
    LET gateway == RoutingFile[d.host][d.dst]
    IN  gateway # NoIp => Owned(gateway, d.mac)

=============================================================================
