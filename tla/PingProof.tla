----------------------------- MODULE PingProof ------------------------------
(***************************************************************************)
(* Ping, for any number of hosts, servers and pings, any queue length, any *)
(* routing tables and any combination of faults: type correctness, what    *)
(* the caches hold, and where the datagrams go.                            *)
(***************************************************************************)
EXTENDS Ping, ArpProof

USE LinkAssumption, PingAssumption

Running == {"start", "load", "request", "response", "save", "send", "receive"}

\* Where a process can be, and what a ping has at hand there: its target, the
\* address cached by GetHostMacAndIp, the routing table, what GetMac returned.
Control ==
  /\ \A s \in Servers : pc[s] \in {"off", "serve"}
  /\ \A p \in Pingers :
       /\ pc[p] # "serve"
       /\ pc[p] \in Running => round[p] < NumRequests /\ target[p] \in Ips
       /\ pc[p] \in Running \ {"start"} => /\ hostIp[p] \in Ips
                                           /\ routes[p] = RoutingFile[HostOf[p]]
       /\ pc[p] \in {"save", "send"} => dstMac[p] \in Macs

TypeInv == TypeOK /\ Control

\* The type of the variables that Link, Arp and Ip do not have.
ProgTypeOK ==
  /\ pc \in [Procs -> States]
  /\ \A p \in Procs : up[p] <=> pc[p] # "off"
  /\ target \in [Procs -> Ips \cup {NoIp}]
  /\ round \in [Procs -> 0..NumRequests]
  /\ dstMac \in [Procs -> Macs \cup {NoMac}]
  /\ ret \in [Procs -> {"none", "0", "1", "abort"}]

LEMMA TypeParts ==
  TypeInv <=> LinkTypeOK /\ ArpTypeOK /\ IpTypeOK /\ ProgTypeOK /\ Control
BY Zenon DEF TypeInv, TypeOK, ProgTypeOK, Control, Running, States

LEMMA TypeInit == Init => TypeInv
<1> SUFFICES ASSUME Init PROVE TypeInv
  OBVIOUS
<1>1. LinkTypeOK
  BY DEF Init, LinkInit, LinkTypeOK
<1>2. ArpTypeOK
  BY DEF Init, ArpInit, ArpTypeOK, Map, EmptyMap
<1>3. IpTypeOK
  BY DEF Init, IpInit, IpTypeOK, NoRoutes, RoutingTable
<1>4. \A p \in Procs : pc[p] = IF p \in Servers THEN "serve" ELSE "off"
  BY DEF Init
<1>5. \A p \in Procs : up[p] <=> pc[p] # "off"
  BY <1>4, Zenon DEF Init, LinkInit
<1>6. ProgTypeOK
  BY <1>5 DEF Init, ProgTypeOK, States
<1>7. Control
  BY <1>4 DEF Control, Running
<1> QED BY <1>1, <1>2, <1>3, <1>6, <1>7, TypeParts

\* Request returns AlreadyExists only for an address in the cache.
LEMMA RequestExists ==
  ASSUME NEW p, NEW ip, Request(p, ip, "exists")
  PROVE  cache[p][ip] # NoMac
<1>1. ~SendEthernetFrame(p, q, kBroadcastMac,
                         [op |-> "request", sha |-> HostMac(p), spa |-> HostIp(p),
                          tha |-> kBroadcastMac, tpa |-> ip], "exists")
  BY DEF SendEthernetFrame
<1> QED BY <1>1, Zenon DEF Request

\* The next hop is an address whatever the table holds.
LEMMA RoutedType ==
  ASSUME NEW t \in RoutingTable, NEW dst \in Ips
  PROVE  RoutedDst(t, dst) \in Ips
BY DEF RoutedDst, RoutingTable, Destinations

LEMMA FinishType ==
  ASSUME LinkTypeOK, NEW p \in Procs, hostIp[p] \in Ips, NEW dst \in Ips, NEW m \in Macs,
         NEW st, FinishDatagram(p, dst, m, st)
  PROVE  LinkTypeOK'
<1>1. MakeDatagram(hostIp[p], dst) \in Packet \cup OtherPayloads
  BY IpAssumption
<1>2. Queues(q)
  BY DEF LinkTypeOK, Queues
<1>3. SendEthernetFrame(p, q, m, MakeDatagram(hostIp[p], dst), st)
  BY DEF FinishDatagram
<1>4. Queues(q') /\ ifIndex' \in [Procs -> BOOLEAN]
  BY <1>1, <1>2, <1>3, SendType
<1> QED BY <1>4 DEF FinishDatagram, LinkTypeOK, Queues, ifVars

LEMMA RecvType ==
  ASSUME LinkTypeOK, NEW p \in Procs, NEW st, RecvDatagram(p, st)
  PROVE  LinkTypeOK'
<1>1. CASE UNCHANGED q
  BY <1>1 DEF RecvDatagram, LinkTypeOK, ifVars
<1>2. CASE q[p] # <<>> /\ q' = Drained(p)
  <2>1. Queues(q')
    BY <1>2, DrainedType
  <2> QED BY <2>1 DEF RecvDatagram, LinkTypeOK, ifVars, Queues
<1> QED BY <1>1, <1>2 DEF RecvDatagram, RecvEthernetFrame

LEMMA TypeStep == TypeInv /\ [Next]_vars => TypeInv'
<1> SUFFICES ASSUME TypeInv, [Next]_vars PROVE TypeInv'
  OBVIOUS
<1>0. LinkTypeOK /\ ArpTypeOK /\ IpTypeOK /\ ProgTypeOK /\ Control
  BY TypeParts, Zenon
<1> DEFINE Goal == LinkTypeOK' /\ ArpTypeOK' /\ IpTypeOK' /\ ProgTypeOK' /\ Control'
<1> SUFFICES Goal
  BY DEF TypeInv, TypeOK, ProgTypeOK, Control, Running, States
<1>1. ASSUME NEW p \in Procs, Start(p) PROVE Goal
  <2>1. LinkTypeOK' /\ ArpTypeOK'
    BY <1>0, <1>1, FreshType DEF Start
  <2>2. IpTypeOK'
    BY <1>0, <1>1 DEF Start, FreshRoutes, IpTypeOK, NoRoutes, RoutingTable
  <2>3. ProgTypeOK'
    BY <1>0, <1>1, SMTT(20) DEF Start, CreateOrDie, Iterate, Goto, ProgTypeOK, LinkTypeOK, States
  <2>4. Control'
    BY <1>0, <1>1 DEF Start, CreateOrDie, Fresh, FreshRoutes, Iterate, Goto, ProgTypeOK,
                      LinkTypeOK, IpTypeOK, Control, Running
  <2> QED BY <2>1, <2>2, <2>3, <2>4
<1>2. ASSUME NEW p \in Procs, StartPing(p) PROVE Goal
  <2>0. HostIp(p) \in Ips /\ RoutingFile[HostOf[p]] \in RoutingTable /\ p \in Pingers
    <3>1. HostIp(p) \in Ips
      BY <1>0 DEF HostIp, LinkTypeOK
    <3>2. RoutingFile[HostOf[p]] \in RoutingTable
      BY IpAssumption
    <3>3. p \in Pingers
      BY <1>0, <1>2, Zenon DEF StartPing, Control
    <3> QED BY <3>1, <3>2, <3>3, Zenon
  <2>1. hostIp' \in [Procs -> Ips \cup {NoIp}]
    <3>1. hostIp' = hostIp \/ hostIp' = [hostIp EXCEPT ![p] = HostIp(p)]
      BY <1>2, Zenon DEF StartPing, StartDatagram, GetHostMacAndIp, CacheHostIp
    <3>2. hostIp \in [Procs -> Ips \cup {NoIp}]
      BY <1>0, Zenon DEF LinkTypeOK
    <3> QED BY <2>0, <3>1, <3>2, Zenon
  <2>6. /\ UNCHANGED <<ifVars, up, q, ifIndex, arpVars, datagrams>>
        /\ routes' = [routes EXCEPT ![p] = RoutingFile[HostOf[p]]]
    BY <1>2, Zenon DEF StartPing, StartDatagram, MaybeLoadRoutingTable
  <2>2. LinkTypeOK' /\ ArpTypeOK' /\ IpTypeOK'
    BY <1>0, <2>0, <2>1, <2>6, Zenon DEF LinkTypeOK, ArpTypeOK, IpTypeOK, ifVars, arpVars
  <2>3. ProgTypeOK'
    BY <1>0, <1>2, <2>6 DEF StartPing, Fail, Goto, ProgTypeOK, States
  <2>4. CASE StartDatagram(p, "ok") /\ Goto(p, "load") /\ UNCHANGED <<round, ret>>
    <3>1. hostIp' = [hostIp EXCEPT ![p] = HostIp(p)]
      BY <2>4, Zenon DEF StartDatagram, GetHostMacAndIp, CacheHostIp
    <3>2. routes' = [routes EXCEPT ![p] = RoutingFile[HostOf[p]]]
      BY <2>4, Zenon DEF StartDatagram, MaybeLoadRoutingTable
    <3>3. Control'
      BY <1>0, <1>2, <2>0, <2>4, <3>1, <3>2, Zenon
         DEF StartPing, Goto, ProgTypeOK, LinkTypeOK, IpTypeOK, Control, Running
    <3> QED BY <2>2, <2>3, <3>3, Zenon
  <2>5. CASE StartDatagram(p, "error") /\ Fail(p, "abort")
    <3>1. \A s \in Procs : s # p => hostIp'[s] = hostIp[s] /\ routes'[s] = routes[s]
      BY <1>0, <2>5, Zenon DEF StartDatagram, GetHostMacAndIp, CacheHostIp, MaybeLoadRoutingTable,
                        LinkTypeOK, IpTypeOK
    <3>2. Control'
      BY <1>0, <1>2, <2>0, <2>5, <3>1 DEF StartPing, Fail, Goto, ProgTypeOK, Control, Running
    <3> QED BY <2>2, <2>3, <3>2, Zenon
  <2> QED BY <1>2, <2>4, <2>5, Zenon DEF StartPing
<1>3. ASSUME NEW p \in Procs, LoadCache(p) PROVE Goal
  <2>1. LinkTypeOK' /\ ArpTypeOK' /\ UNCHANGED <<up, hostIp>>
    <3>1. CASE MaybeLoadArpCache(p)
      BY <1>0, <3>1, LoadType, Zenon DEF MaybeLoadArpCache, linkVars, sockVars
    <3>2. CASE UNCHANGED <<linkVars, arpVars>>
      BY <1>0, <3>2, Zenon DEF linkVars, ifVars, sockVars, arpVars, LinkTypeOK, ArpTypeOK
    <3> QED BY <1>3, <3>1, <3>2, Zenon DEF LoadCache
  <2>2. IpTypeOK' /\ ProgTypeOK'
    BY <1>0, <1>3, <2>1, Zenon DEF LoadCache, Goto, IpTypeOK, ipVars, ProgTypeOK, States
  <2>3. Control'
    BY <1>0, <1>3, <2>1, Zenon DEF LoadCache, Goto, ipVars, ProgTypeOK, Control, Running
  <2> QED BY <2>1, <2>2, <2>3, Zenon
<1>4. ASSUME NEW p \in Procs, GetMac_Request(p) PROVE Goal
  <2> DEFINE ip == RoutedDst(routes[p], target[p])
  <2>0. p \in Pingers /\ target[p] \in Ips /\ routes[p] \in RoutingTable /\ hostIp[p] \in Ips
    BY <1>0, <1>4, Zenon DEF GetMac_Request, Control, Running, IpTypeOK
  <2>1. ip \in Ips
    BY <2>0, RoutedType, Zenon
  <2> HIDE DEF ip
  <2>2. PICK st : Request(p, ip, st)
    BY <1>4, Zenon DEF GetMac_Request, ip
  <2>3. LinkTypeOK' /\ ArpTypeOK' /\ UNCHANGED <<up, hostIp>>
    <3>1. hostIp' = hostIp \/ hostIp' = [hostIp EXCEPT ![p] = HostIp(p)]
      BY <2>2, Zenon DEF Request, sockVars, CacheHostIp
    <3>2. HostIp(p) = hostIp[p]
      BY <2>0, Zenon DEF HostIp
    <3>3. UNCHANGED hostIp
      BY <1>0, <3>1, <3>2 DEF LinkTypeOK
    <3> QED BY <1>0, <2>1, <2>2, <3>3, RequestType, Zenon DEF Request, sockVars
  <2>4. cache[p][ip] \in Macs \cup {NoMac}
    BY <1>0, <2>1 DEF ArpTypeOK, Map
  <2>5. CASE /\ Request(p, ip, "exists") /\ dstMac' = [dstMac EXCEPT ![p] = cache[p][ip]]
             /\ Goto(p, "send") /\ UNCHANGED <<round, ret>>
    <3>1. cache[p][ip] \in Macs
      BY <2>4, <2>5, RequestExists, Zenon
    <3>2. ProgTypeOK' /\ Control'
      BY <1>0, <1>4, <2>0, <2>3, <2>5, <3>1, Zenon
         DEF GetMac_Request, Goto, ipVars, ProgTypeOK, States, Control, Running
    <3>3. IpTypeOK'
      BY <1>0, <1>4, Zenon DEF GetMac_Request, ipVars, IpTypeOK
    <3> QED BY <2>3, <3>2, <3>3, Zenon
  <2>6. CASE /\ Fail(p, "1") \/ (Goto(p, "response") /\ UNCHANGED <<round, ret>>)
             /\ UNCHANGED dstMac
    <3>1. ProgTypeOK' /\ Control'
      BY <1>0, <1>4, <2>0, <2>3, <2>6, SMTT(20)
         DEF GetMac_Request, Goto, Fail, ipVars, ProgTypeOK, States, Control, Running
    <3>2. IpTypeOK'
      BY <1>0, <1>4, Zenon DEF GetMac_Request, ipVars, IpTypeOK
    <3> QED BY <2>3, <3>1, <3>2, Zenon
  <2> QED BY <1>4, <2>5, <2>6, Zenon DEF GetMac_Request, ip
<1>5. ASSUME NEW p \in Procs, GetMac_Response(p) PROVE Goal
  <2>1. LinkTypeOK' /\ ArpTypeOK' /\ UNCHANGED <<up, hostIp>>
    BY <1>0, <1>5, HandleResponseType, Zenon DEF GetMac_Response, HandleResponse
  <2>2. HandleResponse(p, "ok") => Received(p).payload.sha \in Macs
    BY <1>0, HandleResponseType, Zenon DEF Packet
  <2>3. IpTypeOK' /\ ProgTypeOK'
    BY <1>0, <1>5, <2>1, <2>2, SMTT(20)
       DEF GetMac_Response, Goto, Fail, ipVars, IpTypeOK, ProgTypeOK, States
  <2>4. Control'
    BY <1>0, <1>5, <2>1, <2>2
       DEF GetMac_Response, Goto, Fail, ipVars, ProgTypeOK, Control, Running
  <2> QED BY <2>1, <2>3, <2>4, Zenon
<1>6. ASSUME NEW p \in Procs, SaveCache(p) PROVE Goal
  <2>1. LinkTypeOK' /\ ArpTypeOK' /\ UNCHANGED <<up, hostIp>>
    BY <1>0, <1>6, SaveType, Zenon DEF SaveCache, SerializeArpCache, linkVars, sockVars
  <2>2. IpTypeOK' /\ ProgTypeOK'
    BY <1>0, <1>6, <2>1, Zenon DEF SaveCache, Goto, ipVars, IpTypeOK, ProgTypeOK, States
  <2>3. Control'
    BY <1>0, <1>6, <2>1, Zenon DEF SaveCache, Goto, ipVars, ProgTypeOK, Control, Running
  <2> QED BY <2>1, <2>2, <2>3, Zenon
<1>7. ASSUME NEW p \in Procs, SendEcho(p) PROVE Goal
  <2>0. p \in Pingers /\ target[p] \in Ips /\ hostIp[p] \in Ips /\ dstMac[p] \in Macs
    BY <1>0, <1>7, Zenon DEF SendEcho, Control, Running
  <2>1. PICK st : FinishDatagram(p, target[p], dstMac[p], st)
    BY <1>7, Zenon DEF SendEcho
  <2>2. LinkTypeOK' /\ UNCHANGED <<up, hostIp, routes>>
    BY <1>0, <2>0, <2>1, FinishType, Zenon DEF FinishDatagram
  <2>3. ArpTypeOK' /\ IpTypeOK'
    BY <1>0, <2>0, <2>1 DEF FinishDatagram, ArpTypeOK, arpVars, IpTypeOK
  <2>4. ProgTypeOK'
    <3>1. /\ \/ pc' = [pc EXCEPT ![p] = "receive"] /\ UNCHANGED ret
             \/ pc' = [pc EXCEPT ![p] = "done"] /\ ret' = [ret EXCEPT ![p] = "1"]
          /\ UNCHANGED <<target, dstMac, round>>
          /\ pc[p] = "send"
      BY <1>7, Zenon DEF SendEcho, Goto, Fail
    <3> QED BY <1>0, <2>2, <3>1 DEF ProgTypeOK, States
  <2>5. Control'
    BY <1>0, <1>7, <2>0, <2>2 DEF SendEcho, Goto, Fail, ProgTypeOK, Control, Running
  <2> QED BY <2>2, <2>3, <2>4, <2>5, Zenon
<1>8. ASSUME NEW p \in Procs, RecvReply(p) PROVE Goal
  <2>0. p \in Pingers /\ round[p] + 1 \in 0..NumRequests
    BY <1>0, <1>8 DEF RecvReply, Control, Running, ProgTypeOK
  <2>1. PICK st : RecvDatagram(p, st)
    BY <1>8, Zenon DEF RecvReply
  <2>2. LinkTypeOK' /\ UNCHANGED <<up, hostIp, arpVars, ipVars>>
    BY <1>0, <2>1, RecvType, Zenon DEF RecvDatagram
  <2>3. ArpTypeOK' /\ IpTypeOK'
    BY <1>0, <2>2, Zenon DEF ArpTypeOK, arpVars, IpTypeOK, ipVars
  <2>4. ProgTypeOK'
    BY <1>0, <1>8, <2>0, <2>2, SMTT(20) DEF RecvReply, Iterate, Goto, Fail, ProgTypeOK, States
  <2>5. Control'
    BY <1>0, <1>8, <2>0, <2>2
       DEF RecvReply, Iterate, Goto, Fail, ipVars, ProgTypeOK, Control, Running
  <2> QED BY <2>2, <2>3, <2>4, <2>5, Zenon
<1>9. ASSUME NEW p \in Procs, ServeRequest(p) PROVE Goal
  <2>1. LinkTypeOK' /\ ArpTypeOK'
    BY <1>0, <1>9, HandleRequestType, Zenon DEF ServeRequest
  <2>2. p \in Servers /\ UNCHANGED up
    BY <1>0, <1>9, Zenon DEF ServeRequest, HandleRequest, Control
  <2>3. \A s \in Procs : s # p => hostIp'[s] = hostIp[s]
    BY <1>0, <1>9, Zenon DEF ServeRequest, HandleRequest, CacheHostIp, LinkTypeOK
  <2>4. IpTypeOK' /\ ProgTypeOK'
    BY <1>0, <1>9, <2>2, Zenon DEF ServeRequest, ipVars, progVars, IpTypeOK, ProgTypeOK
  <2>5. Control'
    BY <1>0, <1>9, <2>2, <2>3, Zenon DEF ServeRequest, ipVars, progVars, Control
  <2> QED BY <2>1, <2>4, <2>5, Zenon
<1>10. ASSUME NEW p \in Procs, Exit(p) PROVE Goal
  <2>1. LinkTypeOK' /\ ArpTypeOK'
    BY <1>0, <1>10, FreshType, Zenon DEF Exit
  <2>2. IpTypeOK'
    BY <1>0, <1>10, Zenon DEF Exit, FreshRoutes, IpTypeOK, NoRoutes, RoutingTable
  <2>3. ProgTypeOK'
    BY <1>0, <1>10, Zenon DEF Exit, CloseSocket, Goto, ProgTypeOK, LinkTypeOK, States
  <2>4. Control'
    BY <1>0, <1>10 DEF Exit, CloseSocket, Fresh, FreshRoutes, Goto, ProgTypeOK, LinkTypeOK,
                       IpTypeOK, Control, Running
  <2> QED BY <2>1, <2>2, <2>3, <2>4, Zenon
<1>11. ASSUME NEW h \in Hosts, StrayArrives(h), UNCHANGED <<arpVars, ipVars, progVars>>
       PROVE  Goal
  <2>1. LinkTypeOK' /\ UNCHANGED <<up, hostIp>>
    BY <1>0, <1>11, StrayType, Zenon DEF StrayArrives
  <2> QED BY <1>0, <1>11, <2>1, Zenon
          DEF arpVars, ipVars, progVars, ArpTypeOK, IpTypeOK, ProgTypeOK, Control
<1>12. CASE UNCHANGED vars
  BY <1>0, <1>12, Zenon DEF vars, linkVars, ifVars, sockVars, arpVars, ipVars, progVars,
                     LinkTypeOK, ArpTypeOK, IpTypeOK, ProgTypeOK, Control
<1> QED BY <1>1, <1>2, <1>3, <1>4, <1>5, <1>6, <1>7, <1>8, <1>9, <1>10, <1>11, <1>12, Zenon
        DEF Next

LEMMA TypeInvariant == Spec => []TypeInv
BY TypeInit, TypeStep, PTL DEF Spec

\* Every variable of the stack under ping has its type, and SendDatagram has a
\* source address and a next hop when it sends (TypeOK).
THEOREM PingTypeCorrect == Spec => []TypeOK
<1>1. TypeInv => TypeOK
  BY Zenon DEF TypeInv
<1> QED BY <1>1, TypeInvariant, PTL

-----------------------------------------------------------------------------
(* What the caches of ping hold. *)

LEMMA HistoryGrows == TypeInv /\ [Next]_vars => Grows
<1> SUFFICES ASSUME [Next]_vars PROVE Grows
  OBVIOUS
<1>1. CASE UNCHANGED <<heldIp, heldMac>> /\ asked \subseteq asked'
  BY <1>1, Zenon DEF Grows
<1>2. ASSUME NEW p \in Procs, Start(p) \/ Exit(p) PROVE Grows
  BY <1>1, <1>2 DEF Start, Exit, FreshStatics, ifVars
<1>3. ASSUME NEW p \in Procs, StartPing(p) \/ SendEcho(p) \/ RecvReply(p) PROVE Grows
  BY <1>1, <1>3, Zenon DEF StartPing, SendEcho, RecvReply, StartDatagram, FinishDatagram,
                           RecvDatagram, ifVars, arpVars
<1>4. ASSUME NEW p \in Procs, LoadCache(p) \/ SaveCache(p) \/ ServeRequest(p) PROVE Grows
  BY <1>1, <1>4, Zenon DEF LoadCache, SaveCache, ServeRequest, MaybeLoadArpCache, SerializeArpCache,
                    HandleRequest, linkVars, ifVars, arpVars
<1>5. ASSUME NEW p \in Procs, NEW ip, NEW st, Request(p, ip, st) \/ HandleResponse(p, st)
      PROVE  Grows
  BY <1>1, <1>5, Zenon DEF Request, HandleResponse, ifVars
<1>6. ASSUME NEW p \in Procs, GetMac_Request(p) \/ GetMac_Response(p) PROVE Grows
  BY <1>5, <1>6, Zenon DEF GetMac_Request, GetMac_Response
<1>7. ASSUME NEW h \in Hosts, StrayArrives(h), UNCHANGED arpVars PROVE Grows
  BY <1>1, <1>7 DEF StrayArrives, ifVars, arpVars
<1>8. CASE UNCHANGED vars
  BY <1>1, <1>8 DEF vars, linkVars, ifVars, arpVars
<1> QED BY <1>2, <1>3, <1>4, <1>6, <1>7, <1>8, Zenon DEF Next

LEMMA SafeInit == Init => SafeInv
<1> SUFFICES ASSUME Init PROVE SafeInv
  OBVIOUS
<1>1. Addresses
  BY DEF Init, LinkInit, Addresses
<1>2. \A p \in Procs : Len(q[p]) = 0
  BY DEF Init, LinkInit
<1>3. SoundQueues
  BY <1>2 DEF SoundQueues
<1>4. BindingsOwned
  BY DEF Init, ArpInit, EmptyMap, BindingsOwned
<1> QED BY <1>1, <1>3, <1>4 DEF SafeInv

LEMMA StartDatagramSafe ==
  ASSUME LinkTypeOK, SafeInv, Grows, NEW p \in Procs, NEW st, StartDatagram(p, st)
  PROVE  SafeInv'
<1>1. UNCHANGED <<ifVars, up, q, ifIndex, arpVars>>
  BY DEF StartDatagram
<1>2. CacheHostIp(p) \/ UNCHANGED hostIp
  BY Zenon DEF StartDatagram, GetHostMacAndIp
<1>3. Addresses'
  BY <1>1, <1>2, CacheHostIpSafe DEF SafeInv, Addresses, ifVars
<1>4. \A f : OnlyAdds(q, q', f)
  BY <1>1 DEF OnlyAdds
<1>5. SoundQueues' /\ BindingsOwned'
  BY <1>1, <1>4, QueuesStaySound0, BindingsKept, Zenon DEF SafeInv, arpVars
<1> QED BY <1>3, <1>5 DEF SafeInv

LEMMA FinishDatagramSafe ==
  ASSUME LinkTypeOK, SafeInv, Grows, NEW p \in Procs, hostIp[p] \in Ips, NEW dst \in Ips,
         NEW m \in Macs, NEW st, FinishDatagram(p, dst, m, st)
  PROVE  SafeInv'
<1> DEFINE pk == MakeDatagram(hostIp[p], dst)
           f == [dst |-> m, fcs |-> TRUE, payload |-> pk]
<1>1. pk \in OtherPayloads
  BY IpAssumption
<1>2. SendEthernetFrame(p, q, m, pk, st) /\ UNCHANGED <<ifVars, hostIp, arpVars>>
  BY DEF FinishDatagram
<1> HIDE DEF pk
<1>3. Queues(q)
  BY Zenon DEF LinkTypeOK, Queues
<1>4. OnlyAdds(q, q', f)
  BY <1>1, <1>2, <1>3, SendAdds, Zenon
<1>5. Sound(f, heldIp', heldMac', asked')
  BY <1>1, OtherAssumption DEF Sound
<1> HIDE DEF f
<1>6. SoundQueues' /\ BindingsOwned'
  BY <1>2, <1>4, <1>5, QueuesStaySound, BindingsKept, Zenon DEF SafeInv, arpVars
<1> QED BY <1>2, <1>6 DEF SafeInv, Addresses, ifVars

LEMMA RecvDatagramSafe ==
  ASSUME LinkTypeOK, SafeInv, Grows, NEW p \in Procs, NEW st, RecvDatagram(p, st)
  PROVE  SafeInv'
<1>1. UNCHANGED <<ifVars, hostIp, arpVars>>
  BY DEF RecvDatagram
<1>2. \A f : OnlyAdds(q, q', f)
  <2>1. CASE UNCHANGED q
    BY <2>1 DEF OnlyAdds
  <2>2. CASE q[p] # <<>> /\ q' = Drained(p)
    BY <2>2, DrainedAdds
  <2> QED BY <2>1, <2>2 DEF RecvDatagram, RecvEthernetFrame
<1>3. SoundQueues' /\ BindingsOwned'
  BY <1>1, <1>2, QueuesStaySound0, BindingsKept DEF SafeInv, arpVars
<1> QED BY <1>1, <1>3 DEF SafeInv, Addresses, ifVars

LEMMA SafeStep == TypeInv /\ SafeInv /\ [Next]_vars => SafeInv'
<1> SUFFICES ASSUME TypeInv, SafeInv, [Next]_vars PROVE SafeInv'
  OBVIOUS
<1>0. LinkTypeOK /\ ArpTypeOK /\ IpTypeOK /\ Control /\ Grows
  BY TypeParts, HistoryGrows, Zenon
<1>1. ASSUME NEW p \in Procs, Start(p) \/ Exit(p) PROVE SafeInv'
  BY <1>0, <1>1, FreshSafe, Zenon DEF Start, Exit
<1>2. ASSUME NEW p \in Procs, StartPing(p) PROVE SafeInv'
  BY <1>0, <1>2, StartDatagramSafe DEF StartPing
<1>3. ASSUME UNCHANGED <<linkVars, arpVars>> PROVE SafeInv'
  BY <1>0, <1>3, LinkKept, BindingsKept DEF SafeInv, arpVars
<1>4. ASSUME NEW p \in Procs, LoadCache(p) PROVE SafeInv'
  BY <1>0, <1>3, <1>4, LoadSafe, Zenon DEF LoadCache
<1>5. ASSUME NEW p \in Procs, GetMac_Request(p) PROVE SafeInv'
  <2>1. target[p] \in Ips /\ routes[p] \in RoutingTable
    BY <1>0, <1>5 DEF GetMac_Request, Control, Running, IpTypeOK
  <2>2. RoutedDst(routes[p], target[p]) \in Ips
    BY <2>1, RoutedType
  <2> QED BY <1>0, <1>5, <2>2, RequestSafe, Zenon DEF GetMac_Request
<1>6. ASSUME NEW p \in Procs, GetMac_Response(p) PROVE SafeInv'
  BY <1>0, <1>6, HandleResponseSafe DEF GetMac_Response
<1>7. ASSUME NEW p \in Procs, SaveCache(p) PROVE SafeInv'
  BY <1>0, <1>7, SaveSafe, Zenon DEF SaveCache
<1>8. ASSUME NEW p \in Procs, SendEcho(p) PROVE SafeInv'
  <2>1. target[p] \in Ips /\ hostIp[p] \in Ips /\ dstMac[p] \in Macs
    BY <1>0, <1>8, Zenon DEF SendEcho, Control, Running
  <2> QED BY <1>0, <1>8, <2>1, FinishDatagramSafe, Zenon DEF SendEcho
<1>9. ASSUME NEW p \in Procs, RecvReply(p) PROVE SafeInv'
  BY <1>0, <1>9, RecvDatagramSafe DEF RecvReply
<1>10. ASSUME NEW p \in Procs, ServeRequest(p) PROVE SafeInv'
  BY <1>0, <1>10, HandleRequestSafe DEF ServeRequest
<1>11. ASSUME NEW h \in Hosts, StrayArrives(h), UNCHANGED arpVars PROVE SafeInv'
  BY <1>0, <1>11, StraySafe DEF arpVars
<1>12. CASE UNCHANGED vars
  BY <1>3, <1>12 DEF vars
<1> QED BY <1>1, <1>2, <1>4, <1>5, <1>6, <1>7, <1>8, <1>9, <1>10, <1>11, <1>12 DEF Next

LEMMA SafeInvariant == Spec => []SafeInv
BY SafeInit, SafeStep, TypeInvariant, PTL DEF Spec

\* No cache or cache file that ping uses pairs the addresses of two hosts
\* (BindingsOwned), so a datagram never goes to a host other than one that has
\* held the address GetMac found in the cache.
THEOREM PingBindingsAreOwned == Spec => []BindingsOwned
<1>1. SafeInv => BindingsOwned
  BY DEF SafeInv
<1> QED BY <1>1, SafeInvariant, PTL

-----------------------------------------------------------------------------
(* Where the datagrams go when the hosts have one default gateway *)

\* All hosts that ping have the default route to g.
OneGateway(g) == \A p \in Pingers : RoutingFile[HostOf[p]][kDefaultDst] = g

\* Only g is ever asked for, so only g is bound, and GetMac finds a host that
\* had g whichever response it took.
OnlyBound(g, m) == \A ip \in Ips : m[ip] # NoMac => ip = g

GatewayInv(g) ==
  /\ \A a \in asked : a[3] = g
  /\ \A p \in Procs : OnlyBound(g, cache[p])
  /\ \A h \in Hosts : OnlyBound(g, file[h])
  /\ \A p \in Pingers : pc[p] \in {"save", "send"} => Owned(g, dstMac[p])
  /\ \A d \in datagrams : Owned(g, d.mac) /\ \E p \in Pingers : d.host = HostOf[p]

LEMMA GatewayInit == ASSUME NEW g PROVE Init => GatewayInv(g)
<1> SUFFICES ASSUME Init PROVE GatewayInv(g)
  OBVIOUS
<1>1. \A p \in Pingers : pc[p] = "off"
  BY DEF Init
<1> QED BY <1>1 DEF Init, ArpInit, IpInit, EmptyMap, OnlyBound, GatewayInv

\* The parts of the invariant, one by one.
LEMMA AskedStep ==
  ASSUME NEW g, OneGateway(g), g \in Ips, TypeInv, GatewayInv(g), Next, NEW a \in asked'
  PROVE  a[3] = g
<1>1. CASE a \in asked
  BY <1>1, Zenon DEF GatewayInv
<1>2. CASE a \notin asked
  <2>1. \E p \in Procs : GetMac_Request(p)
    <3>1. ASSUME NEW p \in Procs, Start(p) \/ Exit(p) \/ StartPing(p) \/ SendEcho(p)
          PROVE  UNCHANGED asked
      BY <3>1, Zenon DEF Start, Exit, FreshStatics, StartPing, StartDatagram, SendEcho,
                         FinishDatagram, arpVars
    <3>2. ASSUME NEW p \in Procs, LoadCache(p) \/ GetMac_Response(p) \/ SaveCache(p)
          PROVE  UNCHANGED asked
      BY <3>2, Zenon DEF LoadCache, MaybeLoadArpCache, GetMac_Response, HandleResponse,
                         SaveCache, SerializeArpCache, arpVars
    <3>3. ASSUME NEW p \in Procs, RecvReply(p) \/ ServeRequest(p)
          PROVE  UNCHANGED asked
      BY <3>3, Zenon DEF RecvReply, RecvDatagram, ServeRequest, HandleRequest, arpVars
    <3> QED BY <1>2, <3>1, <3>2, <3>3, Zenon DEF Next, arpVars
  <2> PICK p \in Procs : GetMac_Request(p)
    BY <2>1, Zenon
  <2>2. p \in Pingers /\ routes[p] = RoutingFile[HostOf[p]]
    BY TypeParts, Zenon DEF GetMac_Request, Control, Running
  <2>3. RoutedDst(routes[p], target[p]) = g
    BY <2>2, Zenon DEF RoutedDst, OneGateway
  <2>4. PICK st : Request(p, g, st)
    BY <2>3 DEF GetMac_Request
  <2> QED BY <1>2, <2>4, SMTT(20) DEF Request
<1> QED BY <1>1, <1>2

\* HandleResponse can only have taken a response about g.
LEMMA ResponseIsGateway ==
  ASSUME NEW g, TypeInv, SafeInv, GatewayInv(g), NEW p \in Procs, HandleResponse(p, "ok")
  PROVE  Received(p).payload.spa = g /\ Owned(g, Received(p).payload.sha)
<1> DEFINE r == Received(p).payload
<1>1. q[p] # <<>> /\ Received(p).fcs /\ r.op = "response"
  BY DEF HandleResponse, RecvEthernetFrame
<1>2. LinkTypeOK /\ SoundQueues
  BY TypeParts, Zenon DEF SafeInv
<1>3. Sound(Received(p), heldIp, heldMac, asked)
  BY <1>1, <1>2, ReceivedSound
<1>4. /\ <<r.tha, r.tpa, r.spa>> \in asked
      /\ \E h \in Hosts : r.spa \in heldIp[h] /\ r.sha \in heldMac[h]
  BY <1>1, <1>3, Zenon DEF Sound
<1> HIDE DEF r
<1>5. r.spa = g
  BY <1>4 DEF GatewayInv
<1>6. Owned(g, r.sha)
  BY <1>4, <1>5 DEF Owned
<1> QED BY <1>5, <1>6, Zenon DEF r

LEMMA BindingsStep ==
  ASSUME NEW g, TypeInv, SafeInv, GatewayInv(g), Next
  PROVE  /\ \A p \in Procs : OnlyBound(g, cache'[p])
         /\ \A h \in Hosts : OnlyBound(g, file'[h])
<1> DEFINE Goal == /\ \A p \in Procs : OnlyBound(g, cache'[p])
                   /\ \A h \in Hosts : OnlyBound(g, file'[h])
<1>0. /\ ArpTypeOK /\ OnlyBound(g, EmptyMap)
      /\ \A p \in Procs : OnlyBound(g, cache[p])
      /\ \A h \in Hosts : OnlyBound(g, file[h])
  BY TypeParts DEF GatewayInv, OnlyBound, EmptyMap
<1>1. CASE UNCHANGED <<cache, file>>
  BY <1>0, <1>1
<1>2. ASSUME NEW p \in Procs, FreshStatics(p) PROVE Goal
  BY <1>0, <1>2 DEF FreshStatics, ArpTypeOK
<1>3. ASSUME NEW p \in Procs, MaybeLoadArpCache(p) PROVE Goal
  <2>1. OnlyBound(g, MergeMap(cache[p], file[HostOf[p]]))
    BY <1>0 DEF OnlyBound, MergeMap
  <2> QED BY <1>0, <1>3, <2>1, Zenon DEF MaybeLoadArpCache, ArpTypeOK
<1>4. ASSUME NEW p \in Procs, SerializeArpCache(p) PROVE Goal
  BY <1>0, <1>4, Zenon DEF SerializeArpCache, ArpTypeOK
<1>5. ASSUME NEW p \in Procs, NEW st, HandleResponse(p, st) PROVE Goal
  <2>1. CASE st = "ok"
    <3> DEFINE r == Received(p).payload
    <3>1. r.spa = g
      BY <1>5, <2>1, ResponseIsGateway, Zenon
    <3>2. cache' = Learn(p, r) /\ file' = [file EXCEPT ![HostOf[p]] = EmptyMap]
      BY <1>5, <2>1, Zenon DEF HandleResponse
    <3> HIDE DEF r
    <3>3. \A s \in Procs : OnlyBound(g, cache'[s])
      BY <1>0, <3>1, <3>2, SMTT(20) DEF Learn, OnlyBound, ArpTypeOK, Map
    <3> QED BY <1>0, <3>2, <3>3 DEF ArpTypeOK
  <2>2. CASE st # "ok"
    BY <1>1, <1>5, <2>2 DEF HandleResponse
  <2> QED BY <2>1, <2>2, Zenon
<1>6. ASSUME NEW p \in Procs, Start(p) \/ Exit(p) \/ LoadCache(p) \/ SaveCache(p)
      PROVE  Goal
  BY <1>1, <1>2, <1>3, <1>4, <1>6, Zenon DEF Start, Exit, LoadCache, SaveCache, arpVars
<1>7. ASSUME NEW p \in Procs, GetMac_Response(p) PROVE Goal
  BY <1>5, <1>7, Zenon DEF GetMac_Response
<1>8. ASSUME NEW p \in Procs, \/ StartPing(p) \/ GetMac_Request(p) \/ SendEcho(p)
                              \/ RecvReply(p) \/ ServeRequest(p)
      PROVE  Goal
  BY <1>1, <1>8, Zenon DEF StartPing, StartDatagram, GetMac_Request, Request, SendEcho,
         FinishDatagram, RecvReply, RecvDatagram, ServeRequest, HandleRequest, arpVars
<1> QED BY <1>1, <1>6, <1>7, <1>8, Zenon DEF Next, arpVars

LEMMA NextHopStep ==
  ASSUME NEW g, OneGateway(g), g \in Ips, TypeInv, SafeInv, GatewayInv(g), Next, Grows,
         NEW c \in Pingers, pc'[c] \in {"save", "send"}
  PROVE  Owned(g, dstMac[c])'
<1>0. c \in Procs /\ ProgTypeOK /\ ArpTypeOK /\ Control
  BY TypeParts, Zenon
<1>1. SUFFICES Owned(g, dstMac'[c])
  BY <1>1, Zenon DEF Grows, Owned
<1>2. CASE pc[c] \in {"save", "send"} /\ dstMac'[c] = dstMac[c]
  BY <1>2 DEF GatewayInv
<1>3. CASE pc'[c] = pc[c] /\ dstMac'[c] = dstMac[c]
  BY <1>2, <1>3, Zenon
<1>4. CASE GetMac_Request(c)
  <2>1. RoutedDst(routes[c], target[c]) = g
    <3>1. pc[c] = "request"
      BY <1>4, Zenon DEF GetMac_Request
    <3>2. routes[c] = RoutingFile[HostOf[c]]
      BY <1>0, <3>1 DEF Control, Running
    <3> QED BY <3>2, Zenon DEF RoutedDst, OneGateway
  <2>2. Request(c, g, "exists") /\ dstMac' = [dstMac EXCEPT ![c] = cache[c][g]]
    BY <1>0, <1>4, <2>1, Zenon DEF GetMac_Request, Fail, Goto, ProgTypeOK
  <2>3. dstMac'[c] = cache[c][g] /\ cache[c][g] # NoMac
    BY <1>0, <2>2, RequestExists, Zenon DEF ProgTypeOK
  <2> QED BY <1>0, <2>3, Zenon DEF SafeInv, BindingsOwned
<1>5. CASE GetMac_Response(c)
  <2>1. HandleResponse(c, "ok") /\ dstMac' = [dstMac EXCEPT ![c] = Received(c).payload.sha]
    BY <1>0, <1>5, Zenon DEF GetMac_Response, Fail, Goto, ProgTypeOK
  <2>2. Owned(g, Received(c).payload.sha)
    BY <1>0, <2>1, ResponseIsGateway, Zenon
  <2> QED BY <1>0, <2>1, <2>2, Zenon DEF ProgTypeOK
<1>6. CASE SaveCache(c)
  BY <1>0, <1>2, <1>6, Zenon DEF SaveCache
<1>7. ASSUME Start(c) \/ StartPing(c) \/ LoadCache(c) \/ SendEcho(c) \/ RecvReply(c) \/ Exit(c)
      PROVE  FALSE
  <2>1. pc'[c] \in {"start", "load", "request", "receive", "done", "off"}
    BY <1>0, <1>7, Zenon DEF Start, StartPing, LoadCache, SendEcho, RecvReply, Exit, Iterate, Fail,
                      Goto, ProgTypeOK
  <2> QED BY <2>1, Zenon
<1>8. ASSUME ServeRequest(c) PROVE FALSE
  BY <1>0, <1>8, Zenon DEF ServeRequest, Control
<1>9. ASSUME NEW p \in Procs, p # c, ~UNCHANGED progVars,
             \/ Start(p) \/ StartPing(p) \/ LoadCache(p) \/ GetMac_Request(p)
             \/ GetMac_Response(p) \/ SaveCache(p) \/ SendEcho(p) \/ RecvReply(p) \/ Exit(p)
      PROVE  pc'[c] = pc[c] /\ dstMac'[c] = dstMac[c]
  <2>1. /\ \E l : pc' = [pc EXCEPT ![p] = l]
        /\ dstMac' = dstMac \/ \E m : dstMac' = [dstMac EXCEPT ![p] = m]
    BY <1>9, Zenon DEF Start, StartPing, LoadCache, GetMac_Request, GetMac_Response, SaveCache,
                SendEcho, RecvReply, Exit, Iterate, Fail, Goto
  <2> QED BY <1>0, <1>9, <2>1, Zenon DEF ProgTypeOK
<1>10. CASE UNCHANGED progVars
  BY <1>3, <1>10, Zenon DEF progVars
<1> QED BY <1>3, <1>4, <1>5, <1>6, <1>7, <1>8, <1>9, <1>10, Zenon DEF Next, ServeRequest, progVars

LEMMA DatagramStep ==
  ASSUME NEW g, TypeInv, GatewayInv(g), Next, Grows, NEW d \in datagrams'
  PROVE  Owned(g, d.mac)' /\ \E p \in Pingers : d.host = HostOf[p]
<1>1. SUFFICES Owned(g, d.mac) /\ \E p \in Pingers : d.host = HostOf[p]
  BY <1>1, Zenon DEF Grows, Owned
<1>2. CASE d \in datagrams
  BY <1>2, Zenon DEF GatewayInv
<1>3. CASE d \notin datagrams
  <2>1. PICK p \in Procs : SendEcho(p)
    BY <1>3, Zenon DEF Next, Start, Exit, FreshRoutes, StartPing, StartDatagram, LoadCache,
           GetMac_Request, GetMac_Response, SaveCache, RecvReply, RecvDatagram, ServeRequest,
           ipVars
  <2>2. p \in Pingers /\ pc[p] = "send"
    BY <2>1, TypeParts, Zenon DEF SendEcho, Control
  <2>3. d = [host |-> HostOf[p], dst |-> target[p], mac |-> dstMac[p]]
    BY <1>3, <2>1, Zenon DEF SendEcho, FinishDatagram
  <2> QED BY <2>2, <2>3, Zenon DEF GatewayInv
<1> QED BY <1>2, <1>3, Zenon

LEMMA GatewayStep ==
  ASSUME NEW g \in Ips, OneGateway(g)
  PROVE  TypeInv /\ SafeInv /\ GatewayInv(g) /\ [Next]_vars => GatewayInv(g)'
<1> SUFFICES ASSUME TypeInv, SafeInv, GatewayInv(g), [Next]_vars PROVE GatewayInv(g)'
  OBVIOUS
<1>1. CASE UNCHANGED vars
  BY <1>1, Zenon DEF vars, linkVars, ifVars, arpVars, ipVars, progVars, GatewayInv, Owned
<1>2. CASE Next
  <2>1. Grows
    BY HistoryGrows, Zenon
  <2>2. \A a \in asked' : a[3] = g
    BY <1>2, AskedStep, Zenon
  <2>3. /\ \A p \in Procs : OnlyBound(g, cache'[p])
        /\ \A h \in Hosts : OnlyBound(g, file'[h])
    BY <1>2, BindingsStep, Zenon
  <2>4. \A c \in Pingers : pc'[c] \in {"save", "send"} => Owned(g, dstMac[c])'
    BY <1>2, <2>1, NextHopStep, Zenon
  <2>5. \A d \in datagrams' : Owned(g, d.mac)' /\ \E p \in Pingers : d.host = HostOf[p]
    BY <1>2, <2>1, DatagramStep, Zenon
  <2> QED BY <2>2, <2>3, <2>4, <2>5, Zenon DEF GatewayInv, OnlyBound
<1> QED BY <1>1, <1>2, Zenon

\* Where all hosts that ping have one default gateway, every datagram goes to a
\* host that has held the gateway's address (GatewayUsed), although GetMac takes
\* the first response that arrives and entries of earlier runs never expire.
THEOREM DatagramsGoToGateway ==
  ASSUME NEW g \in Ips, OneGateway(g)
  PROVE  Spec => []GatewayUsed
<1>1. Init => GatewayInv(g)
  BY GatewayInit, Zenon
<1>2. TypeInv /\ SafeInv /\ GatewayInv(g) /\ [Next]_vars => GatewayInv(g)'
  BY GatewayStep, Zenon
<1>3. GatewayInv(g) => GatewayUsed
  BY DEF GatewayInv, GatewayUsed, OneGateway
<1> QED BY <1>1, <1>2, <1>3, TypeInvariant, SafeInvariant, PTL DEF Spec

=============================================================================
