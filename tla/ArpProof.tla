------------------------------ MODULE ArpProof ------------------------------
(***************************************************************************)
(* What the operations of Link and Arp preserve, whichever program calls   *)
(* them: types, where frames come from, and who owns the bindings.         *)
(***************************************************************************)
EXTENDS Arp, TLAPS

USE LinkAssumption

Queues(in) ==
  /\ in \in [Procs -> Seq(Frame)]
  /\ \A p \in Procs : Len(in[p]) <= RcvQueueMax

LEMMA AppendType ==
  ASSUME NEW s \in Seq(Frame), NEW f \in Frame
  PROVE  /\ Append(s, f) \in Seq(Frame)
         /\ Len(Append(s, f)) = Len(s) + 1
         /\ \A i \in 1..Len(Append(s, f)) :
              Append(s, f)[i] = IF i <= Len(s) THEN s[i] ELSE f
OBVIOUS

LEMMA TailType ==
  ASSUME NEW s \in Seq(Frame), s # <<>>
  PROVE  /\ Head(s) \in Frame /\ Head(s) = s[1] /\ 1 \in 1..Len(s)
         /\ Tail(s) \in Seq(Frame)
         /\ Len(Tail(s)) = Len(s) - 1
         /\ \A i \in 1..Len(Tail(s)) : i + 1 \in 1..Len(s) /\ Tail(s)[i] = s[i + 1]
OBVIOUS

\* What the kernel adds to the queues keeps them typed and bounded.
LEMMA DeliverType ==
  ASSUME NEW in, Queues(in), NEW f \in Frame, NEW S
  PROVE  Queues(Deliver(in, f, S))
<1>1. ASSUME NEW s \in Procs
      PROVE  /\ Deliver(in, f, S)[s] \in Seq(Frame)
             /\ Len(Deliver(in, f, S)[s]) <= RcvQueueMax
  <2>1. in[s] \in Seq(Frame) /\ Len(in[s]) <= RcvQueueMax
    BY DEF Queues
  <2>2. CASE s \in S /\ Len(in[s]) < RcvQueueMax
    BY <2>1, <2>2, AppendType DEF Deliver
  <2>3. CASE ~(s \in S /\ Len(in[s]) < RcvQueueMax)
    BY <2>1, <2>3 DEF Deliver
  <2> QED BY <2>2, <2>3
<1> QED BY <1>1 DEF Deliver, Queues

LEMMA DrainedType ==
  ASSUME LinkTypeOK, NEW p \in Procs, q[p] # <<>>
  PROVE  Queues(Drained(p)) /\ Received(p) \in Frame
<1>1. q[p] \in Seq(Frame) /\ Queues(q)
  BY DEF LinkTypeOK, Queues
<1>2. /\ Tail(q[p]) \in Seq(Frame) /\ Len(Tail(q[p])) <= RcvQueueMax
      /\ Head(q[p]) \in Frame
  BY <1>1, TailType DEF Queues
<1> QED BY <1>1, <1>2 DEF Drained, Received, Queues

LEMMA SendType ==
  ASSUME LinkTypeOK, NEW p \in Procs, NEW in, Queues(in),
         NEW dst \in Macs \cup {kBroadcastMac}, NEW pk \in Packet \cup OtherPayloads, NEW st,
         SendEthernetFrame(p, in, dst, pk, st)
  PROVE  Queues(q') /\ ifIndex' \in [Procs -> BOOLEAN]
<1> DEFINE f == [dst |-> dst, fcs |-> TRUE, payload |-> pk]
<1>1. f \in Frame
  BY DEF Frame
<1>2. PICK result \in {"sent", "-1", "-123"} : SendTo(p, in, f, result)
  BY DEF SendEthernetFrame
<1>3. Queues(q')
  <2>1. CASE q' = in
    BY <2>1
  <2>2. ASSUME NEW S, q' = Deliver(in, f, S)
        PROVE  Queues(q')
    BY <1>1, <2>2, DeliverType
  <2> QED BY <1>2, <2>1, <2>2, Zenon DEF SendTo
<1>4. ifIndex' \in [Procs -> BOOLEAN]
  BY <1>2, Zenon DEF SendTo, LinkTypeOK
<1> QED BY <1>3, <1>4

\* The operations of Link and Arp keep the variables of those modules typed.
LEMMA RequestType ==
  ASSUME LinkTypeOK, ArpTypeOK, NEW p \in Procs, NEW ip \in Ips, NEW st,
         Request(p, ip, st)
  PROVE  LinkTypeOK' /\ ArpTypeOK'
<1>1. CASE UNCHANGED <<linkVars, arpVars>>
  BY <1>1 DEF linkVars, ifVars, sockVars, arpVars, LinkTypeOK, ArpTypeOK
<1>2. CASE ~UNCHANGED <<sockVars, asked>>
  <2> DEFINE request == [op |-> "request", sha |-> HostMac(p), spa |-> HostIp(p),
                         tha |-> kBroadcastMac, tpa |-> ip]
  <2>1. /\ CacheHostIp(p)
        /\ SendEthernetFrame(p, q, kBroadcastMac, request, st)
        /\ asked' = asked \cup {<<HostMac(p), HostIp(p), ip>>}
        /\ UNCHANGED up
    BY <1>2 DEF Request
  <2>2. HostMac(p) \in Macs /\ HostIp(p) \in Ips
    BY DEF HostMac, HostIp, LinkTypeOK
  <2>3. request \in Packet
    BY <2>2 DEF Packet
  <2>4. Queues(q)
    BY DEF LinkTypeOK, Queues
  <2> HIDE DEF request
  <2>5. Queues(q') /\ ifIndex' \in [Procs -> BOOLEAN]
    BY <2>1, <2>3, <2>4, SendType
  <2>6. LinkTypeOK'
    BY <2>1, <2>2, <2>5, Zenon DEF Request, LinkTypeOK, Queues, CacheHostIp, ifVars
  <2>7. ArpTypeOK'
    BY <2>1, <2>2 DEF Request, ArpTypeOK
  <2> QED BY <2>6, <2>7
<1> QED BY <1>1, <1>2 DEF Request, linkVars, arpVars, sockVars, ifVars

LEMMA ResponseType ==
  ASSUME LinkTypeOK, NEW p \in Procs, NEW r \in Packet
  PROVE  Response(p, r) \in Packet /\ Response(p, r).tha \in Macs
<1>1. HostMac(p) \in Macs
  BY DEF HostMac, LinkTypeOK
<1> QED BY <1>1 DEF Response, Packet

LEMMA LoadType ==
  ASSUME LinkTypeOK, ArpTypeOK, NEW p \in Procs, MaybeLoadArpCache(p)
  PROVE  LinkTypeOK' /\ ArpTypeOK'
<1>1. LinkTypeOK'
  BY DEF MaybeLoadArpCache, LinkTypeOK, linkVars, ifVars, sockVars
<1>2. ArpTypeOK'
  BY DEF MaybeLoadArpCache, ArpTypeOK, MergeMap, Map
<1> QED BY <1>1, <1>2

LEMMA SaveType ==
  ASSUME LinkTypeOK, ArpTypeOK, NEW p \in Procs, SerializeArpCache(p)
  PROVE  LinkTypeOK' /\ ArpTypeOK'
BY DEF SerializeArpCache, LinkTypeOK, ArpTypeOK, linkVars, ifVars, sockVars

LEMMA StrayType ==
  ASSUME LinkTypeOK, NEW h \in Hosts, StrayArrives(h)
  PROVE  LinkTypeOK'
<1>1. Queues(q)
  BY DEF LinkTypeOK, Queues
<1>2. Queues(q')
  BY <1>1, StrayAssumption, DeliverType DEF StrayArrives
<1> QED BY <1>2 DEF StrayArrives, LinkTypeOK, ifVars, Queues

\* A payload with one of the two opcodes is an ARP packet.
LEMMA OpcodeIsPacket ==
  ASSUME NEW f \in Frame, f.payload.op \in {"request", "response"}
  PROVE  f.payload \in Packet
BY OtherAssumption DEF Frame

LEMMA HandleRequestType ==
  ASSUME LinkTypeOK, ArpTypeOK, NEW p \in Procs, HandleRequest(p)
  PROVE  LinkTypeOK' /\ ArpTypeOK'
<1> DEFINE r == Received(p).payload
<1>1. q[p] # <<>> /\ UNCHANGED <<ifVars, up, arpVars>>
  BY DEF HandleRequest, RecvEthernetFrame
<1>2. Queues(Drained(p)) /\ Received(p) \in Frame
  BY <1>1, DrainedType
<1>3. HostIp(p) \in Ips
  BY DEF HostIp, LinkTypeOK
<1>4. Queues(q') /\ ifIndex' \in [Procs -> BOOLEAN]
  <2>1. CASE q' = Drained(p) /\ UNCHANGED ifIndex
    BY <1>2, <2>1 DEF LinkTypeOK
  <2>2. ASSUME r.op = "request", NEW st, SendResponse(p, Drained(p), r, st)
        PROVE  Queues(q') /\ ifIndex' \in [Procs -> BOOLEAN]
    <3>1. r \in Packet
      BY <1>2, <2>2, OpcodeIsPacket
    <3>2. Response(p, r) \in Packet /\ Response(p, r).tha \in Macs
      BY <3>1, ResponseType
    <3>3. SendEthernetFrame(p, Drained(p), Response(p, r).tha, Response(p, r), st)
      BY <2>2 DEF SendResponse
    <3> QED BY <1>2, <3>2, <3>3, SendType
  <2> QED BY <2>1, <2>2 DEF HandleRequest
<1>5. hostIp' \in [Procs -> Ips \cup {NoIp}]
  BY <1>3 DEF HandleRequest, CacheHostIp, LinkTypeOK
<1>6. LinkTypeOK'
  BY <1>1, <1>4, <1>5 DEF LinkTypeOK, Queues, ifVars
<1>7. ArpTypeOK'
  BY <1>1 DEF ArpTypeOK, arpVars
<1> QED BY <1>6, <1>7

LEMMA HandleResponseType ==
  ASSUME LinkTypeOK, ArpTypeOK, NEW p \in Procs, NEW st, HandleResponse(p, st)
  PROVE  /\ LinkTypeOK' /\ ArpTypeOK'
         /\ st = "ok" => Received(p).payload \in Packet
<1>1. UNCHANGED <<ifVars, up, hostIp, ifIndex, loaded, asked>>
  BY DEF HandleResponse
<1>2. CASE UNCHANGED <<q, cache, file>> /\ st = "error"
  BY <1>1, <1>2 DEF LinkTypeOK, ArpTypeOK, ifVars
<1>3. CASE q[p] # <<>> /\ q' = Drained(p) /\ UNCHANGED <<cache, file>> /\ st = "error"
  <2>1. Queues(Drained(p))
    BY <1>3, DrainedType
  <2> QED BY <1>1, <1>3, <2>1 DEF LinkTypeOK, ArpTypeOK, ifVars, Queues
<1>4. CASE st = "ok"
  <2> DEFINE r == Received(p).payload
  <2>1. /\ q[p] # <<>> /\ q' = Drained(p) /\ r.op = "response"
        /\ cache' = Learn(p, r)
        /\ file' = [file EXCEPT ![HostOf[p]] = EmptyMap]
    BY <1>4 DEF HandleResponse, RecvEthernetFrame
  <2>2. Queues(Drained(p)) /\ Received(p) \in Frame
    BY <2>1, DrainedType
  <2>3. r \in Packet
    BY <2>1, <2>2, OpcodeIsPacket
  <2>4. LinkTypeOK'
    BY <1>1, <2>1, <2>2 DEF LinkTypeOK, ifVars, Queues
  <2>5. EmptyMap \in Map
    BY DEF EmptyMap, Map
  <2>6. cache' \in [Procs -> Map]
    <3>1. r.spa \in Ips /\ r.sha \in Macs
      BY <2>3 DEF Packet
    <3> HIDE DEF r
    <3> QED BY <2>1, <3>1 DEF Learn, Map, ArpTypeOK
  <2>7. ArpTypeOK'
    BY <1>1, <2>1, <2>5, <2>6 DEF ArpTypeOK
  <2> QED BY <2>3, <2>4, <2>7
<1> QED BY <1>2, <1>3, <1>4 DEF HandleResponse, RecvEthernetFrame

LEMMA FreshType ==
  ASSUME LinkTypeOK, ArpTypeOK, NEW p \in Procs,
         CreateOrDie(p) \/ CloseSocket(p), FreshStatics(p), UNCHANGED ifVars
  PROVE  LinkTypeOK' /\ ArpTypeOK'
<1>1. LinkTypeOK'
  <2> DEFINE none == <<>>
  <2>1. none \in Seq(Frame) /\ Len(none) <= RcvQueueMax
    OBVIOUS
  <2>2. q' = [q EXCEPT ![p] = none]
    BY DEF CreateOrDie, CloseSocket, Fresh
  <2> HIDE DEF none
  <2>3. q' \in [Procs -> Seq(Frame)] /\ \A s \in Procs : Len(q'[s]) <= RcvQueueMax
    BY <2>1, <2>2 DEF LinkTypeOK
  <2> QED BY <2>3, Zenon DEF CreateOrDie, CloseSocket, Fresh, LinkTypeOK, ifVars
<1>2. ArpTypeOK'
  BY DEF FreshStatics, ArpTypeOK, EmptyMap, Map
<1> QED BY <1>1, <1>2

-----------------------------------------------------------------------------
(* Where frames come from, and who owns the bindings they carry. *)

\* Every frame of the queues `out' was in the same queue of `in', or is f.
OnlyAdds(in, out, f) ==
  \A s \in Procs : \A i \in 1..Len(out[s]) :
    out[s][i] = f \/ \E j \in 1..Len(in[s]) : out[s][i] = in[s][j]

LEMMA DeliverAdds ==
  ASSUME NEW in, Queues(in), NEW f \in Frame, NEW S
  PROVE  OnlyAdds(in, Deliver(in, f, S), f)
<1> SUFFICES ASSUME NEW s \in Procs, NEW i \in 1..Len(Deliver(in, f, S)[s])
             PROVE  \/ Deliver(in, f, S)[s][i] = f
                    \/ \E j \in 1..Len(in[s]) : Deliver(in, f, S)[s][i] = in[s][j]
  BY DEF OnlyAdds
<1>1. in[s] \in Seq(Frame)
  BY DEF Queues
<1>2. CASE Deliver(in, f, S)[s] = in[s]
  BY <1>2
<1>3. CASE Deliver(in, f, S)[s] = Append(in[s], f)
  <2>1. CASE i <= Len(in[s])
    BY <1>1, <1>3, <2>1, AppendType
  <2>2. CASE ~(i <= Len(in[s]))
    BY <1>1, <1>3, <2>2, AppendType
  <2> QED BY <2>1, <2>2
<1> QED BY <1>2, <1>3 DEF Deliver

LEMMA DrainedAdds ==
  ASSUME LinkTypeOK, NEW p \in Procs, q[p] # <<>>, NEW f
  PROVE  OnlyAdds(q, Drained(p), f)
<1>1. q[p] \in Seq(Frame)
  BY DEF LinkTypeOK
<1>2. \A i \in 1..Len(Tail(q[p])) : \E j \in 1..Len(q[p]) : Tail(q[p])[i] = q[p][j]
  BY <1>1, TailType
<1>3. Drained(p)[p] = Tail(q[p]) /\ \A s \in Procs : s # p => Drained(p)[s] = q[s]
  BY DEF Drained, LinkTypeOK
<1>4. ASSUME NEW s \in Procs, NEW i \in 1..Len(Drained(p)[s])
      PROVE  \E j \in 1..Len(q[s]) : Drained(p)[s][i] = q[s][j]
  <2>1. CASE s = p
    BY <1>2, <1>3, <2>1, Zenon
  <2>2. CASE s # p
    BY <1>3, <2>2, Zenon
  <2> QED BY <2>1, <2>2
<1> QED BY <1>4, Zenon DEF OnlyAdds

LEMMA OnlyAddsTrans ==
  ASSUME NEW a, NEW b, NEW c, NEW f, OnlyAdds(a, b, f), OnlyAdds(b, c, f)
  PROVE  OnlyAdds(a, c, f)
<1> SUFFICES ASSUME NEW s \in Procs, NEW i \in 1..Len(c[s]), c[s][i] # f
             PROVE  \E j \in 1..Len(a[s]) : c[s][i] = a[s][j]
  BY DEF OnlyAdds
<1>1. PICK k \in 1..Len(b[s]) : c[s][i] = b[s][k]
  BY DEF OnlyAdds
<1>2. b[s][k] = f \/ \E j \in 1..Len(a[s]) : b[s][k] = a[s][j]
  BY DEF OnlyAdds
<1> QED BY <1>1, <1>2

\* SendEthernetFrame puts at most the frame it builds in the queues.
LEMMA SendAdds ==
  ASSUME NEW p \in Procs, NEW in, Queues(in),
         NEW dst \in Macs \cup {kBroadcastMac}, NEW pk \in Packet \cup OtherPayloads, NEW st,
         SendEthernetFrame(p, in, dst, pk, st)
  PROVE  OnlyAdds(in, q', [dst |-> dst, fcs |-> TRUE, payload |-> pk])
<1> DEFINE f == [dst |-> dst, fcs |-> TRUE, payload |-> pk]
<1>1. f \in Frame
  BY DEF Frame
<1>2. PICK result \in {"sent", "-1", "-123"} : SendTo(p, in, f, result)
  BY DEF SendEthernetFrame
<1> HIDE DEF f
<1>3. ASSUME q' = in PROVE OnlyAdds(in, q', f)
  BY <1>3 DEF OnlyAdds
<1>4. ASSUME NEW S, q' = Deliver(in, f, S) PROVE OnlyAdds(in, q', f)
  BY <1>1, <1>4, DeliverAdds
<1>5. OnlyAdds(in, q', f)
  BY <1>2, <1>3, <1>4, Zenon DEF SendTo
<1> QED BY <1>5 DEF f

\* The histories only grow.
Grows ==
  /\ \A h \in Hosts : heldIp[h] \subseteq heldIp'[h] /\ heldMac[h] \subseteq heldMac'[h]
  /\ asked \subseteq asked'

\* What is known of an intact frame, given the histories hi, hm and as: a
\* request was asked, and a response was asked for and binds one host's pair.
Sound(f, hi, hm, as) ==
  LET r == f.payload
  IN  f.fcs =>
        /\ r.op = "request" => <<r.sha, r.spa, r.tpa>> \in as
        /\ r.op = "response" => /\ <<r.tha, r.tpa, r.spa>> \in as
                               /\ \E h \in Hosts : r.spa \in hi[h] /\ r.sha \in hm[h]

Addresses ==
  /\ \A h \in Hosts : ifIp[h] \in heldIp[h] /\ ifMac[h] \in heldMac[h]
  /\ \A p \in Procs : hostIp[p] # NoIp => hostIp[p] \in heldIp[HostOf[p]]

SoundQueues ==
  \A p \in Procs : \A i \in 1..Len(q[p]) : Sound(q[p][i], heldIp, heldMac, asked)

\* The inductive invariant behind BindingsOwned and RepliesSolicited.
SafeInv == Addresses /\ SoundQueues /\ BindingsOwned

LEMMA OwnedGrows ==
  ASSUME Grows, NEW ip, NEW m, Owned(ip, m)
  PROVE  Owned(ip, m)'
BY Zenon DEF Grows, Owned

LEMMA SoundGrows ==
  ASSUME Grows, NEW f, Sound(f, heldIp, heldMac, asked)
  PROVE  Sound(f, heldIp', heldMac', asked')
BY DEF Grows, Sound

\* A step that adds at most a sound frame to the queues keeps them sound.
LEMMA QueuesStaySound ==
  ASSUME Grows, SoundQueues, NEW f, Sound(f, heldIp', heldMac', asked'),
         OnlyAdds(q, q', f)
  PROVE  SoundQueues'
<1> SUFFICES ASSUME NEW p \in Procs, NEW i \in 1..Len(q'[p])
             PROVE  Sound(q'[p][i], heldIp', heldMac', asked')
  BY DEF SoundQueues
<1>1. q'[p][i] = f \/ \E j \in 1..Len(q[p]) : q'[p][i] = q[p][j]
  BY DEF OnlyAdds
<1>2. ASSUME NEW j \in 1..Len(q[p]), q'[p][i] = q[p][j]
      PROVE  Sound(q'[p][i], heldIp', heldMac', asked')
  BY <1>2, SoundGrows DEF SoundQueues
<1> QED BY <1>1, <1>2

\* A step that adds no frame at all is the special case of a frame without FCS.
LEMMA QueuesStaySound0 ==
  ASSUME Grows, SoundQueues, \A f : OnlyAdds(q, q', f)
  PROVE  SoundQueues'
<1> DEFINE g == [fcs |-> FALSE]
<1>1. Sound(g, heldIp', heldMac', asked')
  BY DEF Sound
<1> QED BY <1>1, QueuesStaySound

\* Bindings stay owned when a step leaves them alone.
LEMMA BindingsKept ==
  ASSUME Grows, BindingsOwned, UNCHANGED <<cache, file>>
  PROVE  BindingsOwned'
BY DEF Grows, BindingsOwned, Owned

\* Fresh sockets and fresh statics hold nothing that could be wrong.
LEMMA FreshSafe ==
  ASSUME LinkTypeOK, ArpTypeOK, SafeInv, Grows, NEW p \in Procs,
         CreateOrDie(p) \/ CloseSocket(p), FreshStatics(p), UNCHANGED ifVars
  PROVE  SafeInv'
<1>1. Addresses'
  BY Zenon DEF SafeInv, Addresses, CreateOrDie, CloseSocket, Fresh, ifVars, LinkTypeOK
<1>2. SoundQueues'
  <2>1. \A s \in Procs : q'[s] = IF s = p THEN <<>> ELSE q[s]
    BY Zenon DEF CreateOrDie, CloseSocket, Fresh, LinkTypeOK
  <2>2. \A f : OnlyAdds(q, q', f)
    BY <2>1 DEF OnlyAdds
  <2> QED BY <2>2, QueuesStaySound0, Zenon DEF SafeInv
<1>3. BindingsOwned'
  BY Zenon DEF SafeInv, BindingsOwned, Owned, FreshStatics, EmptyMap, Grows, ArpTypeOK
<1> QED BY <1>1, <1>2, <1>3, Zenon DEF SafeInv

LEMMA OwnAddresses ==
  ASSUME LinkTypeOK, Addresses, NEW p \in Procs
  PROVE  HostIp(p) \in heldIp[HostOf[p]] /\ HostMac(p) \in heldMac[HostOf[p]]
BY Zenon DEF LinkTypeOK, Addresses, HostIp, HostMac

LEMMA CacheHostIpSafe ==
  ASSUME LinkTypeOK, Addresses, NEW p \in Procs, CacheHostIp(p), UNCHANGED ifVars
  PROVE  Addresses'
BY OwnAddresses, Zenon DEF Addresses, CacheHostIp, ifVars, LinkTypeOK

LEMMA RequestSafe ==
  ASSUME LinkTypeOK, ArpTypeOK, SafeInv, Grows, NEW p \in Procs, NEW ip \in Ips, NEW st,
         Request(p, ip, st)
  PROVE  SafeInv'
<1>0. Addresses /\ SoundQueues /\ BindingsOwned
  BY Zenon DEF SafeInv
<1>1. BindingsOwned'
  BY <1>0, BindingsKept, Zenon DEF Request
<1>2. CASE UNCHANGED sockVars
  <2>1. Addresses'
    BY <1>0, <1>2, Zenon DEF Request, Addresses, ifVars, sockVars
  <2>2. \A f : OnlyAdds(q, q', f)
    BY <1>2, Zenon DEF OnlyAdds, sockVars
  <2>3. SoundQueues'
    BY <1>0, <2>2, QueuesStaySound0, Zenon
  <2> QED BY <1>1, <2>1, <2>3, Zenon DEF SafeInv
<1>3. CASE ~UNCHANGED sockVars
  <2> DEFINE request == [op |-> "request", sha |-> HostMac(p), spa |-> HostIp(p),
                         tha |-> kBroadcastMac, tpa |-> ip]
             f == [dst |-> kBroadcastMac, fcs |-> TRUE, payload |-> request]
  <2>1. /\ CacheHostIp(p)
        /\ SendEthernetFrame(p, q, kBroadcastMac, request, st)
        /\ asked' = asked \cup {<<HostMac(p), HostIp(p), ip>>}
        /\ UNCHANGED ifVars
    BY <1>3, Zenon DEF Request
  <2>2. Queues(q) /\ request \in Packet
    BY Zenon DEF LinkTypeOK, Queues, Packet, HostMac, HostIp
  <2>3. Sound(f, heldIp', heldMac', asked')
    BY <2>1, Zenon DEF Sound
  <2> HIDE DEF request
  <2>4. OnlyAdds(q, q', f)
    BY <2>1, <2>2, SendAdds, Zenon
  <2> HIDE DEF f
  <2>5. SoundQueues'
    BY <1>0, <2>3, <2>4, QueuesStaySound, Zenon
  <2>6. Addresses'
    BY <1>0, <2>1, CacheHostIpSafe, Zenon
  <2> QED BY <1>1, <2>5, <2>6, Zenon DEF SafeInv
<1> QED BY <1>2, <1>3, Zenon

\* The packet at the head of a sound queue.
LEMMA ReceivedSound ==
  ASSUME LinkTypeOK, SoundQueues, NEW p \in Procs, q[p] # <<>>
  PROVE  Sound(Received(p), heldIp, heldMac, asked)
<1>1. q[p] \in Seq(Frame)
  BY Zenon DEF LinkTypeOK
<1>2. Received(p) = q[p][1] /\ 1 \in 1..Len(q[p])
  BY <1>1, TailType, Zenon DEF Received
<1> QED BY <1>2, Zenon DEF SoundQueues

LEMMA HandleRequestSafe ==
  ASSUME LinkTypeOK, ArpTypeOK, SafeInv, Grows, NEW p \in Procs, HandleRequest(p)
  PROVE  SafeInv'
<1> DEFINE r == Received(p).payload
<1>0. Addresses /\ SoundQueues /\ BindingsOwned
  BY Zenon DEF SafeInv
<1>1. q[p] # <<>> /\ UNCHANGED <<ifVars, up, arpVars>>
  BY Zenon DEF HandleRequest, RecvEthernetFrame
<1>2. BindingsOwned'
  BY <1>0, <1>1, BindingsKept, Zenon DEF arpVars
<1>3. Addresses'
  <2>1. CASE CacheHostIp(p)
    BY <1>0, <1>1, <2>1, CacheHostIpSafe, Zenon
  <2>2. CASE UNCHANGED hostIp
    BY <1>0, <1>1, <2>2, Zenon DEF Addresses, ifVars
  <2> QED BY <2>1, <2>2, Zenon DEF HandleRequest
<1>4. SoundQueues'
  <2>1. CASE q' = Drained(p)
    BY <1>0, <1>1, <2>1, DrainedAdds, QueuesStaySound0, Zenon
  <2>2. ASSUME RecvEthernetFrame(p, "ok"), r.op = "request", ForThisHost(p, r), NEW st,
               SendResponse(p, Drained(p), r, st)
        PROVE  SoundQueues'
    <3> DEFINE pk == Response(p, r)
               f == [dst |-> pk.tha, fcs |-> TRUE, payload |-> pk]
    <3>1. Queues(Drained(p)) /\ Received(p) \in Frame
      BY <1>1, DrainedType, Zenon
    <3>2. r \in Packet
      BY <2>2, <3>1, OpcodeIsPacket, Zenon
    <3>3. pk \in Packet /\ pk.tha \in Macs
      BY <3>2, ResponseType, Zenon
    <3>4. SendEthernetFrame(p, Drained(p), pk.tha, pk, st)
      BY <2>2, Zenon DEF SendResponse
    <3>5. <<r.sha, r.spa, r.tpa>> \in asked
      BY <1>0, <1>1, <2>2, ReceivedSound, Zenon DEF Sound, RecvEthernetFrame
    <3>6. r.tpa \in heldIp[HostOf[p]] /\ HostMac(p) \in heldMac[HostOf[p]]
      BY <1>0, <2>2, OwnAddresses, Zenon DEF ForThisHost
    <3>7. Sound(f, heldIp', heldMac', asked')
      BY <1>1, <3>5, <3>6, Zenon DEF Sound, Response, arpVars, ifVars
    <3> HIDE DEF pk
    <3>8. OnlyAdds(Drained(p), q', f)
      BY <3>1, <3>3, <3>4, SendAdds, Zenon
    <3> HIDE DEF f
    <3>9. OnlyAdds(q, Drained(p), f)
      BY <1>1, DrainedAdds, Zenon
    <3>10. OnlyAdds(q, q', f)
      BY <3>8, <3>9, OnlyAddsTrans, Zenon
    <3> QED BY <1>0, <3>7, <3>10, QueuesStaySound, Zenon
  <2> QED BY <2>1, <2>2, Zenon DEF HandleRequest
<1> QED BY <1>2, <1>3, <1>4, Zenon DEF SafeInv

\* A cache that takes the pair of a sound response still binds owned pairs.
LEMMA HandleResponseSafe ==
  ASSUME LinkTypeOK, ArpTypeOK, SafeInv, Grows, NEW p \in Procs, NEW st,
         HandleResponse(p, st)
  PROVE  SafeInv'
<1>0. Addresses /\ SoundQueues /\ BindingsOwned
  BY Zenon DEF SafeInv
<1>1. UNCHANGED <<ifVars, up, hostIp, ifIndex, loaded, asked>>
  BY Zenon DEF HandleResponse
<1>2. Addresses'
  BY <1>0, <1>1, Zenon DEF Addresses, ifVars
<1>3. SoundQueues'
  <2>1. CASE UNCHANGED q
    <3>1. \A f : OnlyAdds(q, q', f)
      BY <2>1, Zenon DEF OnlyAdds
    <3> QED BY <1>0, <3>1, QueuesStaySound0, Zenon
  <2>2. CASE q[p] # <<>> /\ q' = Drained(p)
    BY <1>0, <2>2, DrainedAdds, QueuesStaySound0, Zenon
  <2> QED BY <2>1, <2>2, Zenon DEF HandleResponse, RecvEthernetFrame
<1>4. BindingsOwned'
  <2>1. CASE UNCHANGED <<cache, file>>
    BY <1>0, <2>1, BindingsKept, Zenon
  <2>2. CASE st = "ok"
    <3> DEFINE r == Received(p).payload
    <3>1. /\ q[p] # <<>> /\ Received(p).fcs /\ r.op = "response"
          /\ cache' = Learn(p, r)
          /\ file' = [file EXCEPT ![HostOf[p]] = EmptyMap]
      BY <2>2, Zenon DEF HandleResponse, RecvEthernetFrame
    <3>2. \E h \in Hosts : r.spa \in heldIp[h] /\ r.sha \in heldMac[h]
      BY <1>0, <3>1, ReceivedSound, Zenon DEF Sound
    <3>3. r.spa \in Ips
      BY <3>2, Zenon DEF LinkTypeOK
    <3> HIDE DEF r
    <3>4. ASSUME NEW s \in Procs, NEW ip \in Ips, cache'[s][ip] # NoMac
          PROVE  Owned(ip, cache'[s][ip])
      <4>1. CASE s = p /\ ip = r.spa
        BY <3>1, <3>2, <4>1, Zenon DEF Learn, Owned, ArpTypeOK, Map
      <4>2. CASE ~(s = p /\ ip = r.spa)
        <5>1. cache'[s][ip] = cache[s][ip]
          BY <3>1, <4>2, Zenon DEF Learn, ArpTypeOK, Map
        <5> QED BY <1>0, <3>4, <5>1, Zenon DEF BindingsOwned
      <4> QED BY <4>1, <4>2, Zenon
    <3>5. ASSUME NEW h \in Hosts, NEW ip \in Ips, file'[h][ip] # NoMac
          PROVE  Owned(ip, file'[h][ip])
      <4>1. file'[h] = file[h]
        BY <3>1, <3>5, Zenon DEF EmptyMap, ArpTypeOK
      <4> QED BY <1>0, <3>5, <4>1, Zenon DEF BindingsOwned
    <3> QED BY <1>1, <3>4, <3>5, Zenon DEF BindingsOwned, Owned, ifVars
  <2> QED BY <2>1, <2>2, Zenon DEF HandleResponse
<1> QED BY <1>2, <1>3, <1>4, Zenon DEF SafeInv

\* A step of the ARP layer that leaves the sockets alone.
LEMMA LinkKept ==
  ASSUME SafeInv, Grows, UNCHANGED linkVars
  PROVE  Addresses' /\ SoundQueues'
<1>1. \A f : OnlyAdds(q, q', f)
  BY Zenon DEF OnlyAdds, linkVars, sockVars
<1> QED BY <1>1, QueuesStaySound0, Zenon DEF SafeInv, Addresses, linkVars, ifVars, sockVars

LEMMA LoadSafe ==
  ASSUME ArpTypeOK, SafeInv, Grows, NEW p \in Procs, MaybeLoadArpCache(p)
  PROVE  SafeInv'
<1>1. /\ cache' = [cache EXCEPT ![p] = MergeMap(cache[p], file[HostOf[p]])]
      /\ UNCHANGED <<linkVars, file>>
  BY Zenon DEF MaybeLoadArpCache
<1>2. ASSUME NEW s \in Procs, NEW ip \in Ips, cache'[s][ip] # NoMac
      PROVE  Owned(ip, cache'[s][ip])
  <2>1. cache'[s][ip] = cache[s][ip] \/ cache'[s][ip] = file[HostOf[s]][ip]
    BY <1>1, Zenon DEF MergeMap, ArpTypeOK
  <2> QED BY <1>2, <2>1, Zenon DEF SafeInv, BindingsOwned
<1>3. BindingsOwned'
  BY <1>1, <1>2, Zenon DEF SafeInv, BindingsOwned, Owned, linkVars, ifVars
<1> QED BY <1>1, <1>3, LinkKept, Zenon DEF SafeInv

LEMMA SaveSafe ==
  ASSUME ArpTypeOK, SafeInv, Grows, NEW p \in Procs, SerializeArpCache(p)
  PROVE  SafeInv'
<1>1. file' = [file EXCEPT ![HostOf[p]] = cache[p]] /\ UNCHANGED <<linkVars, cache>>
  BY Zenon DEF SerializeArpCache
<1>2. ASSUME NEW h \in Hosts, NEW ip \in Ips, file'[h][ip] # NoMac
      PROVE  Owned(ip, file'[h][ip])
  <2>1. file'[h] = file[h] \/ file'[h] = cache[p]
    BY <1>1, Zenon DEF ArpTypeOK
  <2> QED BY <1>2, <2>1, Zenon DEF SafeInv, BindingsOwned
<1>3. BindingsOwned'
  BY <1>1, <1>2, Zenon DEF SafeInv, BindingsOwned, Owned, linkVars, ifVars
<1> QED BY <1>1, <1>3, LinkKept, Zenon DEF SafeInv

LEMMA StraySafe ==
  ASSUME LinkTypeOK, SafeInv, Grows, NEW h \in Hosts, StrayArrives(h),
         UNCHANGED <<cache, file>>
  PROVE  SafeInv'
<1>1. PICK f \in Stray : q' = Deliver(q, f, {s \in Procs : up[s] /\ HostOf[s] = h})
  BY Zenon DEF StrayArrives
<1>2. Queues(q) /\ f \in Frame
  BY StrayAssumption, Zenon DEF LinkTypeOK, Queues
<1>3. OnlyAdds(q, q', f)
  BY <1>1, <1>2, DeliverAdds, Zenon
<1>4. ~f.fcs \/ f.payload.op = "other"
  BY StrayAssumption, OtherAssumption, Zenon
<1>5. Sound(f, heldIp', heldMac', asked')
  BY <1>4, Zenon DEF Sound
<1>6. SoundQueues' /\ BindingsOwned'
  BY <1>3, <1>5, QueuesStaySound, BindingsKept, Zenon DEF SafeInv
<1> QED BY <1>6, Zenon DEF SafeInv, StrayArrives, Addresses, ifVars

=============================================================================
