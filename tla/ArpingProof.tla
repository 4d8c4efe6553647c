---------------------------- MODULE ArpingProof -----------------------------
(***************************************************************************)
(* Type correctness of Arping, the safety that rests on the frames in the  *)
(* queues, and what the cache files hold, for any number of hosts, servers *)
(* and clients, any queue length and any combination of faults.            *)
(***************************************************************************)
EXTENDS Arping, ArpProof

-----------------------------------------------------------------------------
(* Whose address a client reports *)

\* HandleResponse takes the first response it gets, whichever address that is
\* about.  It is the right one when nothing of an earlier request is left over:
\* one client that neither fails nor is killed while it waits, one server at
\* most for an address, and only frames of these programs on the link.  Frames
\* may still be lost or flooded.
OneClient(c) ==
  /\ Clients = {c} /\ Stray = {} /\ Faults \subseteq {"loss", "flood"}
  /\ \A s, t \in Servers : IfIp0[HostOf[s]] = IfIp0[HostOf[t]] => s = t

\* A frame that the client is going to take or that a server is going to answer.
Live(p, f) ==
  p \in Servers => f.payload.op = "request" /\ f.payload.tpa = IfIp0[HostOf[p]]

\* The live frame f is about the address ip.
Concerns(p, f, ip) ==
  IF p \in Servers THEN f.payload.tpa = ip
                   ELSE f.fcs /\ f.payload.op = "response" /\ f.payload.spa = ip

Idle(in) == \A p \in Procs : \A i \in 1..Len(in[p]) : ~Live(p, in[p][i])

\* There is at most one live frame, and it is about ip.
Pending(in, ip) ==
  /\ \A p \in Procs : \A i \in 1..Len(in[p]) : Live(p, in[p][i]) => Concerns(p, in[p][i], ip)
  /\ \A p, s \in Procs : \A i \in 1..Len(in[p]), j \in 1..Len(in[s]) :
       Live(p, in[p][i]) /\ Live(s, in[s][j]) => p = s /\ i = j

\* The inductive invariant: outside HandleResponse nothing is live, and within
\* it at most one request or response, about the address asked for.
QuietInv(c) ==
  /\ \A p \in Procs : /\ ifIp[HostOf[p]] = IfIp0[HostOf[p]]
                      /\ hostIp[p] \in {NoIp, IfIp0[HostOf[p]]}
  /\ Pending(q, target[c])
  /\ pc[c] # "response" => Idle(q)
  /\ ResolvesTarget

LEMMA DrainedQueues ==
  ASSUME LinkTypeOK, NEW p \in Procs, q[p] # <<>>, NEW s \in Procs,
         NEW i \in 1..Len(Drained(p)[s])
  PROVE  /\ s = p => i + 1 \in 1..Len(q[s]) /\ Drained(p)[s][i] = q[s][i + 1]
         /\ s # p => i \in 1..Len(q[s]) /\ Drained(p)[s][i] = q[s][i]
<1>1. q[p] \in Seq(Frame)
  BY DEF LinkTypeOK
<1>2. Drained(p)[p] = Tail(q[p]) /\ (s # p => Drained(p)[s] = q[s])
  BY DEF Drained, LinkTypeOK
<1>3. CASE s = p
  <2>1. i \in 1..Len(Tail(q[p])) /\ Drained(p)[s][i] = Tail(q[p])[i]
    BY <1>2, <1>3, Zenon
  <2>2. i + 1 \in 1..Len(q[p]) /\ Tail(q[p])[i] = q[p][i + 1]
    BY <1>1, <2>1, TailType, Zenon
  <2> QED BY <1>3, <2>1, <2>2
<1>4. CASE s # p
  BY <1>2, <1>4
<1> QED BY <1>3, <1>4

\* Taking a frame leaves at most one live frame, and none if it was the live one.
LEMMA DrainedPending ==
  ASSUME LinkTypeOK, NEW p \in Procs, q[p] # <<>>, NEW ip, Pending(q, ip)
  PROVE  /\ Pending(Drained(p), ip)
         /\ Live(p, Received(p)) \/ Idle(q) => Idle(Drained(p))
<1> DEFINE from(s, i) == IF s = p THEN i + 1 ELSE i
<1>1. ASSUME NEW s \in Procs, NEW i \in 1..Len(Drained(p)[s])
      PROVE  from(s, i) \in 1..Len(q[s]) /\ Drained(p)[s][i] = q[s][from(s, i)]
  BY <1>1, DrainedQueues
<1>2. \A s, t \in Procs : \A i \in 1..Len(Drained(p)[s]), j \in 1..Len(Drained(p)[t]) :
        s = t /\ from(s, i) = from(t, j) => i = j
  OBVIOUS
<1>3. \A i \in 1..Len(Drained(p)[p]) : from(p, i) # 1
  OBVIOUS
<1>4. 1 \in 1..Len(q[p]) /\ Received(p) = q[p][1]
  BY TailType DEF LinkTypeOK, Received
<1> HIDE DEF from
<1>5. /\ \A s \in Procs : \A i \in 1..Len(q[s]) : Live(s, q[s][i]) => Concerns(s, q[s][i], ip)
      /\ \A s, t \in Procs : \A i \in 1..Len(q[s]), j \in 1..Len(q[t]) :
           Live(s, q[s][i]) /\ Live(t, q[t][j]) => s = t /\ i = j
  BY Zenon DEF Pending
<1>6. Pending(Drained(p), ip)
  <2>1. ASSUME NEW s \in Procs, NEW i \in 1..Len(Drained(p)[s]), Live(s, Drained(p)[s][i])
        PROVE  Concerns(s, Drained(p)[s][i], ip)
    <3>1. PICK k \in 1..Len(q[s]) : Drained(p)[s][i] = q[s][k]
      BY <1>1
    <3> QED BY <1>5, <2>1, <3>1
  <2>2. ASSUME NEW s \in Procs, NEW t \in Procs, NEW i \in 1..Len(Drained(p)[s]),
               NEW j \in 1..Len(Drained(p)[t]),
               Live(s, Drained(p)[s][i]), Live(t, Drained(p)[t][j])
        PROVE  s = t /\ i = j
    <3>1. PICK k \in 1..Len(q[s]) : k = from(s, i) /\ Drained(p)[s][i] = q[s][k]
      BY <1>1, Zenon
    <3>2. PICK l \in 1..Len(q[t]) : l = from(t, j) /\ Drained(p)[t][j] = q[t][l]
      BY <1>1, Zenon
    <3>3. Live(s, q[s][k]) /\ Live(t, q[t][l])
      BY <2>2, <3>1, <3>2
    <3>4. s = t /\ k = l
      BY <1>5, <3>3, Zenon
    <3> QED BY <1>2, <3>1, <3>2, <3>4, Zenon
  <2> QED BY <2>1, <2>2, Zenon DEF Pending
<1>7. ASSUME Live(p, Received(p)), NEW s \in Procs, NEW i \in 1..Len(Drained(p)[s]),
             Live(s, Drained(p)[s][i])
      PROVE  FALSE
  <2>1. PICK k \in 1..Len(q[s]) : k = from(s, i) /\ Drained(p)[s][i] = q[s][k]
    BY <1>1
  <2>2. Live(s, q[s][k]) /\ Live(p, q[p][1])
    BY <1>4, <1>7, <2>1
  <2>3. s = p /\ k = 1
    BY <1>4, <1>5, <2>2, Zenon
  <2> QED BY <1>3, <2>1, <2>3, Zenon
<1>8. Idle(q) => Idle(Drained(p))
  BY <1>1 DEF Idle
<1> QED BY <1>6, <1>7, <1>8, Zenon DEF Idle

\* A frame sent while nothing is live is the only live frame afterwards.
LEMMA DeliverPending ==
  ASSUME NEW in, Queues(in), Idle(in), NEW f \in Frame, NEW S, NEW ip,
         \A s \in S : Live(s, f) => Concerns(s, f, ip),
         \A s, t \in S : Live(s, f) /\ Live(t, f) => s = t
  PROVE  Pending(Deliver(in, f, S), ip)
<1> DEFINE out == Deliver(in, f, S)
<1>1. ASSUME NEW s \in Procs, NEW i \in 1..Len(out[s]), Live(s, out[s][i])
      PROVE  s \in S /\ i = Len(in[s]) + 1 /\ out[s][i] = f
  <2>1. in[s] \in Seq(Frame)
    BY DEF Queues
  <2>2. CASE out[s] = in[s]
    BY <1>1, <2>2, Zenon DEF Idle
  <2>3. CASE out[s] = Append(in[s], f) /\ s \in S
    <3>1. ~(i \in 1..Len(in[s]))
      <4> SUFFICES ASSUME i \in 1..Len(in[s]) PROVE FALSE
        OBVIOUS
      <4>1. out[s][i] = in[s][i]
        BY <2>1, <2>3, AppendType
      <4> QED BY <1>1, <4>1, Zenon DEF Idle
    <3>2. i = Len(in[s]) + 1 /\ out[s][i] = f
      BY <2>1, <2>3, <3>1, AppendType
    <3> QED BY <2>3, <3>2
  <2> QED BY <2>2, <2>3 DEF Deliver
<1> HIDE DEF out
<1>2. Pending(out, ip)
  BY <1>1 DEF Pending
<1> QED BY <1>2 DEF out

LEMMA IdlePending ==
  ASSUME NEW in, Idle(in) PROVE \A ip : Pending(in, ip)
BY Zenon DEF Idle, Pending

-----------------------------------------------------------------------------
(* Types *)

USE LinkAssumption, ArpingAssumption

\* Where a process of either kind can be: servers only serve, and a client
\* is inside ArpRoundTrip only for an i below num_requests.
Control ==
  /\ \A s \in Servers : pc[s] \in {"off", "serve"}
  /\ \A c \in Clients : pc[c] # "serve"
  /\ \A c \in Clients :
       pc[c] \in {"request", "response", "save"} => round[c] < NumRequests

TypeInv == TypeOK /\ Control

LEMMA TypeInit == Init => TypeInv
<1> SUFFICES ASSUME Init PROVE TypeInv
  OBVIOUS
<1>1. LinkTypeOK
  BY DEF Init, LinkInit, LinkTypeOK
<1>2. ArpTypeOK
  BY DEF Init, ArpInit, ArpTypeOK, Map, EmptyMap
<1>3. \A p \in Procs : pc[p] = IF p \in Servers THEN "serve" ELSE "off"
  BY DEF Init
<1>4. \A p \in Procs : up[p] <=> pc[p] # "off"
  BY <1>3, Zenon DEF Init, LinkInit
<1>5. ProgTypeOK
  BY <1>4 DEF Init, ProgTypeOK
<1>6. Control
  BY <1>3 DEF Control
<1> QED BY <1>1, <1>2, <1>5, <1>6 DEF TypeInv, TypeOK

LEMMA TypeStep == TypeInv /\ [Next]_vars => TypeInv'
<1> SUFFICES ASSUME TypeInv, [Next]_vars PROVE TypeInv'
  OBVIOUS
<1>0. LinkTypeOK /\ ArpTypeOK /\ ProgTypeOK /\ Control
  BY DEF TypeInv, TypeOK
<1>1. ASSUME NEW p \in Procs, StartServer(p) PROVE TypeInv'
  <2>1. LinkTypeOK' /\ ArpTypeOK'
    BY <1>0, <1>1, FreshType DEF StartServer
  <2>2. ProgTypeOK' /\ Control'
    BY <1>0, <1>1 DEF StartServer, CreateOrDie, ProgTypeOK, Control, LinkTypeOK
  <2> QED BY <2>1, <2>2 DEF TypeInv, TypeOK
<1>2. ASSUME NEW p \in Procs, StartClient(p) PROVE TypeInv'
  <2>1. LinkTypeOK' /\ ArpTypeOK'
    BY <1>0, <1>2, FreshType, Zenon DEF StartClient
  <2>2. ProgTypeOK' /\ Control'
    BY <1>0, <1>2 DEF StartClient, CreateOrDie, Iterate, ProgTypeOK, Control, LinkTypeOK
  <2> QED BY <2>1, <2>2 DEF TypeInv, TypeOK
<1>3. ASSUME NEW p \in Procs, ServeRequest(p) PROVE TypeInv'
  <2>1. LinkTypeOK' /\ ArpTypeOK'
    BY <1>0, <1>3, HandleRequestType, Zenon DEF ServeRequest
  <2>2. ProgTypeOK' /\ Control'
    BY <1>0, <1>3 DEF ServeRequest, HandleRequest, ProgTypeOK, Control, progVars
  <2> QED BY <2>1, <2>2 DEF TypeInv, TypeOK
<1>4. ASSUME NEW p \in Procs, LoadCache(p) PROVE TypeInv'
  <2>1. LinkTypeOK' /\ ArpTypeOK'
    BY <1>0, <1>4, LoadType DEF LoadCache
  <2>2. ProgTypeOK' /\ Control'
    BY <1>0, <1>4 DEF LoadCache, MaybeLoadArpCache, ProgTypeOK, Control,
                      progVars, linkVars, sockVars
  <2> QED BY <2>1, <2>2 DEF TypeInv, TypeOK
<1>5. ASSUME NEW p \in Procs, IssueRequest(p) PROVE TypeInv'
  <2>1. target[p] \in Ips /\ p \in Clients
    BY <1>0, <1>5 DEF IssueRequest, ProgTypeOK, Control
  <2>2. LinkTypeOK' /\ ArpTypeOK' /\ UNCHANGED up
    BY <1>0, <1>5, <2>1, RequestType, Zenon DEF IssueRequest, Request, sockVars
  <2>3. cache[p][target[p]] \in Macs \cup {NoMac}
    BY <1>0, <2>1, SMTT(20) DEF ArpTypeOK, Map
  <2>4. ProgTypeOK' /\ Control'
    BY <1>0, <1>5, <2>1, <2>2, <2>3, SMTT(20) DEF IssueRequest, Iterate, Fail, ProgTypeOK, Control
  <2> QED BY <2>2, <2>4 DEF TypeInv, TypeOK
<1>6. ASSUME NEW p \in Procs, AwaitResponse(p) PROVE TypeInv'
  <2>1. LinkTypeOK' /\ ArpTypeOK' /\ UNCHANGED up
    BY <1>0, <1>6, HandleResponseType DEF AwaitResponse, HandleResponse
  <2>2. HandleResponse(p, "ok") => Received(p).payload.sha \in Macs
    BY <1>0, HandleResponseType, Zenon DEF Packet
  <2>3. ProgTypeOK' /\ Control'
    BY <1>0, <1>6, <2>1, <2>2 DEF AwaitResponse, Fail, ProgTypeOK, Control
  <2> QED BY <2>1, <2>3 DEF TypeInv, TypeOK
<1>7. ASSUME NEW p \in Procs, SaveCache(p) PROVE TypeInv'
  <2>1. LinkTypeOK' /\ ArpTypeOK' /\ UNCHANGED up
    BY <1>0, <1>7, SaveType, Zenon DEF SaveCache, SerializeArpCache, linkVars, sockVars
  <2>2. ProgTypeOK' /\ Control'
    BY <1>0, <1>7, <2>1 DEF SaveCache, Iterate, ProgTypeOK, Control
  <2> QED BY <2>1, <2>2 DEF TypeInv, TypeOK
<1>8. ASSUME NEW p \in Procs, Exit(p) PROVE TypeInv'
  <2>1. LinkTypeOK' /\ ArpTypeOK'
    BY <1>0, <1>8, FreshType DEF Exit
  <2>2. ProgTypeOK' /\ Control'
    BY <1>0, <1>8 DEF Exit, CloseSocket, ProgTypeOK, Control, LinkTypeOK
  <2> QED BY <2>1, <2>2 DEF TypeInv, TypeOK
<1>9. ASSUME NEW h \in Hosts, Environment(h) PROVE TypeInv'
  <2>1. ArpTypeOK' /\ ProgTypeOK' /\ Control'
    BY <1>0, <1>9 DEF Environment, StrayArrives, Readdress, arpVars, progVars, sockVars,
                      ArpTypeOK, ProgTypeOK, Control
  <2>2. CASE StrayArrives(h)
    BY <1>0, <2>1, <2>2, StrayType DEF TypeInv, TypeOK
  <2>3. CASE Readdress(h)
    <3>1. /\ ifIp' \in [Hosts -> Ips] /\ ifMac' \in [Hosts -> Macs]
          /\ heldIp' \in [Hosts -> SUBSET Ips]
          /\ heldMac' \in [Hosts -> SUBSET Macs]
      <4>1. ASSUME NEW ip \in Ips, ifIp' = [ifIp EXCEPT ![h] = ip],
                   heldIp' = [heldIp EXCEPT ![h] = @ \cup {ip}]
            PROVE  ifIp' \in [Hosts -> Ips] /\ heldIp' \in [Hosts -> SUBSET Ips]
        BY <1>0, <4>1 DEF LinkTypeOK
      <4>2. ASSUME NEW m \in Macs, ifMac' = [ifMac EXCEPT ![h] = m],
                   heldMac' = [heldMac EXCEPT ![h] = @ \cup {m}]
            PROVE  ifMac' \in [Hosts -> Macs] /\ heldMac' \in [Hosts -> SUBSET Macs]
        BY <1>0, <4>2, Zenon DEF LinkTypeOK
      <4> QED BY <1>0, <2>3, <4>1, <4>2 DEF Readdress, LinkTypeOK
    <3>2. LinkTypeOK'
      BY <1>0, <2>3, <3>1, Zenon DEF Readdress, LinkTypeOK, sockVars
    <3> QED BY <2>1, <3>2 DEF TypeInv, TypeOK
  <2> QED BY <1>9, <2>2, <2>3, Zenon DEF Environment
<1>10. CASE UNCHANGED vars
  BY <1>0, <1>10 DEF vars, linkVars, ifVars, sockVars, arpVars, progVars,
                     TypeInv, TypeOK, LinkTypeOK, ArpTypeOK, ProgTypeOK, Control
<1> QED BY <1>1, <1>2, <1>3, <1>4, <1>5, <1>6, <1>7, <1>8, <1>9, <1>10 DEF Next, Step

LEMMA TypeInvariant == Spec => []TypeInv
<1>1. Init => TypeInv
  BY TypeInit, Zenon
<1>2. TypeInv /\ [Next]_vars => TypeInv'
  BY TypeStep, Zenon
<1> QED BY <1>1, <1>2, PTL DEF Spec

\* Type correctness of the whole stack under arping (TypeOK).
THEOREM TypeCorrect == Spec => []TypeOK
<1>1. TypeInv => TypeOK
  BY Zenon DEF TypeInv
<1> QED BY <1>1, TypeInvariant, PTL

-----------------------------------------------------------------------------
(* Who owns the bindings *)

LEMMA HistoryGrows == TypeInv /\ [Next]_vars => Grows
<1> SUFFICES ASSUME TypeInv, [Next]_vars PROVE Grows
  OBVIOUS
<1>1. CASE UNCHANGED <<heldIp, heldMac>> /\ asked \subseteq asked'
  BY <1>1, Zenon DEF Grows
<1>2. ASSUME NEW p \in Procs, Step(p) PROVE Grows
  BY <1>1, <1>2, Zenon DEF Step, ServeRequest, LoadCache, IssueRequest, AwaitResponse, SaveCache,
                    HandleRequest, MaybeLoadArpCache, Request, HandleResponse,
                    SerializeArpCache, linkVars, ifVars, arpVars
<1>3. ASSUME NEW p \in Procs, StartServer(p) \/ StartClient(p) \/ Exit(p) PROVE Grows
  BY <1>1, <1>3, Zenon DEF StartServer, StartClient, Exit, FreshStatics, ifVars
<1>4. ASSUME NEW h \in Hosts, Environment(h) PROVE Grows
  <2>1. heldIp \in [Hosts -> SUBSET Ips] /\ heldMac \in [Hosts -> SUBSET Macs]
    BY Zenon DEF TypeInv, TypeOK, LinkTypeOK
  <2> QED BY <1>4, <2>1, SMTT(20) DEF Environment, StrayArrives, Readdress, ifVars, arpVars, Grows
<1>5. CASE UNCHANGED vars
  BY <1>1, <1>5, Zenon DEF vars, linkVars, ifVars, arpVars
<1> QED BY <1>2, <1>3, <1>4, <1>5, Zenon DEF Next

LEMMA SafeInit == Init => SafeInv
<1> SUFFICES ASSUME Init PROVE SafeInv
  OBVIOUS
<1>1. Addresses
  BY Zenon DEF Init, LinkInit, Addresses
<1>2. SoundQueues
  <2>1. \A p \in Procs : q[p] = <<>>
    BY Zenon DEF Init, LinkInit
  <2>2. \A p \in Procs : Len(q[p]) = 0
    BY <2>1
  <2> QED BY <2>2 DEF SoundQueues
<1>3. BindingsOwned
  BY Zenon DEF Init, ArpInit, EmptyMap, BindingsOwned
<1> QED BY <1>1, <1>2, <1>3, Zenon DEF SafeInv

LEMMA SafeStep == TypeInv /\ SafeInv /\ [Next]_vars => SafeInv'
<1> SUFFICES ASSUME TypeInv, SafeInv, [Next]_vars PROVE SafeInv'
  OBVIOUS
<1>0. /\ LinkTypeOK /\ ArpTypeOK /\ ProgTypeOK /\ Control /\ Grows
      /\ Addresses /\ SoundQueues /\ BindingsOwned
  BY HistoryGrows, Zenon DEF TypeInv, TypeOK, SafeInv
<1>1. ASSUME NEW p \in Procs, StartServer(p) \/ StartClient(p) \/ Exit(p) PROVE SafeInv'
  BY <1>0, <1>1, FreshSafe, Zenon DEF StartServer, StartClient, Exit
<1>2. ASSUME NEW p \in Procs, ServeRequest(p) PROVE SafeInv'
  BY <1>0, <1>2, HandleRequestSafe, Zenon DEF ServeRequest
<1>3. ASSUME NEW p \in Procs, LoadCache(p) PROVE SafeInv'
  BY <1>0, <1>3, LoadSafe, Zenon DEF LoadCache
<1>4. ASSUME NEW p \in Procs, IssueRequest(p) PROVE SafeInv'
  <2>1. target[p] \in Ips
    BY <1>0, <1>4, Zenon DEF IssueRequest, ProgTypeOK, Control
  <2> QED BY <1>0, <1>4, <2>1, RequestSafe, Zenon DEF IssueRequest
<1>5. ASSUME NEW p \in Procs, AwaitResponse(p) PROVE SafeInv'
  BY <1>0, <1>5, HandleResponseSafe, Zenon DEF AwaitResponse
<1>6. ASSUME NEW p \in Procs, SaveCache(p) PROVE SafeInv'
  BY <1>0, <1>6, SaveSafe, Zenon DEF SaveCache
<1>7. ASSUME NEW h \in Hosts, Environment(h) PROVE SafeInv'
  <2>1. BindingsOwned'
    BY <1>0, <1>7, BindingsKept, Zenon DEF Environment, arpVars
  <2>2. CASE StrayArrives(h)
    BY <1>0, <1>7, <2>2, StraySafe, Zenon DEF Environment, arpVars
  <2>3. CASE Readdress(h)
    <3>1. \A f : OnlyAdds(q, q', f)
      BY <2>3, Zenon DEF Readdress, OnlyAdds, sockVars
    <3>2. SoundQueues'
      BY <1>0, <3>1, QueuesStaySound0, Zenon
    <3>3. \A g \in Hosts : ifIp'[g] \in heldIp'[g] /\ ifMac'[g] \in heldMac'[g]
      <4>1. ASSUME NEW ip \in Ips, ifIp' = [ifIp EXCEPT ![h] = ip],
                   heldIp' = [heldIp EXCEPT ![h] = @ \cup {ip}],
                   UNCHANGED <<ifMac, heldMac>>
            PROVE  \A g \in Hosts : ifIp'[g] \in heldIp'[g] /\ ifMac'[g] \in heldMac'[g]
        BY <1>0, <4>1, Zenon DEF Addresses, LinkTypeOK
      <4>2. ASSUME NEW m \in Macs, ifMac' = [ifMac EXCEPT ![h] = m],
                   heldMac' = [heldMac EXCEPT ![h] = @ \cup {m}],
                   UNCHANGED <<ifIp, heldIp>>
            PROVE  \A g \in Hosts : ifIp'[g] \in heldIp'[g] /\ ifMac'[g] \in heldMac'[g]
        BY <1>0, <4>2, Zenon DEF Addresses, LinkTypeOK
      <4> QED BY <2>3, <4>1, <4>2, Zenon DEF Readdress
    <3>4. Addresses'
      BY <1>0, <2>3, <3>3, Zenon DEF Readdress, Addresses, Grows, sockVars
    <3> QED BY <2>1, <3>2, <3>4, Zenon DEF SafeInv
  <2> QED BY <1>7, <2>2, <2>3, Zenon DEF Environment
<1>8. CASE UNCHANGED vars
  BY <1>0, <1>8, LinkKept, BindingsKept, Zenon DEF vars, arpVars, SafeInv
<1> QED BY <1>1, <1>2, <1>3, <1>4, <1>5, <1>6, <1>7, <1>8, Zenon DEF Next, Step

LEMMA SafeInvariant == Spec => []SafeInv
<1>1. Init => SafeInv
  BY SafeInit, Zenon
<1>2. TypeInv /\ SafeInv /\ [Next]_vars => SafeInv'
  BY SafeStep, Zenon
<1> QED BY <1>1, <1>2, TypeInvariant, PTL DEF Spec

\* No ARP cache, in memory or on disk, ever binds an IP address to the MAC
\* address of another host, whatever the link and the processes suffer
\* (BindingsOwned: HandleRequest answers with its own pair of addresses,
\* RecvEthernetFrame drops damaged frames, HandleResponse stores the pair).
THEOREM BindingsAreOwned == Spec => []BindingsOwned
<1>1. SafeInv => BindingsOwned
  BY Zenon DEF SafeInv
<1> QED BY <1>1, SafeInvariant, PTL

\* Every intact response in a receive queue answers a request that its target
\* host sent (RepliesSolicited: HandleRequest swaps the addresses it was given).
THEOREM RepliesAreSolicited == Spec => []RepliesSolicited
<1>1. SafeInv => RepliesSolicited
  BY Zenon DEF SafeInv, SoundQueues, Sound, RepliesSolicited
<1> QED BY <1>1, SafeInvariant, PTL

-----------------------------------------------------------------------------
(* A client that is alone reports the address it asked for *)

LEMMA QuietInit == ASSUME NEW c, Init PROVE QuietInv(c)
<1>1. \A p \in Procs : Len(q[p]) = 0
  BY DEF Init, LinkInit
<1>2. Idle(q) /\ Pending(q, target[c])
  BY <1>1 DEF Idle, Pending
<1>3. \A p \in Procs : ifIp[HostOf[p]] = IfIp0[HostOf[p]] /\ hostIp[p] = NoIp
  BY Zenon DEF Init, LinkInit
<1>4. ResolvesTarget
  BY Zenon DEF Init, ResolvesTarget
<1> QED BY <1>2, <1>3, <1>4, Zenon DEF QuietInv

LEMMA ResolvesKept ==
  ASSUME Grows, ResolvesTarget, UNCHANGED <<target, answer>>
  PROVE  ResolvesTarget'
BY OwnedGrows, Zenon DEF ResolvesTarget

\* Closing a socket, or opening a new one, leaves nothing live behind in it.
LEMMA FreshQuiet ==
  ASSUME LinkTypeOK, NEW p \in Procs, CreateOrDie(p) \/ CloseSocket(p), NEW c,
         QuietInv(c), UNCHANGED ifIp
  PROVE  /\ \A s \in Procs : /\ ifIp'[HostOf[s]] = IfIp0[HostOf[s]]
                             /\ hostIp'[s] \in {NoIp, IfIp0[HostOf[s]]}
         /\ Pending(q', target[c])
         /\ Idle(q) => Idle(q')
<1>1. \A s \in Procs : IF s = p THEN Len(q'[s]) = 0 ELSE q'[s] = q[s]
  BY DEF LinkTypeOK, CreateOrDie, CloseSocket, Fresh
<1>2. ASSUME NEW s \in Procs, NEW i \in 1..Len(q'[s])
      PROVE  q'[s] = q[s]
  BY <1>1, <1>2
<1>3. Pending(q, target[c])
  BY Zenon DEF QuietInv
<1>4. Pending(q', target[c])
  BY <1>2, <1>3, SMTT(20) DEF Pending
<1>5. Idle(q) => Idle(q')
  BY <1>2 DEF Idle
<1>6. hostIp' = [hostIp EXCEPT ![p] = NoIp]
  BY Zenon DEF CreateOrDie, CloseSocket, Fresh
<1> QED BY <1>4, <1>5, <1>6 DEF QuietInv, LinkTypeOK

LEMMA QuietHostIp ==
  ASSUME NEW c, QuietInv(c), NEW p \in Procs
  PROVE  HostIp(p) = IfIp0[HostOf[p]]
BY Zenon DEF QuietInv, HostIp

\* A server answers a live request, and nothing else.
LEMMA QuietServe ==
  ASSUME NEW c, OneClient(c), TypeInv, Grows, QuietInv(c), UNCHANGED ifIp,
         NEW p \in Procs, ServeRequest(p)
  PROVE  QuietInv(c)'
<1> DEFINE r == Received(p).payload
<1>1. LinkTypeOK /\ UNCHANGED <<pc, target, answer>> /\ Pending(q, target[c]) /\ p \in Servers
  BY Zenon DEF TypeInv, TypeOK, Control, ServeRequest, progVars, QuietInv
<1>2. q[p] # <<>>
  BY DEF ServeRequest, HandleRequest, RecvEthernetFrame
<1>3. /\ Pending(Drained(p), target[c])
      /\ Live(p, Received(p)) \/ Idle(q) => Idle(Drained(p))
  BY <1>1, <1>2, DrainedPending, Zenon
<1>4. Pending(q', target[c]) /\ (Idle(q) => Idle(q'))
  <2>1. CASE q' = Drained(p)
    BY <1>3, <2>1, Zenon
  <2>2. ASSUME RecvEthernetFrame(p, "ok"), r.op = "request", ForThisHost(p, r),
               NEW st, SendResponse(p, Drained(p), r, st)
        PROVE  Pending(q', target[c]) /\ ~Idle(q)
    <3>1. Live(p, Received(p)) /\ r.tpa = IfIp0[HostOf[p]]
      BY <2>2, QuietHostIp, Zenon DEF Live, ForThisHost
    <3>2. q[p] \in Seq(Frame)
      BY <1>1, Zenon DEF LinkTypeOK
    <3>3. 1 \in 1..Len(q[p]) /\ Received(p) = q[p][1] /\ Received(p) \in Frame
      BY <1>2, <3>2, TailType, Zenon DEF Received
    <3>4. ~Idle(q)
      BY <3>1, <3>3, SMTT(20) DEF Idle
    <3>5. r.tpa = target[c]
      BY <1>1, <3>1, <3>3 DEF Pending, Concerns
    <3>6. Queues(Drained(p)) /\ Idle(Drained(p))
      BY <1>1, <1>2, <1>3, <3>1, DrainedType, Zenon
    <3>7. r \in Packet
      BY <2>2, <3>3, OpcodeIsPacket
    <3>8. Response(p, r) \in Packet /\ Response(p, r).tha \in Macs
      BY <1>1, <3>7, ResponseType, Zenon
    <3> DEFINE f == [dst |-> Response(p, r).tha, fcs |-> TRUE, payload |-> Response(p, r)]
    <3>9. f \in Frame
      BY <3>8 DEF Frame
    <3>10. f.fcs /\ f.payload.op = "response" /\ f.payload.spa = target[c]
      BY <3>5, Zenon DEF Response
    <3>11. \A s \in Procs : Live(s, f) => s = c /\ Concerns(s, f, target[c])
      BY <3>10, Zenon DEF Live, Concerns, OneClient
    <3>12. PICK result \in {"sent", "-1", "-123"} : SendTo(p, Drained(p), f, result)
      BY <2>2 DEF SendResponse, SendEthernetFrame
    <3> HIDE DEF f
    <3>13. CASE q' = Drained(p)
      BY <1>3, <3>4, <3>13, Zenon
    <3>14. ASSUME NEW H, q' = Deliver(Drained(p), f, {s \in Procs \ {p} : up[s] /\ HostOf[s] \in H})
           PROVE  Pending(q', target[c])
      <4> DEFINE S == {s \in Procs \ {p} : up[s] /\ HostOf[s] \in H}
      <4>1. \A s \in S : s \in Procs
        BY Zenon
      <4> HIDE DEF S
      <4> QED BY <3>6, <3>9, <3>11, <3>14, <4>1, DeliverPending, SMTT(20) DEF S
    <3> QED BY <3>4, <3>12, <3>13, <3>14, Zenon DEF SendTo
  <2> QED BY <2>1, <2>2, Zenon DEF ServeRequest, HandleRequest
<1>5. \A s \in Procs : /\ ifIp'[HostOf[s]] = IfIp0[HostOf[s]]
                       /\ hostIp'[s] \in {NoIp, IfIp0[HostOf[s]]}
  <2>1. CASE UNCHANGED hostIp
    BY <2>1 DEF QuietInv
  <2>2. CASE CacheHostIp(p)
    BY <1>1, <2>2, QuietHostIp, Zenon DEF CacheHostIp, QuietInv, LinkTypeOK
  <2> QED BY <2>1, <2>2, Zenon DEF ServeRequest, HandleRequest
<1>6. ResolvesTarget'
  BY <1>1, ResolvesKept, Zenon DEF QuietInv
<1> QED BY <1>1, <1>4, <1>5, <1>6 DEF QuietInv

\* The client asks while nothing is live, and at most one server is asked.
LEMMA QuietIssue ==
  ASSUME NEW c, OneClient(c), TypeInv, SafeInv, Grows, QuietInv(c), UNCHANGED ifIp,
         NEW p \in Procs, IssueRequest(p)
  PROVE  QuietInv(c)'
<1>1. /\ LinkTypeOK /\ ArpTypeOK /\ BindingsOwned /\ ResolvesTarget
      /\ pc[p] = "request" /\ target' = target
  BY Zenon DEF TypeInv, TypeOK, SafeInv, QuietInv, IssueRequest
<1>2. p = c /\ c \in Clients /\ c \notin Servers
  BY <1>1 DEF TypeInv, Control, OneClient
<1>3. target[c] \in Ips /\ c \in Procs
  BY <1>1, <1>2, Zenon DEF TypeInv, TypeOK, ProgTypeOK
<1>4. Idle(q)
  BY <1>1, <1>2 DEF QuietInv
<1>5. ~IoError
  BY DEF OneClient, IoError
<1>6. CASE Request(c, target[c], "exists") /\ answer' = [answer EXCEPT ![c] = cache[c][target[c]]]
  <2>1. cache[c][target[c]] # NoMac /\ UNCHANGED <<q, hostIp>>
    BY <1>5, <1>6, Zenon DEF Request, sockVars, SendEthernetFrame
  <2>2. Owned(target[c], cache[c][target[c]])'
    <3>1. Owned(target[c], cache[c][target[c]])
      BY <1>1, <1>3, <2>1, Zenon DEF BindingsOwned
    <3>2. cache' = cache
      BY <1>6, Zenon DEF Request
    <3> QED BY <1>1, <3>1, <3>2, Zenon DEF Owned, Grows
  <2>3. ResolvesTarget'
    <3>1. answer'[c] = cache[c][target[c]] /\ cache' = cache
      BY <1>3, <1>6, Zenon DEF Request, TypeInv, TypeOK, ProgTypeOK
    <3>2. Owned(target[c], answer[c])'
      BY <1>1, <2>2, <3>1, Zenon DEF Owned
    <3> QED BY <1>2, <3>2 DEF ResolvesTarget, OneClient
  <2>4. Idle(q')
    BY <1>4, <2>1, Zenon
  <2> QED BY <2>1, <2>3, <2>4, IdlePending, Zenon DEF QuietInv
<1>7. CASE Request(c, target[c], "error")
  BY <1>5, <1>7, Zenon DEF Request, GetHostMacFails, GetHostIpFails, SendEthernetFrame, SendTo
<1>8. CASE Request(c, target[c], "ok") /\ pc' = [pc EXCEPT ![c] = "response"] /\ UNCHANGED answer
  <2> DEFINE request == [op |-> "request", sha |-> HostMac(c), spa |-> HostIp(c),
                         tha |-> kBroadcastMac, tpa |-> target[c]]
             f == [dst |-> kBroadcastMac, fcs |-> TRUE, payload |-> request]
  <2>1. CacheHostIp(c) /\ SendEthernetFrame(c, q, kBroadcastMac, request, "ok")
    BY <1>8, Zenon DEF Request
  <2>2. HostMac(c) \in Macs /\ HostIp(c) \in Ips
    BY <1>1, <1>3, Zenon DEF HostMac, HostIp, LinkTypeOK
  <2>3. f \in Frame
    BY <1>3, <2>2 DEF Frame, Packet
  <2>4. f.payload.op = "request" /\ f.payload.tpa = target[c]
    OBVIOUS
  <2>5. PICK result \in {"sent", "-1", "-123"} : SendTo(c, q, f, result)
    BY <2>1, Zenon DEF SendEthernetFrame
  <2> HIDE DEF f
  <2>6. \A s \in Servers : Concerns(s, f, target[c])
    BY <2>4 DEF Concerns
  <2>7. \A s, t \in Servers : Live(s, f) /\ Live(t, f) => s = t
    BY <2>4, Zenon DEF Live, OneClient
  <2>8. PICK H : q' = Deliver(q, f, {s \in Procs \ {c} : up[s] /\ HostOf[s] \in H})
    BY <1>5, <2>5 DEF SendTo, MakeSockAddrFails, GetInterfaceIndexFails
  <2>9. Pending(q', target[c])
    <3> DEFINE S == {s \in Procs \ {c} : up[s] /\ HostOf[s] \in H}
    <3>1. \A s \in S : s \in Servers
      BY DEF OneClient
    <3>2. Queues(q)
      BY <1>1 DEF Queues, LinkTypeOK
    <3> HIDE DEF S
    <3>3. Pending(Deliver(q, f, S), target[c])
      BY <1>4, <2>3, <2>6, <2>7, <3>1, <3>2, DeliverPending
    <3> QED BY <2>8, <3>3 DEF S
  <2>10. \A s \in Procs : /\ ifIp'[HostOf[s]] = IfIp0[HostOf[s]]
                          /\ hostIp'[s] \in {NoIp, IfIp0[HostOf[s]]}
    BY <1>1, <1>3, <2>1, QuietHostIp, Zenon DEF CacheHostIp, QuietInv, LinkTypeOK
  <2>11. ResolvesTarget'
    BY <1>1, <1>8, ResolvesKept, Zenon
  <2>12. pc'[c] = "response"
    BY <1>3, <1>8 DEF TypeInv, TypeOK, ProgTypeOK
  <2> QED BY <1>1, <2>9, <2>10, <2>11, <2>12, Zenon DEF QuietInv
<1> QED BY <1>2, <1>6, <1>7, <1>8, Zenon DEF IssueRequest

\* What the client takes is the one live frame: a response about its target.
LEMMA QuietAwait ==
  ASSUME NEW c, OneClient(c), TypeInv, SafeInv, Grows, QuietInv(c), UNCHANGED ifIp,
         NEW p \in Procs, AwaitResponse(p)
  PROVE  QuietInv(c)'
<1> DEFINE r == Received(p).payload
<1>1. /\ LinkTypeOK /\ SoundQueues /\ ResolvesTarget /\ Pending(q, target[c])
      /\ pc[p] = "response" /\ target' = target
  BY Zenon DEF TypeInv, TypeOK, SafeInv, QuietInv, AwaitResponse
<1>2. p = c /\ c \in Clients /\ c \notin Servers
  BY <1>1 DEF TypeInv, Control, OneClient
<1>3. ~IoError
  BY DEF OneClient, IoError
<1>4. q[p] # <<>> /\ q' = Drained(p) /\ UNCHANGED hostIp
  BY <1>3, Zenon DEF AwaitResponse, HandleResponse, RecvFails, RecvEthernetFrame
<1>5. q[p] \in Seq(Frame)
  BY <1>1, Zenon DEF LinkTypeOK
<1>6. 1 \in 1..Len(q[p]) /\ Received(p) = q[p][1]
  BY <1>4, <1>5, TailType, Zenon DEF Received
<1>7. Live(p, Received(p)) /\ Concerns(p, Received(p), target[c])
  <2>1. Live(p, q[p][1])
    BY <1>2, Zenon DEF Live
  <2>2. Concerns(p, q[p][1], target[c])
    BY <1>1, <1>6, <2>1, Zenon DEF Pending
  <2> QED BY <1>6, <2>1, <2>2, Zenon
<1>8. Received(p).fcs /\ r.op = "response" /\ r.spa = target[c]
  BY <1>2, <1>7 DEF Concerns
<1>9. Idle(q') /\ Pending(q', target[c])
  BY <1>1, <1>4, <1>7, DrainedPending, Zenon
<1>10. answer' = [answer EXCEPT ![p] = r.sha]
  BY <1>3, <1>8, Zenon DEF AwaitResponse, HandleResponse, RecvFails, RecvEthernetFrame
<1>11. ResolvesTarget'
  <2>1. Owned(target[c], r.sha)
    <3>1. Sound(Received(p), heldIp, heldMac, asked)
      BY <1>1, <1>6 DEF SoundQueues
    <3>2. \E h \in Hosts : r.spa \in heldIp[h] /\ r.sha \in heldMac[h]
      BY <1>8, <3>1, Zenon DEF Sound
    <3> QED BY <1>8, <3>2, Zenon DEF Owned
  <2>2. answer'[c] = r.sha
    BY <1>2, <1>10 DEF TypeInv, TypeOK, ProgTypeOK
  <2> HIDE DEF r
  <2>3. Owned(target[c], answer[c])'
    BY <1>1, <2>1, <2>2, Zenon DEF Owned, Grows
  <2> QED BY <2>3, Zenon DEF ResolvesTarget, OneClient
<1> QED BY <1>1, <1>4, <1>9, <1>11, Zenon DEF QuietInv

LEMMA QuietStep ==
  ASSUME NEW c, OneClient(c), TypeInv, SafeInv, QuietInv(c), [Next]_vars, [UNCHANGED ifIp]_vars
  PROVE  QuietInv(c)'
<1>1. ifIp' = ifIp /\ Grows /\ LinkTypeOK
  BY HistoryGrows, Zenon DEF vars, linkVars, ifVars, TypeInv, TypeOK
<1>2. /\ \A p \in Procs : /\ ifIp[HostOf[p]] = IfIp0[HostOf[p]]
                          /\ hostIp[p] \in {NoIp, IfIp0[HostOf[p]]}
      /\ Pending(q, target[c]) /\ (pc[c] # "response" => Idle(q)) /\ ResolvesTarget
  BY Zenon DEF QuietInv
<1>3. CASE UNCHANGED <<q, hostIp, target, answer>> /\ (pc'[c] # "response" => pc[c] # "response")
  BY <1>1, <1>2, <1>3, ResolvesKept, Zenon DEF QuietInv
<1>4. /\ pc \in [Procs -> {"off", "serve", "request", "response", "save", "done"}]
      /\ answer \in [Procs -> Macs \cup {NoMac}] /\ c \in Procs
  BY Zenon DEF TypeInv, TypeOK, ProgTypeOK, OneClient
<1>5. ASSUME NEW p \in Procs, StartServer(p) \/ Exit(p) PROVE QuietInv(c)'
  <2>1. /\ CreateOrDie(p) \/ CloseSocket(p)
        /\ UNCHANGED <<target, answer>> /\ pc[p] # "response"
        /\ pc' = [pc EXCEPT ![p] = "serve"] \/ pc' = [pc EXCEPT ![p] = "off"]
    BY <1>5 DEF StartServer, Exit, OneClient
  <2>2. pc'[c] # "response" => pc[c] # "response"
    BY <1>4, <2>1
  <2> QED BY <1>1, <1>2, <2>1, <2>2, FreshQuiet, ResolvesKept, Zenon DEF QuietInv
<1>6. ASSUME NEW p \in Procs, StartClient(p) PROVE QuietInv(c)'
  <2>1. p = c /\ CreateOrDie(p) /\ pc[p] = "off" /\ answer' = [answer EXCEPT ![p] = NoMac]
    BY <1>6, Zenon DEF StartClient, OneClient
  <2>2. Idle(q') /\ \A s \in Procs : /\ ifIp'[HostOf[s]] = IfIp0[HostOf[s]]
                                     /\ hostIp'[s] \in {NoIp, IfIp0[HostOf[s]]}
    BY <1>1, <1>2, <2>1, FreshQuiet
  <2>3. ResolvesTarget'
    BY <1>4, <2>1 DEF ResolvesTarget, OneClient
  <2> QED BY <2>2, <2>3, IdlePending, Zenon DEF QuietInv
<1>7. ASSUME NEW p \in Procs, LoadCache(p) PROVE QuietInv(c)'
  BY <1>3, <1>7, Zenon DEF LoadCache, MaybeLoadArpCache, linkVars, sockVars, progVars
<1>8. ASSUME NEW p \in Procs, SaveCache(p) PROVE QuietInv(c)'
  <2>1. pc'[c] # "response" => pc[c] # "response"
    BY <1>4, <1>8, Zenon DEF SaveCache, Iterate
  <2> QED BY <1>3, <1>8, <2>1, Zenon DEF SaveCache, SerializeArpCache, linkVars, sockVars
<1>9. ASSUME NEW h \in Hosts, Environment(h) PROVE QuietInv(c)'
  BY <1>3, <1>9 DEF Environment, StrayArrives, Readdress, OneClient, sockVars, progVars
<1>10. CASE UNCHANGED vars
  BY <1>3, <1>10, Zenon DEF vars, linkVars, sockVars, progVars
<1>11. ASSUME NEW p \in Procs, ServeRequest(p) \/ IssueRequest(p) \/ AwaitResponse(p)
       PROVE  QuietInv(c)'
  BY <1>1, <1>11, QuietServe, QuietIssue, QuietAwait, Zenon
<1> QED BY <1>5, <1>6, <1>7, <1>8, <1>9, <1>10, <1>11, Zenon DEF Next, Step

\* While no host is given another IP address, the only client of a link with
\* one server at most for an address, where no frame is damaged or comes from
\* elsewhere, no call fails and nobody is killed, reports a MAC address of the
\* host it asked for, however often it is run, whichever frames are lost or
\* flooded, and whether or not a server runs beside it (ResolvesTarget).
THEOREM LoneClientResolves ==
  ASSUME NEW c, OneClient(c)
  PROVE  Spec /\ [][UNCHANGED ifIp]_vars => []ResolvesTarget
<1>1. Init => QuietInv(c)
  BY QuietInit, Zenon
<1>2. TypeInv /\ SafeInv /\ QuietInv(c) /\ [Next]_vars /\ [UNCHANGED ifIp]_vars => QuietInv(c)'
  BY QuietStep, Zenon
<1>3. QuietInv(c) => ResolvesTarget
  BY Zenon DEF QuietInv
<1> QED BY <1>1, <1>2, <1>3, TypeInvariant, SafeInvariant, PTL DEF Spec

-----------------------------------------------------------------------------
(* The cache file of each host and its one writer, the host's client *)

\* All that ties client c to the file of its host.
DiskOK(c) ==
  LET disk == file[HostOf[c]]
  IN  /\ pc[c] = "off" => ~loaded[c]
      /\ pc[c] \in {"response", "save"} => loaded[c]
      /\ ~loaded[c] => cache[c] = EmptyMap
      /\ pc[c] = "save" => disk = EmptyMap /\ \E ip \in Ips : cache[c][ip] = answer[c]
      /\ pc[c] # "save" /\ loaded[c] => disk = cache[c]
      /\ pc[c] = "done" /\ ret[c] = "0" /\ NumRequests > 0 =>
           \E ip \in Ips : disk[ip] = answer[c]

DiskInv == \A c \in Clients : DiskOK(c)

Untouched(c) ==
  /\ pc'[c] = pc[c] /\ loaded'[c] = loaded[c] /\ cache'[c] = cache[c]
  /\ answer'[c] = answer[c] /\ ret'[c] = ret[c]
  /\ file'[HostOf[c]] = file[HostOf[c]]

LEMMA UntouchedOK ==
  ASSUME NEW c \in Clients, DiskOK(c), Untouched(c)
  PROVE  DiskOK(c)'
BY Zenon DEF DiskOK, Untouched

LEMMA DiskInit == Init => DiskInv
BY DEF Init, ArpInit, DiskInv, DiskOK

\* A client's file is written by no other client.
LEMMA OthersUntouched ==
  ASSUME TypeInv, NEW p \in Procs, NEW c \in Clients, c # p,
         StartServer(p) \/ StartClient(p) \/ Step(p) \/ Exit(p)
  PROVE  Untouched(c)
<1>0. c \in Procs /\ ArpTypeOK /\ ProgTypeOK
  BY Zenon DEF TypeInv, TypeOK
<1>1. CASE StartServer(p) \/ StartClient(p) \/ Exit(p)
  BY <1>0, <1>1 DEF StartServer, StartClient, Exit, FreshStatics, Iterate, Untouched,
                    ArpTypeOK, ProgTypeOK
<1>2. CASE ServeRequest(p) \/ LoadCache(p)
  BY <1>0, <1>2, Zenon DEF ServeRequest, LoadCache, HandleRequest, MaybeLoadArpCache, arpVars,
                    progVars, Untouched, ArpTypeOK, ProgTypeOK
<1>3. CASE IssueRequest(p)
  BY <1>0, <1>3, Zenon DEF IssueRequest, Request, Iterate, Fail, Untouched, ArpTypeOK, ProgTypeOK
<1>4. ASSUME pc[p] \in {"response", "save"} PROVE HostOf[c] # HostOf[p]
  BY <1>4, Zenon DEF TypeInv, Control
<1>5. CASE AwaitResponse(p)
  <2>1. CASE HandleResponse(p, "error") /\ Fail(p) /\ UNCHANGED answer
    BY <1>0, <2>1, Zenon DEF HandleResponse, Fail, Untouched, ProgTypeOK
  <2>2. CASE /\ HandleResponse(p, "ok") /\ pc' = [pc EXCEPT ![p] = "save"]
             /\ answer' = [answer EXCEPT ![p] = Received(p).payload.sha]
             /\ UNCHANGED <<round, ret>>
    <3>1. HostOf[c] # HostOf[p]
      BY <1>4, <1>5, Zenon DEF AwaitResponse
    <3>2. pc'[c] = pc[c] /\ answer'[c] = answer[c] /\ ret'[c] = ret[c]
      BY <1>0, <2>2, Zenon DEF ProgTypeOK
    <3>3. cache'[c] = cache[c] /\ loaded'[c] = loaded[c]
      BY <1>0, <2>2, Zenon DEF HandleResponse, Learn, ArpTypeOK
    <3>4. HostOf[c] \in Hosts
      BY <1>0, LinkAssumption, Zenon
    <3>5. file'[HostOf[c]] = file[HostOf[c]]
      BY <1>0, <2>2, <3>1, <3>4, Zenon DEF HandleResponse, ArpTypeOK
    <3> QED BY <3>2, <3>3, <3>5, Zenon DEF Untouched
  <2> QED BY <1>5, <2>1, <2>2, Zenon DEF AwaitResponse
<1>6. CASE SaveCache(p)
  BY <1>0, <1>4, <1>6 DEF SaveCache, SerializeArpCache, Iterate, Untouched, ArpTypeOK,
                          ProgTypeOK
<1> QED BY <1>1, <1>2, <1>3, <1>5, <1>6 DEF Step

LEMMA DiskStep == TypeInv /\ DiskInv /\ [Next]_vars => DiskInv'
<1> SUFFICES ASSUME TypeInv, DiskInv, [Next]_vars, NEW c \in Clients PROVE DiskOK(c)'
  BY DEF DiskInv
<1>0. /\ c \in Procs /\ HostOf[c] \in Hosts /\ DiskOK(c)
      /\ ArpTypeOK /\ ProgTypeOK /\ Control
  BY DEF TypeInv, TypeOK, DiskInv
<1>1. ASSUME NEW p \in Procs, p # c,
             StartServer(p) \/ StartClient(p) \/ Step(p) \/ Exit(p)
      PROVE  DiskOK(c)'
  BY <1>0, <1>1, OthersUntouched, UntouchedOK
<1>2. CASE StartClient(c)
  BY <1>0, <1>2, Zenon DEF StartClient, FreshStatics, Iterate, DiskOK, ArpTypeOK, ProgTypeOK
<1>3. CASE Exit(c)
  BY <1>0, <1>3 DEF Exit, FreshStatics, DiskOK, ArpTypeOK, ProgTypeOK
<1>4. CASE StartServer(c) \/ ServeRequest(c)
  BY <1>0, <1>4, Zenon DEF StartServer, ServeRequest, Control
<1>5. CASE LoadCache(c)
  <2>1. MergeMap(EmptyMap, file[HostOf[c]]) = file[HostOf[c]]
    <3>1. file[HostOf[c]] \in Map
      BY <1>0, Zenon DEF ArpTypeOK
    <3> QED BY <3>1, Zenon DEF MergeMap, EmptyMap, Map
  <2> QED BY <1>0, <1>5, <2>1 DEF LoadCache, MaybeLoadArpCache, progVars, DiskOK, ArpTypeOK,
                                  ProgTypeOK
<1>6. CASE IssueRequest(c)
  <2>1. target[c] \in Ips
    BY <1>0, <1>6, Zenon DEF IssueRequest, ProgTypeOK
  <2>2. loaded[c] /\ pc[c] = "request" /\ UNCHANGED <<cache, loaded, file>>
    BY <1>6, Zenon DEF IssueRequest, Request
  <2>3. CASE answer' = [answer EXCEPT ![c] = cache[c][target[c]]] /\ Iterate(c, round[c] + 1)
    <3>1. answer'[c] = cache[c][target[c]] /\ pc'[c] \in {"request", "done"}
      BY <1>0, <2>3, Zenon DEF Iterate, ProgTypeOK
    <3> QED BY <1>0, <2>1, <2>2, <3>1, Zenon DEF DiskOK
  <2>4. CASE Fail(c)
    <3>1. pc'[c] = "done" /\ ret'[c] = "-1"
      BY <1>0, <2>4, Zenon DEF Fail, ProgTypeOK
    <3> QED BY <1>0, <2>2, <3>1, Zenon DEF DiskOK
  <2>5. CASE pc' = [pc EXCEPT ![c] = "response"]
    <3>1. pc'[c] = "response"
      BY <1>0, <2>5, Zenon DEF ProgTypeOK
    <3> QED BY <1>0, <2>2, <3>1, Zenon DEF DiskOK
  <2> QED BY <1>6, <2>3, <2>4, <2>5, Zenon DEF IssueRequest
<1>7. CASE AwaitResponse(c)
  <2>1. CASE HandleResponse(c, "error") /\ Fail(c) /\ UNCHANGED answer
    BY <1>0, <1>7, <2>1, Zenon
       DEF AwaitResponse, HandleResponse, Fail, DiskOK, ArpTypeOK, ProgTypeOK
  <2>2. CASE /\ HandleResponse(c, "ok")
             /\ pc' = [pc EXCEPT ![c] = "save"]
             /\ answer' = [answer EXCEPT ![c] = Received(c).payload.sha]
    <3> DEFINE r == Received(c).payload
    <3>1. r \in Packet
      BY <1>0, <2>2, HandleResponseType, Zenon DEF TypeInv, TypeOK
    <3>2. r.spa \in Ips
      BY <3>1, Zenon DEF Packet
    <3>3. pc[c] = "response" /\ pc'[c] = "save" /\ answer'[c] = r.sha
      BY <1>0, <1>7, <2>2, Zenon DEF AwaitResponse, ProgTypeOK
    <3>4. /\ cache' = Learn(c, r) /\ file'[HostOf[c]] = EmptyMap /\ UNCHANGED loaded
      BY <1>0, <2>2, Zenon DEF HandleResponse, ArpTypeOK
    <3> HIDE DEF r
    <3>5. cache'[c][r.spa] = answer'[c]
      BY <1>0, <3>2, <3>3, <3>4, Zenon DEF Learn, ArpTypeOK, Map
    <3> QED BY <1>0, <3>2, <3>3, <3>4, <3>5, Zenon DEF DiskOK
  <2> QED BY <1>7, <2>1, <2>2, Zenon DEF AwaitResponse
<1>8. CASE SaveCache(c)
  BY <1>0, <1>8, Zenon DEF SaveCache, SerializeArpCache, Iterate, DiskOK, ArpTypeOK, ProgTypeOK
<1>9. ASSUME NEW h \in Hosts, Environment(h) PROVE DiskOK(c)'
  BY <1>0, <1>9, Zenon DEF Environment, arpVars, progVars, DiskOK
<1>10. CASE UNCHANGED vars
  BY <1>0, <1>10, Zenon DEF vars, arpVars, progVars, DiskOK
<1> QED BY <1>1, <1>2, <1>3, <1>4, <1>5, <1>6, <1>7, <1>8, <1>9, <1>10, Zenon DEF Next, Step

LEMMA DiskInvariant == Spec => []DiskInv
<1>1. Init => DiskInv
  BY DiskInit, Zenon
<1>2. TypeInv /\ DiskInv /\ [Next]_vars => DiskInv'
  BY DiskStep, Zenon
<1> QED BY <1>1, <1>2, TypeInvariant, PTL DEF Spec

\* While a client runs, its host's cache file holds exactly the client's map,
\* but for the window inside SerializeArpCache (DiskMirrorsMemory).
THEOREM DiskIsMirrored == Spec => []DiskMirrorsMemory
<1>1. DiskInv => DiskMirrorsMemory
  BY Zenon DEF DiskInv, DiskOK, DiskMirrorsMemory
<1> QED BY <1>1, DiskInvariant, PTL

\* An address a client has reported, and returned 0 for, is in the file
\* (ReportedIsOnDisk).
THEOREM ReportedAddressesAreOnDisk == Spec => []ReportedIsOnDisk
<1>1. DiskInv => ReportedIsOnDisk
  BY Zenon DEF DiskInv, DiskOK, ReportedIsOnDisk
<1> QED BY <1>1, DiskInvariant, PTL

\* A binding leaves the disk only by the truncating open of a client that has
\* it in memory and writes it back next (DropsAreRewritten).
THEOREM DroppedBindingsAreRewritten == Spec => DropsAreRewritten
<1>1. TypeInv /\ DiskInv /\ [Next]_vars => [RewritesDrops]_vars
  <2> SUFFICES ASSUME TypeInv, DiskInv, Next PROVE RewritesDrops
    BY Zenon DEF vars
  <2> SUFFICES ASSUME NEW h \in Hosts, NEW ip \in Ips,
                      file[h][ip] # NoMac, file'[h][ip] = NoMac
               PROVE  \E c \in Clients : /\ HostOf[c] = h /\ pc'[c] = "save"
                                         /\ cache'[c][ip] # NoMac
    BY DEF RewritesDrops
  <2>0. ArpTypeOK /\ ProgTypeOK /\ Control /\ LinkTypeOK
    BY Zenon DEF TypeInv, TypeOK
  <2>1. \E p \in Procs : SaveCache(p) \/ AwaitResponse(p)
    <3>1. file' # file
      OBVIOUS
    <3>2. ASSUME NEW p \in Procs, StartServer(p) \/ StartClient(p) \/ Exit(p)
          PROVE  UNCHANGED file
      BY <3>2, Zenon DEF StartServer, StartClient, Exit, FreshStatics
    <3>3. ASSUME NEW p \in Procs, ServeRequest(p) \/ LoadCache(p) \/ IssueRequest(p)
          PROVE  UNCHANGED file
      BY <3>3, Zenon DEF ServeRequest, HandleRequest, LoadCache, MaybeLoadArpCache, IssueRequest,
                  Request, arpVars
    <3>4. ASSUME NEW g \in Hosts, Environment(g)
          PROVE  UNCHANGED file
      BY <3>4, Zenon DEF Environment, arpVars
    <3> QED BY <3>1, <3>2, <3>3, <3>4, Zenon DEF Next, Step
  <2> PICK p \in Procs : SaveCache(p) \/ AwaitResponse(p)
    BY <2>1, Zenon
  <2>2. p \in Clients /\ DiskOK(p)
    BY <2>0, Zenon DEF SaveCache, AwaitResponse, Control, DiskInv
  <2>3. HostOf[p] = h
    BY <2>0, Zenon DEF SaveCache, SerializeArpCache, AwaitResponse, HandleResponse, ArpTypeOK
  <2>4. ~SaveCache(p)
    <3> SUFFICES ASSUME SaveCache(p) PROVE FALSE
      OBVIOUS
    <3>1. file[h] = EmptyMap
      BY <2>2, <2>3, Zenon DEF SaveCache, DiskOK
    <3> QED BY <3>1, Zenon DEF EmptyMap
  <2>5. HandleResponse(p, "ok") /\ pc[p] = "response" /\ pc'[p] = "save"
    BY <2>0, <2>4, Zenon DEF AwaitResponse, HandleResponse, ProgTypeOK
  <2>6. cache[p][ip] # NoMac
    BY <2>2, <2>3, <2>5, Zenon DEF DiskOK
  <2> DEFINE r == Received(p).payload
  <2>7. r \in Packet
    BY <2>0, <2>5, HandleResponseType, Zenon
  <2>8. r.sha # NoMac /\ r.spa \in Ips
    BY <2>7, Zenon DEF Packet
  <2>9. cache' = Learn(p, r)
    BY <2>5, Zenon DEF HandleResponse
  <2> HIDE DEF r
  <2>10. cache'[p][ip] # NoMac
    BY <2>0, <2>6, <2>8, <2>9, Zenon DEF Learn, ArpTypeOK, Map
  <2> QED BY <2>2, <2>3, <2>5, <2>10, Zenon
<1> QED BY <1>1, TypeInvariant, DiskInvariant, PTL DEF Spec, DropsAreRewritten

-----------------------------------------------------------------------------
(* Arping implements Resolver *)

\* What is kept for the host of client c, wherever c is.
KeptByClients ==
  \A c \in Clients : Kept(HostOf[c]) = IF pc[c] = "save" THEN cache[c] ELSE file[HostOf[c]]

LEMMA KeptOf == KeptByClients
<1> SUFFICES ASSUME NEW c \in Clients
             PROVE  Kept(HostOf[c]) = IF pc[c] = "save" THEN cache[c] ELSE file[HostOf[c]]
  BY DEF KeptByClients
<1>1. Saving(HostOf[c]) = IF pc[c] = "save" THEN {c} ELSE {}
  BY DEF Saving
<1>2. (CHOOSE d \in {c} : TRUE) = c
  OBVIOUS
<1>3. CASE pc[c] = "save"
  <2>1. Saving(HostOf[c]) = {c} /\ Saving(HostOf[c]) # {}
    BY <1>1, <1>3
  <2>2. Kept(HostOf[c]) = cache[CHOOSE d \in Saving(HostOf[c]) : TRUE]
    BY <2>1, Zenon DEF Kept
  <2>3. Kept(HostOf[c]) = cache[c]
    BY <1>2, <2>1, <2>2
  <2> QED BY <1>3, <2>3, Zenon
<1>4. CASE pc[c] # "save"
  BY <1>1, <1>4, Zenon DEF Kept
<1> QED BY <1>3, <1>4, Zenon

LEMMA KeptOfNext == KeptByClients'
BY KeptOf, PTL

\* What is kept changes only with the file or the client of the host.
LEMMA KeptSame ==
  ASSUME NEW h \in Hosts, file'[h] = file[h],
         \A c \in Clients : HostOf[c] = h => pc'[c] = pc[c] /\ cache'[c] = cache[c]
  PROVE  Kept(h)' = Kept(h)
<1>1. Saving(h)' = Saving(h)
  BY DEF Saving
<1>2. CASE Saving(h) = {}
  BY <1>1, <1>2, Zenon DEF Kept
<1>3. CASE Saving(h) # {}
  <2>1. (CHOOSE c \in Saving(h) : TRUE) \in Saving(h)
    BY <1>3, Zenon
  <2> DEFINE d == CHOOSE c \in Saving(h) : TRUE
  <2>2. Kept(h) = cache[d] /\ Kept(h)' = cache'[d]
    BY <1>1, <1>3, Zenon DEF Kept
  <2>3. d \in Clients /\ HostOf[d] = h
    BY <2>1, Zenon DEF Saving
  <2> QED BY <2>2, <2>3, Zenon
<1> QED BY <1>2, <1>3, Zenon

\* A process writes no file but the one of its host, and only a client writes.
LEMMA FileStep ==
  ASSUME TypeInv, NEW p \in Procs, NEW h \in Hosts, p \in Clients => HostOf[p] # h,
         StartServer(p) \/ StartClient(p) \/ Step(p) \/ Exit(p)
  PROVE  file'[h] = file[h]
<1>0. ArpTypeOK /\ Control
  BY Zenon DEF TypeInv, TypeOK
<1>1. CASE StartServer(p) \/ StartClient(p) \/ Exit(p)
  BY <1>1, Zenon DEF StartServer, StartClient, Exit, FreshStatics
<1>2. CASE ServeRequest(p) \/ LoadCache(p) \/ IssueRequest(p)
  BY <1>2, Zenon DEF ServeRequest, HandleRequest, LoadCache, MaybeLoadArpCache, IssueRequest,
              Request, arpVars
<1>3. CASE AwaitResponse(p) \/ SaveCache(p)
  <2>1. p \in Clients
    BY <1>0, <1>3, Zenon DEF Control, AwaitResponse, SaveCache
  <2> QED BY <1>0, <1>3, <2>1, Zenon DEF AwaitResponse, HandleResponse, SaveCache,
                                         SerializeArpCache, ArpTypeOK
<1> QED BY <1>1, <1>2, <1>3, Zenon DEF Step

LEMMA OthersKept ==
  ASSUME TypeInv, NEW p \in Procs, NEW h \in Hosts, p \in Clients => HostOf[p] # h,
         StartServer(p) \/ StartClient(p) \/ Step(p) \/ Exit(p)
  PROVE  Kept(h)' = Kept(h)
<1>1. file'[h] = file[h]
  BY FileStep, Zenon
<1>2. ASSUME NEW c \in Clients, HostOf[c] = h
      PROVE  pc'[c] = pc[c] /\ cache'[c] = cache[c]
  <2>1. Untouched(c)
    BY <1>2, OthersUntouched, Zenon
  <2> QED BY <2>1, Zenon DEF Untouched
<1> QED BY <1>1, <1>2, KeptSame, Zenon

\* What can become of the bindings kept for host h.
Keeps(h) == Kept(h)' = Kept(h)
Loses(h) == Kept(h)' = EmptyMap /\ UNCHANGED <<heldIp, heldMac>>
Gains(h, ip, mac) ==
  /\ Owned(ip, mac) /\ Kept(h)' = [Kept(h) EXCEPT ![ip] = mac]
  /\ UNCHANGED <<heldIp, heldMac>>

\* What a step of a client does to what is kept for its host: nothing, unless
\* it learns a binding, or is killed while it saves.
LEMMA OwnKept ==
  ASSUME TypeInv, SafeInv, DiskInv, NEW p \in Clients,
         StartClient(p) \/ Step(p) \/ Exit(p)
  PROVE  \/ Keeps(HostOf[p]) \/ Loses(HostOf[p])
         \/ \E ip \in Ips, mac \in Macs : Gains(HostOf[p], ip, mac)
<1> DEFINE h == HostOf[p]
           k == Kept(h)
<1>0. /\ p \in Procs /\ h \in Hosts /\ DiskOK(p)
      /\ LinkTypeOK /\ ArpTypeOK /\ ProgTypeOK /\ Control
  BY DEF TypeInv, TypeOK, DiskInv
<1>1. /\ pc[p] = "save" => k = cache[p]
      /\ pc[p] # "save" => k = file[h]
  BY KeptOf, Zenon DEF KeptByClients
<1>2. /\ pc'[p] = "save" => k' = cache'[p]
      /\ pc'[p] # "save" => k' = file'[h]
  BY KeptOfNext, Zenon DEF KeptByClients
<1> HIDE DEF k
<1>3. StartClient(p) => k' = k
  BY <1>0, <1>1, <1>2 DEF StartClient, FreshStatics, Iterate, ProgTypeOK
<1>4. LoadCache(p) => k' = k
  BY <1>0, <1>1, <1>2 DEF LoadCache, MaybeLoadArpCache, progVars
<1>5. IssueRequest(p) => k' = k
  BY <1>0, <1>1, <1>2, Zenon DEF IssueRequest, Request, Iterate, Fail, ProgTypeOK
<1>6. SaveCache(p) => k' = k
  BY <1>0, <1>1, <1>2, SMTT(20) DEF SaveCache, SerializeArpCache, Iterate, ProgTypeOK, ArpTypeOK
<1>7. Exit(p) => k' = k \/ (k' = EmptyMap /\ UNCHANGED <<heldIp, heldMac>>)
  BY <1>0, <1>1, <1>2, Zenon DEF Exit, FreshStatics, ifVars, ProgTypeOK, DiskOK
<1>8. ASSUME AwaitResponse(p)
      PROVE  \/ k' = k
             \/ /\ \E ip \in Ips, mac \in Macs :
                     Owned(ip, mac) /\ k' = [k EXCEPT ![ip] = mac]
                /\ UNCHANGED <<heldIp, heldMac>>
  <2>1. ASSUME HandleResponse(p, "error"), Fail(p) PROVE k' = k
    BY <1>0, <1>1, <1>2, <1>8, <2>1, Zenon DEF AwaitResponse, HandleResponse, Fail, ProgTypeOK
  <2>2. CASE HandleResponse(p, "ok") /\ pc' = [pc EXCEPT ![p] = "save"]
    <3> DEFINE r == Received(p).payload
    <3>1. r \in Packet
      BY <1>0, <2>2, HandleResponseType, Zenon
    <3>2. r.spa \in Ips /\ r.sha \in Macs
      BY <3>1, Zenon DEF Packet
    <3>3. q[p] # <<>> /\ Received(p).fcs /\ r.op = "response"
      BY <2>2, Zenon DEF HandleResponse, RecvEthernetFrame
    <3>4. Sound(Received(p), heldIp, heldMac, asked)
      BY <1>0, <3>3, ReceivedSound, Zenon DEF SafeInv
    <3>5. Owned(r.spa, r.sha)
      BY <3>3, <3>4, Zenon DEF Sound, Owned
    <3>6. k = cache[p] /\ k' = cache'[p]
      BY <1>0, <1>1, <1>2, <1>8, <2>2, Zenon DEF AwaitResponse, DiskOK, ProgTypeOK
    <3>7. cache' = Learn(p, r) /\ UNCHANGED <<heldIp, heldMac>>
      BY <2>2 DEF HandleResponse, ifVars
    <3> HIDE DEF r
    <3>8. cache'[p] = [cache[p] EXCEPT ![r.spa] = r.sha]
      BY <1>0, <3>7, Zenon DEF Learn, ArpTypeOK
    <3> QED BY <3>2, <3>5, <3>6, <3>7, <3>8, Zenon
  <2> QED BY <1>8, <2>1, <2>2, Zenon DEF AwaitResponse
<1>9. ~ServeRequest(p)
  BY <1>0, Zenon DEF ServeRequest, Control
<1> QED BY <1>3, <1>4, <1>5, <1>6, <1>7, <1>8, <1>9, Zenon DEF Step, Keeps, Loses, Gains, k

LEMMA ResolverStep ==
  TypeInv /\ SafeInv /\ DiskInv /\ [Next]_vars
    => [Abstract!ResolverNext]_(Abstract!resolverVars)
<1> SUFFICES ASSUME TypeInv, SafeInv, DiskInv, [Next]_vars
             PROVE  Abstract!ResolverNext
  OBVIOUS
<1> DEFINE T == [h \in Hosts |-> Kept(h)]
<1>0. \A h \in Hosts : heldIp[h] \subseteq heldIp'[h] /\ heldMac[h] \subseteq heldMac'[h]
  BY HistoryGrows, Zenon DEF Grows
<1>1. ASSUME \A h \in Hosts : Keeps(h) PROVE Abstract!ResolverNext
  <2>1. T' = T
    BY <1>1, Zenon DEF Keeps
  <2> QED BY <1>0, <2>1, Zenon DEF Abstract!ResolverNext, Abstract!GainAddress
<1>2. ASSUME NEW g \in Hosts, \A h \in Hosts \ {g} : Keeps(h), Loses(g)
      PROVE  Abstract!ResolverNext
  <2>1. T' = [T EXCEPT ![g] = EmptyMap]
    BY <1>2, Zenon DEF Keeps, Loses
  <2> QED BY <1>2, <2>1, Zenon DEF Abstract!ResolverNext, Abstract!Forget, Abstract!Blank,
                                   EmptyMap, Loses
<1>3. ASSUME NEW g \in Hosts, \A h \in Hosts \ {g} : Keeps(h),
             NEW ip \in Ips, NEW mac \in Macs, Gains(g, ip, mac)
      PROVE  Abstract!ResolverNext
  <2>1. T' = [T EXCEPT ![g][ip] = mac]
    BY <1>3, Zenon DEF Keeps, Gains
  <2>2. Abstract!LearnBinding(g, ip, mac)
    BY <1>3, <2>1, Zenon DEF Abstract!LearnBinding, Owned, Gains
  <2> QED BY <2>2, Zenon DEF Abstract!ResolverNext
<1>4. ASSUME NEW p \in Clients, StartClient(p) \/ Step(p) \/ Exit(p)
      PROVE  Abstract!ResolverNext
  <2>1. p \in Procs /\ HostOf[p] \in Hosts
    OBVIOUS
  <2>2. \A h \in Hosts \ {HostOf[p]} : Keeps(h)
    BY <1>4, <2>1, OthersKept, Zenon DEF Keeps
  <2>3. \/ Keeps(HostOf[p]) \/ Loses(HostOf[p])
        \/ \E ip \in Ips, mac \in Macs : Gains(HostOf[p], ip, mac)
    BY <1>4, OwnKept, Zenon
  <2>4. CASE Keeps(HostOf[p])
    BY <1>1, <2>2, <2>4, Zenon
  <2>5. CASE Loses(HostOf[p])
    BY <1>2, <2>1, <2>2, <2>5, Zenon
  <2>6. CASE \E ip \in Ips, mac \in Macs : Gains(HostOf[p], ip, mac)
    BY <1>3, <2>1, <2>2, <2>6, Zenon
  <2> QED BY <2>3, <2>4, <2>5, <2>6, Zenon
<1>5. ASSUME NEW p \in Procs, p \notin Clients,
             StartServer(p) \/ StartClient(p) \/ Step(p) \/ Exit(p)
      PROVE  Abstract!ResolverNext
  BY <1>1, <1>5, OthersKept, Zenon DEF Keeps
<1>6. ASSUME NEW p \in Clients PROVE ~StartServer(p)
  BY DEF StartServer
<1>7. ASSUME UNCHANGED <<arpVars, progVars>> PROVE Abstract!ResolverNext
  <2>1. \A h \in Hosts : Keeps(h)
    BY <1>7, KeptSame, Zenon DEF arpVars, progVars, Keeps
  <2> QED BY <1>1, <2>1, Zenon
<1> QED BY <1>4, <1>5, <1>6, <1>7, Zenon DEF Next, Environment, vars

\* Over all its runs, and through every fault, the client of a host implements
\* the table of Resolver (ImplementsResolver).
THEOREM ArpingImplementsResolver == Spec => ImplementsResolver
<1>1. Init => Abstract!ResolverInit
  <2> SUFFICES ASSUME Init PROVE Abstract!ResolverInit
    OBVIOUS
  <2>1. ASSUME NEW h \in Hosts PROVE Kept(h) = EmptyMap
    <3>1. Saving(h) = {}
      BY DEF Init, Saving
    <3> QED BY <3>1, Zenon DEF Init, ArpInit, Kept
  <2> QED BY <2>1, Zenon DEF Abstract!ResolverInit, Abstract!Blank, EmptyMap
<1>2. TypeInv /\ SafeInv /\ DiskInv /\ [Next]_vars
        => [Abstract!ResolverNext]_(Abstract!resolverVars)
  BY ResolverStep, Zenon
<1> QED BY <1>1, <1>2, TypeInvariant, SafeInvariant, DiskInvariant, PTL
        DEF Spec, ImplementsResolver, Abstract!ResolverSpec

=============================================================================
