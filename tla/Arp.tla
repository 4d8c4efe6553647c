-------------------------------- MODULE Arp ---------------------------------
(***************************************************************************)
(* The ARP layer (arp.h, arp.cc): the per-process cache g_arp_cache, the   *)
(* file it is kept in between runs, and the operations Request,            *)
(* HandleRequest and HandleResponse.  Each operation is an action on the   *)
(* variables of Link and of this module; `status' says what the call       *)
(* returns, so that a program (Arping) can branch on it.                   *)
(*                                                                         *)
(* SerializeArpCache opens the file, which truncates it, and then writes:  *)
(* those are two steps, and a process may die between them.  The file is   *)
(* taken here as the map it holds; CacheFile models its text.              *)
(***************************************************************************)
EXTENDS Link

VARIABLES
  cache,    \* [Procs -> Map]: g_arp_cache
  loaded,   \* [Procs -> BOOLEAN]: the static `loaded' of MaybeLoadArpCache
  file,     \* [Hosts -> Map]: the file --arp_cache names
  asked     \* history: <<sender MAC, sender IP, IP asked for>> of each request

arpVars == <<cache, loaded, file, asked>>

Map == [Ips -> Macs \cup {NoMac}]

EmptyMap == [ip \in Ips |-> NoMac]

ArpTypeOK ==
  /\ cache \in [Procs -> Map]
  /\ loaded \in [Procs -> BOOLEAN]
  /\ file \in [Hosts -> Map]
  /\ asked \subseteq Macs \X Ips \X Ips

ArpInit ==
  /\ cache = [p \in Procs |-> EmptyMap]
  /\ loaded = [p \in Procs |-> FALSE]
  /\ file = [h \in Hosts |-> EmptyMap]
  /\ asked = {}

\* A new process starts with the statics as the loader sets them.
FreshStatics(p) ==
  /\ cache' = [cache EXCEPT ![p] = EmptyMap]
  /\ loaded' = [loaded EXCEPT ![p] = FALSE]
  /\ UNCHANGED <<file, asked>>

-----------------------------------------------------------------------------

\* deserialize assigns every entry of the file over what the map holds.
MergeMap(m, n) == [ip \in Ips |-> IF n[ip] # NoMac THEN n[ip] ELSE m[ip]]

MaybeLoadArpCache_Unread(p) ==
  /\ ~loaded[p]
  /\ loaded' = [loaded EXCEPT ![p] = TRUE]
  /\ UNCHANGED <<linkVars, cache, file, asked>>

MaybeLoadArpCache(p) ==
  /\ ~loaded[p]
  /\ loaded' = [loaded EXCEPT ![p] = TRUE]
  /\ cache' = [cache EXCEPT ![p] = MergeMap(cache[p], file[HostOf[p]])]
  /\ UNCHANGED <<linkVars, file, asked>>

SerializeArpCache_Unwritten(p) == UNCHANGED <<linkVars, arpVars>>

\* The write of SerializeArpCache; the truncating open is in HandleResponse.
SerializeArpCache(p) ==
  /\ file' = [file EXCEPT ![HostOf[p]] = cache[p]]
  /\ UNCHANGED <<linkVars, cache, loaded, asked>>

\* Request, once MaybeLoadArpCache has returned: "exists" for AlreadyExists.
Request(p, dst_ip, status) ==
  /\ loaded[p]
  /\ \/ /\ status = "exists"
        /\ cache[p][dst_ip] # NoMac
        /\ UNCHANGED <<sockVars, asked>>
     \/ /\ status = "error"
        /\ cache[p][dst_ip] = NoMac
        /\ GetHostMacFails(p) \/ GetHostIpFails(p)
        /\ UNCHANGED <<sockVars, asked>>
     \/ /\ cache[p][dst_ip] = NoMac
        /\ CacheHostIp(p)
        /\ LET request == [op |-> "request", sha |-> HostMac(p), spa |-> HostIp(p),
                           tha |-> kBroadcastMac, tpa |-> dst_ip]
           IN  SendEthernetFrame(p, q, kBroadcastMac, request, status)
        /\ asked' = asked \cup {<<HostMac(p), HostIp(p), dst_ip>>}
        /\ UNCHANGED up
  /\ UNCHANGED <<ifVars, cache, loaded, file>>

ForThisHost_Any(p, r) == TRUE

\* "Is the request for this host?"
ForThisHost(p, r) == r.tpa = HostIp(p)

Response_Unswapped(p, r) ==
  [op |-> "response", sha |-> HostMac(p), spa |-> r.tpa, tha |-> r.sha, tpa |-> r.tpa]

\* The packet HandleRequest answers packet r with.
Response(p, r) ==
  [op |-> "response", sha |-> HostMac(p), spa |-> r.tpa, tha |-> r.sha, tpa |-> r.spa]

SendResponse_ToSelf(p, in, r, status) ==
  SendEthernetFrame(p, in, HostMac(p), Response(p, r), status)

SendResponse(p, in, r, status) ==
  SendEthernetFrame(p, in, Response(p, r).tha, Response(p, r), status)

\* HandleRequest.  Its status is only logged.  (A failing recv changes nothing.)
HandleRequest(p) ==
  /\ LET r == Received(p).payload
         IsRequest == RecvEthernetFrame(p, "ok") /\ r.op = "request"
     IN  \/ /\ RecvEthernetFrame(p, "error")
            /\ q' = Drained(p) /\ UNCHANGED <<hostIp, ifIndex>>
         \/ /\ RecvEthernetFrame(p, "ok") /\ r.op # "request"
            /\ q' = Drained(p) /\ UNCHANGED <<hostIp, ifIndex>>
         \/ /\ IsRequest /\ GetHostIpFails(p)
            /\ q' = Drained(p) /\ UNCHANGED <<hostIp, ifIndex>>
         \/ /\ IsRequest /\ (~ForThisHost(p, r) \/ GetHostMacFails(p))
            /\ CacheHostIp(p)
            /\ q' = Drained(p) /\ UNCHANGED ifIndex
         \/ /\ IsRequest /\ ForThisHost(p, r)
            /\ CacheHostIp(p)
            /\ \E status \in {"ok", "error"} : SendResponse(p, Drained(p), r, status)
  /\ UNCHANGED <<ifVars, up, arpVars>>

Learn_Nothing(p, r) == cache

Learn_Target(p, r) == [cache EXCEPT ![p][r.tpa] = r.sha]

Learn(p, r) == [cache EXCEPT ![p][r.spa] = r.sha]

\* HandleResponse up to and including the open of SerializeArpCache.
HandleResponse(p, status) ==
  /\ \/ /\ status = "error" /\ RecvFails(p)
        /\ UNCHANGED <<q, cache, file>>
     \/ /\ status = "error"
        /\ \/ RecvEthernetFrame(p, "error")
           \/ RecvEthernetFrame(p, "ok") /\ Received(p).payload.op # "response"
        /\ q' = Drained(p)
        /\ UNCHANGED <<cache, file>>
     \/ /\ status = "ok"
        /\ RecvEthernetFrame(p, "ok")
        /\ Received(p).payload.op = "response"
        /\ cache' = Learn(p, Received(p).payload)
        /\ q' = Drained(p)
        /\ file' = [file EXCEPT ![HostOf[p]] = EmptyMap]
  /\ UNCHANGED <<ifVars, up, hostIp, ifIndex, loaded, asked>>

-----------------------------------------------------------------------------
(* Properties of ARP under any program *)

\* Some host has had both addresses.
Owned(ip, m) == \E h \in Hosts : ip \in heldIp[h] /\ m \in heldMac[h]

\* Whatever is lost, flooded to the wrong host, damaged, late or interrupted,
\* no ARP cache, in memory or on disk, binds an IP address to the MAC address
\* of another host: HandleResponse stores the pair of one packet, and only a
\* host itself puts its addresses in a response.
BindingsOwned ==
  /\ \A p \in Procs, ip \in Ips : cache[p][ip] # NoMac => Owned(ip, cache[p][ip])
  /\ \A h \in Hosts, ip \in Ips : file[h][ip] # NoMac => Owned(ip, file[h][ip])

\* A response that passes the CRC check of RecvEthernetFrame names as its
\* target a host that asked, with those addresses, for the IP it answers for.
RepliesSolicited ==
  \A p \in Procs : \A i \in 1..Len(q[p]) :
    LET r == q[p][i].payload
    IN  q[p][i].fcs /\ r.op = "response" => <<r.tha, r.tpa, r.spa>> \in asked

=============================================================================
