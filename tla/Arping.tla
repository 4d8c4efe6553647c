------------------------------- MODULE Arping -------------------------------
(***************************************************************************)
(* The arping program (arping.cc) run by several processes on one link:    *)
(* servers that answer requests for their host's address, and clients that *)
(* resolve one address --num_requests times and stop at the first failure. *)
(***************************************************************************)
EXTENDS Arp

CONSTANTS
  Servers, Clients,   \* processes run with and without --server
  NumRequests         \* --num_requests

\* One client per host at a time, so that each cache file has a single writer;
\* CacheFile models several.
ASSUME ArpingAssumption ==
  /\ Servers \cup Clients = Procs /\ Servers \cap Clients = {}
  /\ NumRequests \in Nat
  /\ \A c, d \in Clients : HostOf[c] = HostOf[d] => c = d

VARIABLES
  pc,       \* [Procs -> where the process is]
  target,   \* [Procs -> the address --ip gives]
  round,    \* [Procs -> i of the loop in Client]
  answer,   \* [Procs -> dst_mac of the last round trip that succeeded]
  ret       \* [Procs -> how the last Client() ended]

progVars == <<pc, target, round, answer, ret>>
vars == <<linkVars, arpVars, progVars>>

ProgTypeOK ==
  /\ pc \in [Procs -> {"off", "serve", "request", "response", "save", "done"}]
  /\ target \in [Procs -> Ips \cup {NoIp}]
  /\ \A c \in Clients : pc[c] # "off" => target[c] \in Ips
  /\ round \in [Procs -> 0..NumRequests]
  /\ answer \in [Procs -> Macs \cup {NoMac}]
  /\ ret \in [Procs -> {"none", "0", "-1"}]
  /\ \A p \in Procs : up[p] <=> pc[p] # "off"

\* Every variable has its type, no receive queue is longer than its bound, and
\* a process has its socket open exactly while it runs.
TypeOK == LinkTypeOK /\ ArpTypeOK /\ ProgTypeOK

Init ==
  /\ LinkInit(Servers) /\ ArpInit
  /\ pc = [p \in Procs |-> IF p \in Servers THEN "serve" ELSE "off"]
  /\ target = [p \in Procs |-> NoIp]
  /\ round = [p \in Procs |-> 0]
  /\ answer = [p \in Procs |-> NoMac]
  /\ ret = [p \in Procs |-> "none"]

-----------------------------------------------------------------------------

\* The loop test of Client: issue round i, or return 0.
Iterate(p, i) ==
  /\ round' = [round EXCEPT ![p] = i]
  /\ pc' = [pc EXCEPT ![p] = IF i < NumRequests THEN "request" ELSE "done"]
  /\ ret' = [ret EXCEPT ![p] = IF i < NumRequests THEN "none" ELSE "0"]

Fail(p) ==
  /\ pc' = [pc EXCEPT ![p] = "done"]
  /\ ret' = [ret EXCEPT ![p] = "-1"]
  /\ UNCHANGED round

StartServer(p) ==
  /\ p \in Servers /\ pc[p] = "off"
  /\ CreateOrDie(p) /\ FreshStatics(p)
  /\ pc' = [pc EXCEPT ![p] = "serve"]
  /\ UNCHANGED <<ifVars, target, round, answer, ret>>

StartClient(p) ==
  /\ p \in Clients /\ pc[p] = "off"
  /\ CreateOrDie(p) /\ FreshStatics(p)
  /\ \E ip \in Ips : target' = [target EXCEPT ![p] = ip]
  /\ Iterate(p, 0)
  /\ answer' = [answer EXCEPT ![p] = NoMac]
  /\ UNCHANGED ifVars

ServeRequest(p) ==
  /\ pc[p] = "serve"
  /\ HandleRequest(p)
  /\ UNCHANGED progVars

LoadCache(p) ==
  /\ pc[p] = "request"
  /\ MaybeLoadArpCache(p)
  /\ UNCHANGED progVars

\* ArpRoundTrip as far as the call of HandleResponse.
IssueRequest(p) ==
  /\ pc[p] = "request"
  /\ \/ /\ Request(p, target[p], "exists")
        /\ answer' = [answer EXCEPT ![p] = cache[p][target[p]]]
        /\ Iterate(p, round[p] + 1)
     \/ /\ Request(p, target[p], "error")
        /\ Fail(p)
        /\ UNCHANGED answer
     \/ /\ Request(p, target[p], "ok")
        /\ pc' = [pc EXCEPT ![p] = "response"]
        /\ UNCHANGED <<round, answer, ret>>
  /\ UNCHANGED target

AwaitResponse(p) ==
  /\ pc[p] = "response"
  /\ \/ /\ HandleResponse(p, "error")
        /\ Fail(p)
        /\ UNCHANGED answer
     \/ /\ HandleResponse(p, "ok")
        /\ pc' = [pc EXCEPT ![p] = "save"]
        /\ answer' = [answer EXCEPT ![p] = Received(p).payload.sha]
        /\ UNCHANGED <<round, ret>>
  /\ UNCHANGED target

SaveCache(p) ==
  /\ pc[p] = "save"
  /\ SerializeArpCache(p)
  /\ Iterate(p, round[p] + 1)
  /\ UNCHANGED <<target, answer>>

\* The process ends: by returning from main, or killed wherever it is.
Exit(p) ==
  /\ pc[p] # "off"
  /\ pc[p] = "done" \/ "crash" \in Faults
  /\ CloseSocket(p) /\ FreshStatics(p)
  /\ pc' = [pc EXCEPT ![p] = "off"]
  /\ UNCHANGED <<ifVars, target, round, answer, ret>>

Step(p) ==
  \/ ServeRequest(p)
  \/ LoadCache(p)
  \/ IssueRequest(p)
  \/ AwaitResponse(p)
  \/ SaveCache(p)

Environment(h) == (StrayArrives(h) \/ Readdress(h)) /\ UNCHANGED <<arpVars, progVars>>

Next ==
  \/ \E p \in Procs : StartServer(p) \/ StartClient(p) \/ Step(p) \/ Exit(p)
  \/ \E h \in Hosts : Environment(h)

Spec == Init /\ [][Next]_vars

\* A process that can run is run: the kernel schedules it and wakes it when
\* a frame is in its queue.  Nobody is obliged to start or to kill a client.
Fairness == \A p \in Procs : WF_vars(Step(p))

FairSpec == Spec /\ Fairness

-----------------------------------------------------------------------------
(* Properties *)

\* From the time a client has loaded the cache file until it exits, the file
\* holds exactly what the client has in memory, except between the truncating
\* open and the write of SerializeArpCache, when it is empty.
DiskMirrorsMemory ==
  \A c \in Clients :
    LET disk == file[HostOf[c]]
    IN  /\ pc[c] = "save" => loaded[c] /\ disk = EmptyMap
        /\ pc[c] # "save" /\ loaded[c] => disk = cache[c]

\* When Client() returns 0, the MAC address it printed last is in the file.
ReportedIsOnDisk ==
  \A c \in Clients :
    pc[c] = "done" /\ ret[c] = "0" /\ NumRequests > 0 =>
      \E ip \in Ips : file[HostOf[c]][ip] = answer[c]

RewritesDrops ==
  \A h \in Hosts, ip \in Ips :
    file[h][ip] # NoMac /\ file'[h][ip] = NoMac =>
      \E c \in Clients : HostOf[c] = h /\ pc'[c] = "save" /\ cache'[c][ip] # NoMac

\* SerializeArpCache is the only thing that takes a binding off the disk, and
\* the process that does so has the binding in memory and writes it back next.
DropsAreRewritten == [][RewritesDrops]_vars

\* The clients between the open and the write of SerializeArpCache.
Saving(h) == {c \in Clients : HostOf[c] = h /\ pc[c] = "save"}

\* The bindings that a host keeps: those in its file or, while a client saves,
\* those in the client's memory, on their way to the file.
Kept(h) == IF Saving(h) = {} THEN file[h] ELSE cache[CHOOSE c \in Saving(h) : TRUE]

Abstract == INSTANCE Resolver WITH table <- [h \in Hosts |-> Kept(h)]

\* The client of a host, over all its runs, implements the table of Resolver:
\* loading, learning, truncating and writing add up to adding one binding of a
\* real host and keeping the rest, and only a kill within a save forgets.
ImplementsResolver == Abstract!ResolverSpec

\* The MAC address ArpRoundTrip reports belongs to the host whose IP was asked
\* for, although HandleResponse does not compare: with one client, one server at
\* most for an address, no damaged frame and nothing failing, no response to an
\* earlier request is left over.
ResolvesTarget ==
  \A c \in Clients : answer[c] # NoMac => Owned(target[c], answer[c])

\* On such a link, which also loses and floods nothing, a request for the address
\* of a host whose server runs is answered: ArpRoundTrip does not wait for ever.
RequestsAnswered ==
  \A c \in Clients, s \in Servers :
    pc[c] = "response" /\ target[c] = ifIp[HostOf[s]] ~> pc[c] # "response"

\* The sockets do not receive the frames their own host sends.
NoOutgoingFrames ==
  \A p \in Procs : \A i \in 1..Len(q[p]) :
    LET f == q[p][i]
    IN  f.fcs /\ f.payload \in Packet => f.payload.sha \notin heldMac[HostOf[p]]

=============================================================================
