-------------------------------- MODULE Taps --------------------------------
(***************************************************************************)
(* The packet sockets of the small programs: eth_echo (eth_echo.cc) and    *)
(* the monitors of src/reference (arp.c and sniffer.c), several of them on *)
(* one link.  The kernel is external, as in Link; here a socket may have a *)
(* filter, which Link's sockets never have, and what counts of a frame is  *)
(* what these programs look at.                                            *)
(*                                                                         *)
(* Everything that disturbs them counts against one budget: frames of      *)
(* other stacks, frames lost, calls that fail.  On a quiet link there is   *)
(* no noise at all.                                                        *)
(***************************************************************************)
EXTENDS Naturals, Sequences

CONSTANTS
  Hosts, Procs,
  HostOf,        \* the machine a process runs on
  Stray,         \* frames that come from other stacks
  RcvQueueMax,   \* bound: frames a socket's receive queue holds
  NoiseMax       \* bound: disturbances

Frame ==
  [to : Hosts \cup {"all"},             \* whose eth0 has the destination MAC
   type : {"ARP", "IP"},                \* the EtherType
   protocol : 0..255,                   \* byte 23, an IP header's protocol
   full : BOOLEAN,                      \* as long as an ARP packet, or longer
   fcs : BOOLEAN,                       \* its last four bytes are its CRC
   payload : {"ask", "echo", "empty", "other"}]

ASSUME TapsAssumption ==
  /\ HostOf \in [Procs -> Hosts] /\ Stray \subseteq Frame
  /\ RcvQueueMax \in Nat \ {0} /\ NoiseMax \in Nat

VARIABLES
  pc,       \* [Procs -> where the process is]
  q,        \* [Procs -> Seq(Frame)]: the receive queue of an open socket
  filter,   \* [Procs -> BOOLEAN]: SO_ATTACH_FILTER has been done
  noise     \* history: disturbances so far

tapVars == <<pc, q, filter, noise>>

Goto(p, l) == pc' = [pc EXCEPT ![p] = l]

Running(p) == pc[p] \notin {"off", "done"}

Quiet == UNCHANGED noise

Noise == noise < NoiseMax /\ noise' = noise + 1

-----------------------------------------------------------------------------

arpfilter_Swapped(f) == f.type # "ARP"

\* The filter of arp.c: "either the ARP packet or nil".
arpfilter(f) == f.type = "ARP"

Deliver_Unbounded(f, S) ==
  [s \in Procs |-> IF s \in S /\ (filter[s] => arpfilter(f)) THEN Append(q[s], f) ELSE q[s]]

\* The queues after frame f reached the sockets S.
Deliver(f, S) ==
  [s \in Procs |-> IF s \in S /\ (filter[s] => arpfilter(f)) /\ Len(q[s]) < RcvQueueMax
                   THEN Append(q[s], f) ELSE q[s]]

SocketsOn(H) == {s \in Procs : Running(s) /\ HostOf[s] \in H}

Others_All(p) == Procs

\* The kernel does not give a frame back to the socket that sent it.
Others(p) == Procs \ {p}

\* sendto() of p: the sockets of its own host see the frame too.
Transmit(p, f) ==
  \E lost \in BOOLEAN :
    LET reached == {h \in Hosts : ~lost /\ f.to \in {"all", h}}
    IN  /\ q' = Deliver(f, Others(p) \cap SocketsOn(reached \cup {HostOf[p]}))
        /\ IF lost THEN Noise ELSE Quiet

\* A frame of another stack arrives at host h.
StrayArrives(h) ==
  /\ \E f \in Stray : q' = Deliver(f, SocketsOn({h}))
  /\ Noise
  /\ UNCHANGED <<pc, filter>>

Received(p) == Head(q[p])

Take(p) == q[p] # <<>> /\ q' = [q EXCEPT ![p] = Tail(@)] /\ Quiet

\* A system call of p fails.
Fails(p) == UNCHANGED q /\ Noise

\* The process ends, and its socket with it.
Exit(p) ==
  /\ Goto(p, "done")
  /\ q' = [q EXCEPT ![p] = <<>>]
  /\ filter' = [filter EXCEPT ![p] = FALSE]

=============================================================================
