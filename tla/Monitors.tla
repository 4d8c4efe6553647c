------------------------------ MODULE Monitors ------------------------------
(***************************************************************************)
(* The two monitors of src/reference.  arp.c prints the ARP packets of the *)
(* link: it opens a packet socket, attaches a filter to it, and exits when *)
(* it receives anything else.  sniffer.c counts all packets by the IP      *)
(* protocol and logs those of ICMP, TCP and UDP.                           *)
(***************************************************************************)
EXTENDS Taps

CONSTANTS ArpMonitors, Sniffers   \* processes that may run arp.c, or sniffer.c

ASSUME MonitorsAssumption == ArpMonitors \cup Sniffers \subseteq Procs

Counters == {"tcp", "udp", "icmp", "igmp", "others", "total"}

VARIABLES
  early,     \* history: [ArpMonitors -> frames queued that no filter has seen]
  wrong,     \* [ArpMonitors -> BOOLEAN]: "Received wrong ethernet type"
  logfile,   \* [Sniffers -> BOOLEAN]: log.txt is open, not NULL
  count,     \* [Sniffers -> [Counters -> Nat]]
  arpSeen    \* history: [Sniffers -> ARP frames among those counted]

monitorVars == <<early, wrong, logfile, count, arpSeen>>

MonitorInit ==
  /\ early = [m \in ArpMonitors |-> 0] /\ wrong = [m \in ArpMonitors |-> FALSE]
  /\ logfile = [s \in Sniffers |-> FALSE]
  /\ count = [s \in Sniffers |-> [k \in Counters |-> 0]]
  /\ arpSeen = [s \in Sniffers |-> 0]

-----------------------------------------------------------------------------
(* arp.c *)

MonitorOpen(p) ==
  /\ p \in ArpMonitors /\ pc[p] = "off"
  /\ \/ Goto(p, "attach") /\ Quiet
     \/ Goto(p, "done") /\ Noise
  /\ UNCHANGED <<q, filter, monitorVars>>

\* setsockopt(sock, SOL_SOCKET, SO_ATTACH_FILTER, ...): what has been queued
\* by then stays queued.
AttachFilter(p) ==
  /\ pc[p] = "attach"
  /\ \/ /\ filter' = [filter EXCEPT ![p] = TRUE]
        /\ early' = [early EXCEPT ![p] = Len(q[p])]
        /\ Goto(p, "listen")
        /\ Quiet /\ UNCHANGED q
     \/ Noise /\ Exit(p) /\ UNCHANGED early
  /\ UNCHANGED <<wrong, logfile, count, arpSeen>>

\* recv(): dump_arp prints an ARP packet, a short packet is skipped, and
\* another type ends the program.
Listen(p) ==
  /\ pc[p] = "listen"
  /\ \/ /\ Take(p)
        /\ ~Received(p).full \/ Received(p).type = "ARP"
        /\ early' = [early EXCEPT ![p] = IF @ > 0 THEN @ - 1 ELSE 0]
        /\ UNCHANGED <<pc, filter, wrong>>
     \/ /\ q[p] # <<>> /\ Received(p).full /\ Received(p).type # "ARP"
        /\ wrong' = [wrong EXCEPT ![p] = TRUE]
        /\ Quiet /\ Exit(p) /\ UNCHANGED early
     \/ Noise /\ Exit(p) /\ UNCHANGED <<early, wrong>>
  /\ UNCHANGED <<logfile, count, arpSeen>>

-----------------------------------------------------------------------------
(* sniffer.c *)

\* Where log.txt cannot be written, logfile stays NULL and the program goes on;
\* socket() may fail too.
SnifferOpen(p) ==
  /\ p \in Sniffers /\ pc[p] = "off"
  /\ \/ Goto(p, "sniff") /\ (\E b \in BOOLEAN : logfile' = [logfile EXCEPT ![p] = b]) /\ Quiet
     \/ Goto(p, "done") /\ UNCHANGED logfile /\ Noise
  /\ UNCHANGED <<q, filter, early, wrong, count, arpSeen>>

\* The switch of ProcessPacket: byte 23, whatever the EtherType is.
Class(f) ==
  CASE f.protocol = 1 -> "icmp" [] f.protocol = 2 -> "igmp" [] f.protocol = 6 -> "tcp"
    [] f.protocol = 17 -> "udp" [] OTHER -> "others"

Survives_Guarded(p, f) == TRUE

\* print_icmp_packet and its like write to logfile, NULL or not.
Survives(p, f) == Class(f) \in {"icmp", "tcp", "udp"} => logfile[p]

ProcessPacket_NoBreak(p, f) ==
  /\ count' = [count EXCEPT ![p][Class(f)] = @ + 1, ![p]["total"] = @ + 1,
                            ![p]["tcp"] = IF Class(f) = "igmp" THEN @ + 1 ELSE @]
  /\ arpSeen' = [arpSeen EXCEPT ![p] = IF f.type = "ARP" THEN @ + 1 ELSE @]

ProcessPacket(p, f) ==
  /\ count' = [count EXCEPT ![p][Class(f)] = @ + 1, ![p]["total"] = @ + 1]
  /\ arpSeen' = [arpSeen EXCEPT ![p] = IF f.type = "ARP" THEN @ + 1 ELSE @]

Sniff(p) ==
  /\ pc[p] = "sniff"
  /\ \/ /\ q[p] # <<>>
        /\ ProcessPacket(p, Received(p))
        /\ \/ Survives(p, Received(p)) /\ Take(p) /\ UNCHANGED <<pc, filter>>
           \/ ~Survives(p, Received(p)) /\ Quiet /\ Exit(p)
     \/ Noise /\ Exit(p) /\ UNCHANGED <<count, arpSeen>>
  /\ UNCHANGED <<early, wrong, logfile>>

MonitorStep(p) ==
  MonitorOpen(p) \/ AttachFilter(p) \/ Listen(p) \/ SnifferOpen(p) \/ Sniff(p)

-----------------------------------------------------------------------------
(* Properties *)

MonitorTypeOK ==
  /\ early \in [ArpMonitors -> 0..RcvQueueMax] /\ wrong \in [ArpMonitors -> BOOLEAN]
  /\ logfile \in [Sniffers -> BOOLEAN]
  /\ count \in [Sniffers -> [Counters -> Nat]] /\ arpSeen \in [Sniffers -> Nat]

\* arp.c gives up over a "wrong ethernet type" only because of a frame that came
\* between its socket() and its setsockopt(): behind those frames its queue holds
\* ARP packets only.
WrongTypeOnlyEarly ==
  \A m \in ArpMonitors :
    /\ pc[m] = "listen" => \A i \in early[m] + 1 .. Len(q[m]) : q[m][i].type = "ARP"
    /\ wrong[m] => early[m] > 0

\* On a link whose ARP packets do not have a protocol number where an IP header
\* has one, and whose IP packets are all of a protocol the switch names, sniffer.c
\* counts each ARP packet and each frame of eth_echo under "others", and nothing
\* else, and its counters add up.
CountsAddUp ==
  \A s \in Sniffers :
    /\ count[s]["others"] = arpSeen[s]
    /\ count[s]["total"] = count[s]["tcp"] + count[s]["udp"] + count[s]["icmp"]
                             + count[s]["igmp"] + count[s]["others"]

\* Without its log file sniffer.c does not outlive the first packet it prints.
LoglessStops ==
  \A s \in Sniffers :
    pc[s] = "sniff" /\ ~logfile[s] =>
      count[s]["icmp"] = 0 /\ count[s]["tcp"] = 0 /\ count[s]["udp"] = 0

=============================================================================
