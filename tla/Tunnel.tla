------------------------------- MODULE Tunnel -------------------------------
(***************************************************************************)
(* simpletun.c, run as a server and as a client: each end copies packets   *)
(* from its tun/tap interface to a TCP connection, as two bytes of length  *)
(* and then the packet, and back.                                          *)
(*                                                                         *)
(* TCP and the interfaces are external.  A direction of the connection is  *)
(* a byte queue with room for Capacity bytes, the buffers of both kernels; *)
(* a blocked write goes on a few bytes at a time as room appears, and a    *)
(* read returns what is there, up to what was asked for.  When an end goes *)
(* away the other still gets some of what was under way, and then the end  *)
(* of the stream or an error; its own writes are lost or end it (SIGPIPE). *)
(* The timeout of select() only makes the loop go round.                   *)
(***************************************************************************)
EXTENDS Naturals, Sequences

CONSTANTS
  Packets,       \* byte sequences that the interfaces carry
  BUFSIZE,       \* "buffer for reading from tun/tap interface"
  Capacity,      \* bytes one direction of the connection holds
  PacketMax,     \* bound: packets that each end reads from its interface
  Faults         \* "ctrl-c": an end may be killed; "ioerror": calls may fail

Ends == {"server", "client"}

Peer(e) == IF e = "server" THEN "client" ELSE "server"

Byte == {n \in Nat : n < 256}

UInt16 == {n \in Nat : n < 65536}

ASSUME TunnelAssumption ==
  /\ BUFSIZE \in UInt16 \ {0} /\ Capacity \in Nat \ {0} /\ PacketMax \in Nat
  /\ Packets \subseteq Seq(Byte)
  /\ \A p \in Packets : 1 <= Len(p) /\ Len(p) <= BUFSIZE
  /\ Faults \subseteq {"ctrl-c", "ioerror"}

VARIABLES
  pc,          \* [Ends -> where main() is]
  connected,   \* the client's connect() has succeeded
  netSet,      \* [Ends -> BOOLEAN]: FD_ISSET(net_fd, &rd_set)
  out,         \* [Ends -> bytes that the calls of cwrite have not written yet]
  chan,        \* [Ends -> bytes this end wrote and the other has not read]
  buffer,      \* [Ends -> what read_n has read so far]
  plength,     \* [Ends -> ntohs(plength)]
  taken,       \* [Ends -> packets read from the interface, tap2net of them]
  given        \* [Ends -> packets written to the interface]

vars == <<pc, connected, netSet, out, chan, buffer, plength, taken, given>>

States ==
  {"start", "socket", "listen", "accept", "connect", "select", "tap2net", "write", "length", "packet",
   "done",       \* main() has returned, or the other end made it exit
   "aborted"}    \* killed, or ended by a call that failed

Init ==
  /\ pc = [e \in Ends |-> "start"] /\ connected = FALSE
  /\ netSet = [e \in Ends |-> FALSE]
  /\ out = [e \in Ends |-> <<>>] /\ chan = [e \in Ends |-> <<>>]
  /\ buffer = [e \in Ends |-> <<>>] /\ plength = [e \in Ends |-> 0]
  /\ taken = [e \in Ends |-> <<>>] /\ given = [e \in Ends |-> <<>>]

-----------------------------------------------------------------------------

Goto(e, l) == pc' = [pc EXCEPT ![e] = l]

Over(e) == pc[e] \in {"done", "aborted"}

\* The process ends, from main, by exit(1) or by a signal.  What it has written
\* is on its way, but a connection that is reset loses the last of it.
End(e, how) ==
  /\ Goto(e, how)
  /\ \E n \in 0..Len(chan[e]) : chan' = [chan EXCEPT ![e] = SubSeq(@, 1, n)]
  /\ out' = [out EXCEPT ![e] = <<>>] /\ buffer' = [buffer EXCEPT ![e] = <<>>]
  /\ UNCHANGED <<connected, netSet, plength, taken, given>>

\* A call fails: perror() and exit(1).
Fails(e) == "ioerror" \in Faults /\ End(e, "aborted")

\* A call that takes e from one place to the next and touches nothing else.
Passes(e, from, to) ==
  /\ pc[e] = from
  /\ \/ /\ Goto(e, to)
        /\ UNCHANGED <<connected, netSet, out, chan, buffer, plength, taken, given>>
     \/ Fails(e)

tun_alloc(e) == Passes(e, "start", "socket")

Socket(e) == Passes(e, "socket", IF e = "server" THEN "listen" ELSE "connect")

\* setsockopt(), bind() and listen().
Listen == Passes("server", "listen", "accept")

\* connect() succeeds once the server listens, accepted or not.
Connect ==
  /\ pc["client"] = "connect"
  /\ \/ /\ pc["server"] = "accept"
        /\ connected' = TRUE
        /\ Goto("client", "select")
        /\ UNCHANGED <<netSet, out, chan, buffer, plength, taken, given>>
     \/ pc["server"] # "accept" /\ End("client", "done")
     \/ Fails("client")

AcceptClient ==
  \/ connected /\ Passes("server", "accept", "select")
  \/ pc["server"] = "accept" /\ Fails("server")

\* A read would not block: there are bytes, or there never will be.
Readable(e) == chan[Peer(e)] # <<>> \/ Over(Peer(e))

\* select() returns what is ready; a packet may be waiting at the interface.
Select(e) ==
  /\ pc[e] = "select"
  /\ \/ /\ \/ Len(taken[e]) < PacketMax /\ Goto(e, "tap2net")
           \/ Readable(e) /\ Goto(e, "length")
        /\ netSet' = [netSet EXCEPT ![e] = Readable(e)]
        /\ UNCHANGED <<connected, out, chan, buffer, plength, taken, given>>
     \/ Fails(e)

Frame_HostOrder(p) == <<Len(p) % 256, Len(p) \div 256>> \o p

\* plength = htons(nread), and the bytes of both writes.
Frame(p) == <<Len(p) \div 256, Len(p) % 256>> \o p

\* nread = cread(tap_fd, buffer, BUFSIZE)
ReadTap(e) ==
  /\ pc[e] = "tap2net"
  /\ \/ /\ \E p \in Packets : /\ taken' = [taken EXCEPT ![e] = Append(@, p)]
                              /\ out' = [out EXCEPT ![e] = Frame(p)]
        /\ Goto(e, "write")
        /\ UNCHANGED <<connected, netSet, chan, buffer, plength, given>>
     \/ Fails(e)

Written_Unchecked(e, rest) ==
  /\ out' = [out EXCEPT ![e] = rest]
  /\ Goto(e, IF rest # <<>> THEN "write" ELSE "length")

Written_Short(e, rest) ==
  /\ out' = [out EXCEPT ![e] = <<>>]
  /\ Goto(e, IF netSet[e] THEN "length" ELSE "select")

\* After the writes: the second FD_ISSET.
Written(e, rest) ==
  /\ out' = [out EXCEPT ![e] = rest]
  /\ Goto(e, IF rest # <<>> THEN "write" ELSE IF netSet[e] THEN "length" ELSE "select")

\* The two calls of cwrite(net_fd, ...) put n more bytes into the connection.
WriteNet(e) ==
  /\ pc[e] = "write"
  /\ \/ \E n \in 1..Len(out[e]) :
          /\ \/ /\ ~Over(Peer(e)) /\ Len(chan[e]) + n <= Capacity
                /\ chan' = [chan EXCEPT ![e] = @ \o SubSeq(out[e], 1, n)]
             \/ Over(Peer(e)) /\ UNCHANGED chan
          /\ Written(e, SubSeq(out[e], n + 1, Len(out[e])))
          /\ UNCHANGED <<connected, netSet, buffer, plength, taken, given>>
     \/ Over(Peer(e)) /\ End(e, "done")
     \/ Fails(e)

Reads_Whole(e, want) == {n \in 1..Len(chan[Peer(e)]) : n <= want}

\* What one cread(net_fd, ...) of read_n may return, `want' bytes being asked for.
Reads(e, want) == {n \in 1..Len(chan[Peer(e)]) : Len(buffer[e]) + n <= want}

Got(e, n) == buffer[e] \o SubSeq(chan[Peer(e)], 1, n)

Drain(e, n) == chan' = [chan EXCEPT ![Peer(e)] = SubSeq(@, n + 1, Len(@))]

Eof(e) == chan[Peer(e)] = <<>> /\ Over(Peer(e))

ntohs(bytes) == 256 * bytes[1] + bytes[2]

EndsAtEof_Ignored(e) ==
  /\ Eof(e) /\ Goto(e, "select")
  /\ UNCHANGED <<connected, netSet, out, chan, buffer, plength, taken, given>>

\* nread == 0: main returns, also when one of the two bytes has been read.
EndsAtEof(e) == Eof(e) /\ End(e, "done")

\* read_n(net_fd, &plength, 2)
ReadLength(e) ==
  /\ pc[e] = "length"
  /\ \/ \E n \in Reads(e, 2) :
          /\ Drain(e, n)
          /\ \/ /\ Len(Got(e, n)) < 2
                /\ buffer' = [buffer EXCEPT ![e] = Got(e, n)]
                /\ UNCHANGED <<pc, plength>>
             \/ /\ Len(Got(e, n)) = 2
                /\ plength' = [plength EXCEPT ![e] = ntohs(Got(e, n))]
                /\ buffer' = [buffer EXCEPT ![e] = <<>>]
                /\ Goto(e, "packet")
          /\ UNCHANGED <<connected, netSet, out, taken, given>>
     \/ EndsAtEof(e)
     \/ Fails(e)

\* read_n(net_fd, buffer, ntohs(plength))
ReadPacket(e) ==
  /\ pc[e] = "packet"
  /\ \/ \E n \in Reads(e, plength[e]) :
          /\ Drain(e, n)
          /\ buffer' = [buffer EXCEPT ![e] = Got(e, n)]
          /\ UNCHANGED <<pc, connected, netSet, out, plength, taken, given>>
     \/ Fails(e)

WriteTap_Partial(e) ==
  /\ pc[e] = "packet" /\ buffer[e] # <<>>
  /\ Len(buffer[e]) = plength[e] \/ Eof(e)
  /\ given' = [given EXCEPT ![e] = Append(@, buffer[e])]
  /\ buffer' = [buffer EXCEPT ![e] = <<>>]
  /\ Goto(e, "select")
  /\ UNCHANGED <<connected, netSet, out, chan, plength, taken>>

\* cwrite(tap_fd, buffer, nread).  At the end of the stream nread is 0, however
\* much was read, and the interface refuses a packet of no bytes.
WriteTap(e) ==
  /\ pc[e] = "packet"
  /\ \/ /\ Len(buffer[e]) = plength[e] /\ buffer[e] # <<>>
        /\ given' = [given EXCEPT ![e] = Append(@, buffer[e])]
        /\ buffer' = [buffer EXCEPT ![e] = <<>>]
        /\ Goto(e, "select")
        /\ UNCHANGED <<connected, netSet, out, chan, plength, taken>>
     \/ Len(buffer[e]) < plength[e] /\ Eof(e) /\ End(e, "done")
     \/ Fails(e)

\* "ctrl-c at the other end"
Kill(e) == "ctrl-c" \in Faults /\ ~Over(e) /\ End(e, "aborted")

Loop(e) ==
  Select(e) \/ ReadTap(e) \/ WriteNet(e) \/ ReadLength(e) \/ ReadPacket(e) \/ WriteTap(e)

Next ==
  \/ Listen \/ Connect \/ AcceptClient
  \/ \E e \in Ends : tun_alloc(e) \/ Socket(e) \/ Loop(e) \/ Kill(e)

Spec == Init /\ [][Next]_vars

\* The kernel runs a process that can run.  That packets arrive at an interface
\* is not fair, nor is a failure.
Works(e) == pc'[e] # "aborted"

Fairness ==
  /\ WF_vars(AcceptClient /\ Works("server"))
  /\ \A e \in Ends :
       /\ WF_vars((ReadTap(e) \/ WriteNet(e) \/ ReadLength(e) \/ ReadPacket(e) \/ WriteTap(e)) /\ Works(e))
       /\ WF_vars(Select(e) /\ Readable(e) /\ Works(e))

FairSpec == Spec /\ Fairness

-----------------------------------------------------------------------------
(* Properties *)

\* Every variable has its type: read_n reads no more than it is asked for, and
\* there is something left to write exactly while main() writes.
TypeOK ==
  /\ pc \in [Ends -> States] /\ connected \in BOOLEAN
  /\ netSet \in [Ends -> BOOLEAN]
  /\ \A e \in Ends :
       /\ out[e] \in Seq(Byte) /\ (out[e] # <<>> <=> pc[e] = "write")
       /\ chan[e] \in Seq(Byte) /\ Len(chan[e]) <= Capacity
       /\ buffer[e] \in Seq(Byte) /\ Len(buffer[e]) <= BUFSIZE
       /\ taken[e] \in Seq(Packets) /\ given[e] \in Seq(Packets)
  /\ plength \in [Ends -> UInt16]

Pipe ==
  INSTANCE FramePipe WITH open <- [e \in Ends |-> ~Over(e)],
                          accepted <- taken, delivered <- given

\* The tunnel is a pipe for packets: whatever the kernel makes of the writes and
\* reads, and wherever an end is killed, cwrite(tap_fd, ...) writes the packets
\* that the other end read from its interface, whole, in order, once.
CarriesPackets == Pipe!PipeSpec

\* The length that read_n is given for a packet never exceeds the buffer: the
\* two bytes read as a length are always those of a length.
BufferFits == \A e \in Ends : pc[e] = "packet" => plength[e] <= BUFSIZE

\* main() waits inside select(), read() or write().
Blocked(e) ==
  \/ pc[e] \in {"select", "length"} /\ ~Readable(e)
  \/ pc[e] = "packet" /\ ~Readable(e) /\ Len(buffer[e]) < plength[e]
  \/ pc[e] = "write" /\ ~Over(Peer(e)) /\ Len(chan[e]) = Capacity

\* Both ends wait at once only when there is nothing to carry, or when both
\* write and both directions are full, which nothing can resolve: no read_n
\* waits for bytes that the other end is not about to write.
StallsOnlyWhenFull ==
  (\A e \in Ends : Blocked(e)) =>
    (\A e \in Ends : pc[e] = "select") \/ (\A e \in Ends : pc[e] = "write")

\* While one interface is silent, every packet read from the other is carried
\* over, unless an end goes away.
OneWayDelivered ==
  \A e \in Ends : \A n \in 1..PacketMax :
    [](taken[Peer(e)] = <<>>) =>
      (Len(taken[e]) >= n ~> Len(given[Peer(e)]) >= n \/ Over(e) \/ Over(Peer(e)))

\* When one end of a connection goes away, the other ends too: "ctrl-c at the
\* other end" is seen wherever its loop is.
EndsTogether == \A e \in Ends : connected /\ Over(e) ~> Over(Peer(e))

=============================================================================
