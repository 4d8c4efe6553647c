------------------------------ MODULE EthEcho -------------------------------
(***************************************************************************)
(* The eth_echo program: a server that overwrites whatever it receives     *)
(* with 0xde and sends it to the one client address it knows, and clients  *)
(* that broadcast 32 bytes of 0xab and take the next frame for the answer. *)
(***************************************************************************)
EXTENDS Taps

CONSTANTS
  Servers, Clients,   \* processes run with and without --server
  kClientHost         \* the host whose eth0 has the address kClientMac

ASSUME EthEchoAssumption ==
  Servers \cup Clients \subseteq Procs /\ Servers \cap Clients = {} /\ kClientHost \in Hosts

VARIABLES
  filled,   \* [Servers -> BOOLEAN]: the vector `payload' has bytes in it
  answer    \* [Clients -> what the client took for the answer]

echoVars == <<filled, answer>>

EchoInit ==
  /\ filled = [s \in Servers |-> FALSE]
  /\ answer = [c \in Clients |-> "none"]

\* All frames of eth_echo have the EtherType of ARP, 64 bytes and a CRC.
EchoFrame(to, payload, byte) ==
  [to |-> to, type |-> "ARP", protocol |-> byte, full |-> TRUE, fcs |-> TRUE,
   payload |-> payload]

\* SendEthernetFrame returns Ok: also when the interface index cannot be had
\* and the frame is not sent.  It returns an error when sendto() fails.
SendEthernetFrame(p, f) == Transmit(p, f) \/ Fails(p)

ServerRecv_NoResize(p) ==
  /\ pc[p] = "recv"
  /\ Take(p) \/ Fails(p)
  /\ Goto(p, "send")
  /\ UNCHANGED <<filter, filled, answer>>

\* RecvEthernetFrame of Server: only a frame with its CRC replaces the payload,
\* and an error is printed and forgotten.
ServerRecv(p) ==
  /\ pc[p] = "recv"
  /\ \/ /\ Take(p)
        /\ filled' = [filled EXCEPT ![p] = @ \/ Received(p).fcs]
     \/ Fails(p) /\ UNCHANGED filled
  /\ Goto(p, "send")
  /\ UNCHANGED <<filter, answer>>

ServerSend_ToServer(p) ==
  /\ pc[p] = "send"
  /\ SendEthernetFrame(p, IF filled[p] THEN EchoFrame(HostOf[p], "echo", 222)
                                       ELSE EchoFrame(HostOf[p], "empty", 0))
  /\ Goto(p, "recv")
  /\ UNCHANGED <<filter, echoVars>>

\* memset, and SendEthernetFrame, whose status is not looked at.
ServerSend(p) ==
  /\ pc[p] = "send"
  /\ SendEthernetFrame(p, IF filled[p] THEN EchoFrame(kClientHost, "echo", 222)
                                       ELSE EchoFrame(kClientHost, "empty", 0))
  /\ Goto(p, "recv")
  /\ UNCHANGED <<filter, echoVars>>

\* RawSocket::CreateOrDie of Client.
ClientOpen(p) ==
  /\ p \in Clients /\ pc[p] = "off"
  /\ \/ Goto(p, "ask") /\ Quiet
     \/ Goto(p, "done") /\ Noise
  /\ UNCHANGED <<q, filter, echoVars>>

ClientSend(p) ==
  /\ pc[p] = "ask"
  /\ \/ /\ SendEthernetFrame(p, EchoFrame("all", "ask", 171))
        /\ Goto(p, "await")
        /\ UNCHANGED filter
     \/ Noise /\ Exit(p)
  /\ UNCHANGED echoVars

\* Whatever comes, Client returns 0.
ClientRecv(p) ==
  /\ pc[p] = "await"
  /\ \/ /\ q[p] # <<>> /\ Quiet
        /\ answer' = [answer EXCEPT ![p] = IF Received(p).fcs THEN Received(p).payload ELSE "error"]
     \/ Noise /\ answer' = [answer EXCEPT ![p] = "error"]
  /\ Exit(p)
  /\ UNCHANGED filled

EchoStep(p) ==
  ServerRecv(p) \/ ServerSend(p) \/ ClientOpen(p) \/ ClientSend(p) \/ ClientRecv(p)

-----------------------------------------------------------------------------
(* Properties *)

EchoTypeOK ==
  /\ filled \in [Servers -> BOOLEAN]
  /\ answer \in [Clients -> {"none", "ask", "echo", "empty", "error", "other"}]

\* On a quiet link a client takes for its answer a full echo or, because its
\* one RecvEthernetFrame takes any frame, the request of another client; never
\* its own request and never the echo of a server that has received nothing.
QuietAnswers ==
  \A c \in Clients : noise = 0 =>
    /\ answer[c] \in {"none", "echo", "ask"}
    /\ answer[c] = "ask" => \E d \in Clients \ {c} : pc[d] \in {"await", "done"}

\* On a quiet link a client that waits, waits in vain neither for its server nor
\* because others' frames filled a queue.
ClientsReturn ==
  \A c \in Clients : pc[c] = "await" /\ noise = 0 ~> pc[c] = "done" \/ noise > 0

\* The echoing stops: one server never answers its own echoes, so it ends up
\* waiting for a frame, whatever traffic and failures there were before.
EchoSettles == \A s \in Servers : <>[](pc[s] = "recv" /\ q[s] = <<>>)

=============================================================================
