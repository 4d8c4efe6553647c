----------------------------- MODULE ToolsProof -----------------------------
(***************************************************************************)
(* The echo program and the monitors, for any number of hosts, servers,    *)
(* clients and monitors, any queue length and any amount of noise.         *)
(***************************************************************************)
EXTENDS Tools, TLAPS

USE TapsAssumption, EthEchoAssumption, MonitorsAssumption

Labels == {"off", "recv", "send", "ask", "await", "attach", "listen", "sniff", "done"}

\* Which program a process runs shows in where it is.
Control ==
  \A p \in Procs :
    /\ pc[p] \in {"recv", "send"} => p \in Servers
    /\ pc[p] \in {"ask", "await"} => p \in Clients
    /\ pc[p] \in {"attach", "listen"} => p \in ArpMonitors
    /\ pc[p] = "sniff" => p \in Sniffers

TypeInv == TypeOK /\ Control

-----------------------------------------------------------------------------
(* What happens to the receive queues. *)

\* f was put into some queues of running processes outside P, unless the
\* filter or the bound kept it out.
Arrived(P, f) ==
  \A s \in Procs :
    \/ q'[s] = q[s]
    \/ /\ s \notin P /\ Running(s) /\ (filter[s] => f.type = "ARP") /\ Len(q[s]) < RcvQueueMax
       /\ q'[s] = Append(q[s], f)

Closed(p) == q'[p] = <<>> /\ \A s \in Procs \ {p} : q'[s] = q[s]

Taken(p) == q[p] # <<>> /\ q'[p] = Tail(q[p]) /\ \A s \in Procs \ {p} : q'[s] = q[s]

QueuesOK == q \in [Procs -> Seq(Frame)]

LEMMA AppendFacts ==
  ASSUME NEW s \in Seq(Frame), NEW f \in Frame
  PROVE  /\ Append(s, f) \in Seq(Frame) /\ Len(Append(s, f)) = Len(s) + 1
         /\ \A i \in 1..Len(Append(s, f)) :
              Append(s, f)[i] = IF i <= Len(s) THEN s[i] ELSE f
OBVIOUS

LEMMA TailFacts ==
  ASSUME NEW s \in Seq(Frame), s # <<>>
  PROVE  /\ Tail(s) \in Seq(Frame) /\ Len(Tail(s)) = Len(s) - 1
         /\ Head(s) \in Frame /\ Head(s) = s[1] /\ Len(s) > 0
         /\ \A i \in 1..Len(Tail(s)) : Tail(s)[i] = s[i + 1]
OBVIOUS

LEMMA DeliverArrives ==
  ASSUME QueuesOK, NEW f \in Frame, NEW S, NEW P, P \cap S = {},
         \A s \in S : Running(s), q' = Deliver(f, S)
  PROVE  Arrived(P, f) /\ QueuesOK'
<1>1. \A s \in Procs : q'[s] = IF s \in S /\ (filter[s] => f.type = "ARP") /\ Len(q[s]) < RcvQueueMax
                              THEN Append(q[s], f) ELSE q[s]
  BY Zenon DEF Deliver, arpfilter
<1>2. Arrived(P, f)
  BY <1>1, Zenon DEF Arrived
<1>3. \A s \in Procs : Append(q[s], f) \in Seq(Frame) /\ q[s] \in Seq(Frame)
  BY AppendFacts DEF QueuesOK
<1>4. QueuesOK'
  BY <1>3 DEF QueuesOK, Deliver
<1> QED BY <1>2, <1>4

LEMMA TransmitArrives ==
  ASSUME QueuesOK, NEW f \in Frame, NEW p, Transmit(p, f)
  PROVE  Arrived({p}, f) /\ QueuesOK' /\ (Quiet \/ Noise)
<1>1. PICK lost \in BOOLEAN :
        /\ q' = Deliver(f, Others(p) \cap SocketsOn({h \in Hosts : ~lost /\ f.to \in {"all", h}}
                                                     \cup {HostOf[p]}))
        /\ IF lost THEN Noise ELSE Quiet
  BY Zenon DEF Transmit
<1> DEFINE S == Others(p) \cap SocketsOn({h \in Hosts : ~lost /\ f.to \in {"all", h}}
                                            \cup {HostOf[p]})
<1>2. {p} \cap S = {} /\ \A s \in S : Running(s)
  BY Zenon DEF Others, SocketsOn
<1>3. q' = Deliver(f, S)
  BY <1>1, Zenon
<1> HIDE DEF S
<1>4. Arrived({p}, f) /\ QueuesOK'
  BY <1>2, <1>3, DeliverArrives
<1> QED BY <1>1, <1>4, Zenon

LEMMA SendArrives ==
  ASSUME QueuesOK, NEW f \in Frame, NEW p, SendEthernetFrame(p, f)
  PROVE  Arrived({p}, f) /\ QueuesOK' /\ (Quiet \/ Noise)
<1>1. CASE Transmit(p, f)
  BY <1>1, TransmitArrives
<1>2. CASE Fails(p)
  BY <1>2, Zenon DEF Fails, Arrived, QueuesOK
<1> QED BY <1>1, <1>2 DEF SendEthernetFrame

LEMMA TakeTakes ==
  ASSUME QueuesOK, NEW p \in Procs, Take(p)
  PROVE  Taken(p) /\ QueuesOK' /\ Quiet /\ Received(p) \in Frame
<1>1. q[p] # <<>> /\ q' = [q EXCEPT ![p] = Tail(q[p])] /\ Quiet
  BY DEF Take
<1>2. q[p] \in Seq(Frame)
  BY DEF QueuesOK
<1>3. Tail(q[p]) \in Seq(Frame) /\ Head(q[p]) \in Frame
  BY <1>1, <1>2, TailFacts
<1> QED BY <1>1, <1>3 DEF QueuesOK, Taken, Received

LEMMA ExitCloses ==
  ASSUME QueuesOK, NEW p \in Procs, Exit(p)
  PROVE  Closed(p) /\ QueuesOK'
BY DEF Exit, QueuesOK, Closed

-----------------------------------------------------------------------------
(* Types. *)

\* The parts of TypeOK that do not depend on one another's next value.
QueueLengths == \A p \in Procs : Len(q[p]) <= IF Running(p) THEN RcvQueueMax ELSE 0

Filters == filter \in [Procs -> BOOLEAN] /\ \A p \in Procs : filter[p] <=> pc[p] = "listen"

TypeParts ==
  /\ pc \in [Procs -> Labels] /\ Control
  /\ QueuesOK /\ QueueLengths /\ Filters /\ noise \in 0..NoiseMax
  /\ EchoTypeOK /\ MonitorTypeOK

LEMMA TypeInvParts == TypeInv <=> TypeParts
BY Zenon DEF TypeInv, TypeParts, TypeOK, QueuesOK, QueueLengths, Filters, Labels

\* A process that runs goes on running, or opens an empty queue, or ends.
LEMMA LengthsArrived ==
  ASSUME TypeParts, NEW f \in Frame, NEW P, NEW p, NEW l \in Labels, Arrived(P, f),
         pc' = pc \/ Goto(p, l), l \notin {"off", "done"}
  PROVE  QueueLengths'
<1> SUFFICES ASSUME NEW s \in Procs
             PROVE  Len(q'[s]) <= IF Running(s)' THEN RcvQueueMax ELSE 0
  BY DEF QueueLengths
<1>1. q[s] \in Seq(Frame) /\ Len(q[s]) \in Nat /\ Len(q[s]) <= IF Running(s) THEN RcvQueueMax ELSE 0
  BY DEF TypeParts, QueuesOK, QueueLengths
<1>2. Running(s) => Running(s)'
  BY DEF TypeParts, Goto, Running
<1>3. CASE q'[s] = q[s]
  BY <1>1, <1>2, <1>3
<1>4. CASE Running(s) /\ Len(q[s]) < RcvQueueMax /\ q'[s] = Append(q[s], f)
  BY <1>1, <1>2, <1>4, AppendFacts
<1> QED BY <1>3, <1>4, Zenon DEF Arrived

LEMMA LengthsTaken ==
  ASSUME TypeParts, NEW p \in Procs, Taken(p), Running(p),
         pc' = pc \/ \E l \in Labels \ {"off", "done"} : Goto(p, l)
  PROVE  QueueLengths'
<1> SUFFICES ASSUME NEW s \in Procs
             PROVE  Len(q'[s]) <= IF Running(s)' THEN RcvQueueMax ELSE 0
  BY DEF QueueLengths
<1>1. q[s] \in Seq(Frame) /\ Len(q[s]) \in Nat /\ Len(q[s]) <= IF Running(s) THEN RcvQueueMax ELSE 0
  BY DEF TypeParts, QueuesOK, QueueLengths
<1>2. Running(s) => Running(s)'
  BY DEF TypeParts, Goto, Running
<1>3. CASE s # p
  BY <1>1, <1>2, <1>3 DEF Taken
<1>4. CASE s = p
  <2>1. Len(q'[s]) = Len(q[s]) - 1
    BY <1>1, <1>4, TailFacts, Zenon DEF Taken
  <2> QED BY <1>1, <1>2, <1>4, <2>1
<1> QED BY <1>3, <1>4

LEMMA LengthsClosed ==
  ASSUME TypeParts, NEW p \in Procs, Closed(p), Goto(p, "done")
  PROVE  QueueLengths'
<1> SUFFICES ASSUME NEW s \in Procs
             PROVE  Len(q'[s]) <= IF Running(s)' THEN RcvQueueMax ELSE 0
  BY DEF QueueLengths
<1>1. CASE s = p
  <2>1. Len(q'[s]) = 0
    BY <1>1 DEF Closed
  <2> QED BY <2>1
<1>2. CASE s # p
  <2>1. Running(s)' <=> Running(s)
    BY <1>2 DEF TypeParts, Goto, Running
  <2> QED BY <1>2, <2>1 DEF Closed, TypeParts, QueueLengths
<1> QED BY <1>1, <1>2

\* What the step of a process that goes from `from' to `to' leaves to show.
LEMMA MoveType ==
  ASSUME TypeParts, NEW p \in Procs, NEW l \in Labels, Goto(p, l), l # "listen", pc[p] # "listen",
         filter' = filter,
         l \in {"recv", "send"} => p \in Servers, l \in {"ask", "await"} => p \in Clients,
         l = "attach" => p \in ArpMonitors, l = "sniff" => p \in Sniffers
  PROVE  pc' \in [Procs -> Labels] /\ Control' /\ Filters'
<1>1. pc' = [pc EXCEPT ![p] = l] /\ pc \in [Procs -> Labels]
  BY DEF Goto, TypeParts
<1>2. pc' \in [Procs -> Labels] /\ \A s \in Procs : pc'[s] = IF s = p THEN l ELSE pc[s]
  BY <1>1
<1>3. Control'
  BY <1>2 DEF Control, TypeParts
<1>4. Filters'
  BY <1>2, Zenon DEF Filters, TypeParts
<1> QED BY <1>2, <1>3, <1>4

LEMMA ExitType ==
  ASSUME TypeParts, NEW p \in Procs, Exit(p)
  PROVE  pc' \in [Procs -> Labels] /\ Control' /\ Filters' /\ QueuesOK' /\ QueueLengths'
<1>1. /\ pc' = [pc EXCEPT ![p] = "done"] /\ filter' = [filter EXCEPT ![p] = FALSE]
      /\ pc \in [Procs -> Labels] /\ filter \in [Procs -> BOOLEAN] /\ "done" \in Labels
  BY DEF Goto, Exit, TypeParts, Filters, Labels
<1>2. pc' \in [Procs -> Labels] /\ \A s \in Procs : pc'[s] = IF s = p THEN "done" ELSE pc[s]
  BY <1>1
<1>3. filter' \in [Procs -> BOOLEAN] /\ \A s \in Procs : filter'[s] = IF s = p THEN FALSE ELSE filter[s]
  BY <1>1
<1>4. Control'
  BY <1>2 DEF Control, TypeParts
<1>5. Filters'
  BY <1>2, <1>3, Zenon DEF Filters, TypeParts
<1>6. QueuesOK' /\ Closed(p)
  BY ExitCloses DEF TypeParts
<1>7. QueueLengths'
  BY <1>6, LengthsClosed DEF Exit
<1> QED BY <1>2, <1>4, <1>5, <1>6, <1>7

LEMMA NoiseType ==
  ASSUME noise \in 0..NoiseMax, Quiet \/ Noise
  PROVE  noise' \in 0..NoiseMax
BY DEF Quiet, Noise

LEMMA EchoFrameType ==
  ASSUME NEW to \in Hosts \cup {"all"}, NEW payload \in {"ask", "echo", "empty", "other"},
         NEW byte \in 0..255
  PROVE  EchoFrame(to, payload, byte) \in Frame
BY DEF EchoFrame, Frame

\* What the server sends.
Answer(p) == IF filled[p] THEN EchoFrame(kClientHost, "echo", 222)
                          ELSE EchoFrame(kClientHost, "empty", 0)

LEMMA AnswerType == \A p : Answer(p) \in Frame
<1>1. /\ EchoFrame(kClientHost, "echo", 222) \in Frame
      /\ EchoFrame(kClientHost, "empty", 0) \in Frame
  BY EchoFrameType
<1> QED BY <1>1, Zenon DEF Answer

LEMMA AskType == EchoFrame("all", "ask", 171) \in Frame
BY EchoFrameType

LEMMA EchoTypes ==
  ASSUME TypeParts, NEW p \in Procs, EchoStep(p), UNCHANGED monitorVars
  PROVE  TypeParts'
<1>0. /\ QueuesOK /\ noise \in 0..NoiseMax /\ EchoTypeOK /\ MonitorTypeOK
      /\ "recv" \in Labels /\ "send" \in Labels /\ "ask" \in Labels /\ "await" \in Labels
      /\ "done" \in Labels
  BY DEF TypeParts, Labels
<1>1. MonitorTypeOK'
  BY <1>0, Zenon DEF MonitorTypeOK, monitorVars
<1>2. CASE ServerRecv(p)
  <2>1. pc[p] = "recv" /\ Goto(p, "send") /\ filter' = filter /\ answer' = answer
    BY <1>2 DEF ServerRecv
  <2>2. p \in Servers /\ Running(p)
    BY <2>1 DEF TypeParts, Control, Running
  <2>3. pc' \in [Procs -> Labels] /\ Control' /\ Filters'
    BY <1>0, <2>1, <2>2, MoveType
  <2>4. CASE Take(p) /\ filled' = [filled EXCEPT ![p] = @ \/ Received(p).fcs]
    <3>1. Taken(p) /\ QueuesOK' /\ Quiet /\ Received(p) \in Frame
      BY <1>0, <2>4, TakeTakes
    <3>2. QueueLengths'
      <4>1. \E l \in Labels \ {"off", "done"} : Goto(p, l)
        BY <1>0, <2>1
      <4> QED BY <2>2, <3>1, <4>1, LengthsTaken
    <3>3. EchoTypeOK'
      <4>1. Received(p).fcs \in BOOLEAN
        BY <3>1 DEF Frame
      <4> QED BY <1>0, <2>1, <2>2, <2>4, <4>1 DEF EchoTypeOK
    <3> QED BY <1>0, <1>1, <2>3, <3>1, <3>2, <3>3, NoiseType DEF TypeParts
  <2>5. CASE Fails(p) /\ UNCHANGED filled
    <3>1. QueuesOK' /\ QueueLengths' /\ Noise
      BY <2>1, <2>5 DEF Fails, TypeParts, QueuesOK, QueueLengths, Goto, Running
    <3>2. EchoTypeOK'
      BY <1>0, <2>1, <2>5, Zenon DEF EchoTypeOK
    <3> QED BY <1>0, <1>1, <2>3, <3>1, <3>2, NoiseType DEF TypeParts
  <2> QED BY <1>2, <2>4, <2>5 DEF ServerRecv
<1>3. CASE ServerSend(p)
  <2>1. /\ pc[p] = "send" /\ Goto(p, "recv") /\ filter' = filter /\ UNCHANGED echoVars
        /\ SendEthernetFrame(p, Answer(p))
    BY <1>3, Zenon DEF ServerSend, Answer
  <2>2. p \in Servers
    BY <2>1 DEF TypeParts, Control
  <2>3. pc' \in [Procs -> Labels] /\ Control' /\ Filters'
    BY <1>0, <2>1, <2>2, MoveType
  <2>4. Arrived({p}, Answer(p)) /\ QueuesOK' /\ (Quiet \/ Noise)
    BY <1>0, <2>1, AnswerType, SendArrives
  <2>5. QueueLengths'
    BY <1>0, <2>1, <2>4, AnswerType, LengthsArrived
  <2>6. EchoTypeOK'
    BY <1>0, <2>1, Zenon DEF EchoTypeOK, echoVars
  <2> QED BY <1>0, <1>1, <2>3, <2>4, <2>5, <2>6, NoiseType DEF TypeParts
<1>4. CASE ClientOpen(p)
  <2>1. /\ p \in Clients /\ pc[p] = "off" /\ q' = q /\ filter' = filter /\ UNCHANGED echoVars
        /\ Quiet \/ Noise
    BY <1>4 DEF ClientOpen
  <2>2. PICK l \in {"ask", "done"} : Goto(p, l)
    BY <1>4 DEF ClientOpen
  <2>3. pc' \in [Procs -> Labels] /\ Control' /\ Filters'
    BY <1>0, <2>1, <2>2, MoveType
  <2>4. QueuesOK' /\ QueueLengths'
    BY <2>1, <2>2 DEF TypeParts, QueuesOK, QueueLengths, Goto, Running
  <2>5. EchoTypeOK'
    BY <1>0, <2>1, Zenon DEF EchoTypeOK, echoVars
  <2> QED BY <1>0, <1>1, <2>1, <2>3, <2>4, <2>5, NoiseType DEF TypeParts
<1>5. CASE ClientSend(p)
  <2>1. pc[p] = "ask" /\ UNCHANGED echoVars
    BY <1>5 DEF ClientSend
  <2>2. p \in Clients
    BY <2>1 DEF TypeParts, Control
  <2>3. EchoTypeOK'
    BY <1>0, <2>1, Zenon DEF EchoTypeOK, echoVars
  <2>4. CASE SendEthernetFrame(p, EchoFrame("all", "ask", 171)) /\ Goto(p, "await") /\ UNCHANGED filter
    <3>1. pc' \in [Procs -> Labels] /\ Control' /\ Filters'
      BY <1>0, <2>1, <2>2, <2>4, MoveType
    <3>2. Arrived({p}, EchoFrame("all", "ask", 171)) /\ QueuesOK' /\ (Quiet \/ Noise)
      BY <1>0, <2>4, AskType, SendArrives
    <3>3. QueueLengths'
      BY <1>0, <2>4, <3>2, AskType, LengthsArrived
    <3> QED BY <1>0, <1>1, <2>3, <3>1, <3>2, <3>3, NoiseType DEF TypeParts
  <2>5. CASE Noise /\ Exit(p)
    BY <1>0, <1>1, <2>3, <2>5, ExitType, NoiseType DEF TypeParts
  <2> QED BY <1>5, <2>4, <2>5 DEF ClientSend
<1>6. CASE ClientRecv(p)
  <2>1. pc[p] = "await" /\ Exit(p) /\ filled' = filled /\ (Quiet \/ Noise)
    BY <1>6 DEF ClientRecv
  <2>2. p \in Clients
    BY <2>1 DEF TypeParts, Control
  <2>3. EchoTypeOK'
    <3>1. CASE q[p] # <<>> /\ answer' = [answer EXCEPT ![p] = IF Received(p).fcs THEN Received(p).payload ELSE "error"]
      <4>1. Received(p) \in Frame
        BY <1>0, <3>1, TailFacts DEF QueuesOK, Received
      <4>2. Received(p).payload \in {"ask", "echo", "empty", "other"}
        BY <4>1 DEF Frame
      <4> QED BY <1>0, <2>1, <2>2, <3>1, <4>2 DEF EchoTypeOK
    <3>2. CASE answer' = [answer EXCEPT ![p] = "error"]
      BY <1>0, <2>1, <2>2, <3>2 DEF EchoTypeOK
    <3> QED BY <1>6, <3>1, <3>2 DEF ClientRecv
  <2> QED BY <1>0, <1>1, <2>1, <2>3, ExitType, NoiseType DEF TypeParts
<1> QED BY <1>2, <1>3, <1>4, <1>5, <1>6 DEF EchoStep

LEMMA ClassCounted == \A f : Class(f) \in Counters \ {"total"}
BY DEF Class, Counters

\* A packet adds one to its counter and one to the total.
LEMMA ProcessPacketCounts ==
  ASSUME MonitorTypeOK, NEW p \in Sniffers, NEW f, ProcessPacket(p, f)
  PROVE  /\ count' \in [Sniffers -> [Counters -> Nat]] /\ arpSeen' \in [Sniffers -> Nat]
         /\ \A s \in Sniffers \ {p} : count'[s] = count[s] /\ arpSeen'[s] = arpSeen[s]
         /\ \A k \in Counters :
              count'[p][k] = IF k \in {Class(f), "total"} THEN count[p][k] + 1 ELSE count[p][k]
         /\ arpSeen'[p] = IF f.type = "ARP" THEN arpSeen[p] + 1 ELSE arpSeen[p]
<1> DEFINE k == Class(f)
<1>1. k \in Counters /\ "total" \in Counters /\ k # "total"
  BY ClassCounted DEF Counters
<1>2. count \in [Sniffers -> [Counters -> Nat]] /\ arpSeen \in [Sniffers -> Nat]
  BY DEF MonitorTypeOK
<1>3. /\ count' = [count EXCEPT ![p][k] = @ + 1, ![p]["total"] = @ + 1]
      /\ arpSeen' = [arpSeen EXCEPT ![p] = IF f.type = "ARP" THEN @ + 1 ELSE @]
  BY DEF ProcessPacket
<1> HIDE DEF k
<1>4. /\ arpSeen' \in [Sniffers -> Nat] /\ \A s \in Sniffers \ {p} : arpSeen'[s] = arpSeen[s]
      /\ arpSeen'[p] = IF f.type = "ARP" THEN arpSeen[p] + 1 ELSE arpSeen[p]
  BY <1>2, <1>3
<1>5. count[p] \in [Counters -> Nat]
  BY <1>2
<1>6. count'[p] = [[count[p] EXCEPT ![k] = count[p][k] + 1] EXCEPT !["total"] = count[p]["total"] + 1]
  BY <1>1, <1>2, <1>3, <1>5
<1>7. count'[p] \in [Counters -> Nat]
  BY <1>1, <1>5, <1>6
<1>8. \A j \in Counters : count'[p][j] = IF j \in {k, "total"} THEN count[p][j] + 1 ELSE count[p][j]
  BY <1>1, <1>5, <1>6
<1>9. \A s \in Sniffers \ {p} : count'[s] = count[s]
  BY <1>2, <1>3
<1>10. count' \in [Sniffers -> [Counters -> Nat]]
  BY <1>2, <1>3, <1>7, <1>9
<1> QED BY <1>4, <1>8, <1>9, <1>10 DEF k

LEMMA MonitorTypes ==
  ASSUME TypeParts, NEW p \in Procs, MonitorStep(p), UNCHANGED echoVars
  PROVE  TypeParts'
<1>0. /\ QueuesOK /\ noise \in 0..NoiseMax /\ EchoTypeOK /\ MonitorTypeOK
      /\ pc \in [Procs -> Labels] /\ filter \in [Procs -> BOOLEAN]
      /\ "attach" \in Labels /\ "listen" \in Labels /\ "sniff" \in Labels /\ "done" \in Labels
  BY DEF TypeParts, Labels, Filters
<1>1. EchoTypeOK'
  BY <1>0, Zenon DEF EchoTypeOK, echoVars
<1>2. CASE MonitorOpen(p)
  <2>1. /\ p \in ArpMonitors /\ pc[p] = "off" /\ q' = q /\ filter' = filter /\ UNCHANGED monitorVars
        /\ Quiet \/ Noise
    BY <1>2 DEF MonitorOpen
  <2>2. PICK l \in {"attach", "done"} : Goto(p, l)
    BY <1>2 DEF MonitorOpen
  <2>3. pc' \in [Procs -> Labels] /\ Control' /\ Filters'
    BY <1>0, <2>1, <2>2, MoveType
  <2>4. QueuesOK' /\ QueueLengths'
    BY <2>1, <2>2 DEF TypeParts, QueuesOK, QueueLengths, Goto, Running
  <2>5. MonitorTypeOK'
    BY <1>0, <2>1, Zenon DEF MonitorTypeOK, monitorVars
  <2> QED BY <1>0, <1>1, <2>1, <2>3, <2>4, <2>5, NoiseType DEF TypeParts
<1>3. CASE SnifferOpen(p)
  <2>1. /\ p \in Sniffers /\ pc[p] = "off" /\ q' = q /\ filter' = filter
        /\ UNCHANGED <<early, wrong, count, arpSeen>> /\ (Quiet \/ Noise)
    BY <1>3 DEF SnifferOpen
  <2>2. PICK l \in {"sniff", "done"} : Goto(p, l)
    BY <1>3 DEF SnifferOpen
  <2>3. pc' \in [Procs -> Labels] /\ Control' /\ Filters'
    BY <1>0, <2>1, <2>2, MoveType
  <2>4. QueuesOK' /\ QueueLengths'
    BY <2>1, <2>2 DEF TypeParts, QueuesOK, QueueLengths, Goto, Running
  <2>5. logfile' \in [Sniffers -> BOOLEAN]
    BY <1>0, <1>3, <2>1 DEF SnifferOpen, MonitorTypeOK
  <2>6. MonitorTypeOK'
    BY <1>0, <2>1, <2>5 DEF MonitorTypeOK
  <2> QED BY <1>0, <1>1, <2>1, <2>3, <2>4, <2>6, NoiseType DEF TypeParts
<1>4. CASE AttachFilter(p)
  <2>1. pc[p] = "attach" /\ UNCHANGED <<wrong, logfile, count, arpSeen>>
    BY <1>4 DEF AttachFilter
  <2>2. p \in ArpMonitors
    BY <2>1 DEF TypeParts, Control
  <2>3. CASE Noise /\ Exit(p) /\ UNCHANGED early
    <3>1. MonitorTypeOK'
      BY <1>0, <2>1, <2>3 DEF MonitorTypeOK
    <3> QED BY <1>0, <1>1, <2>3, <3>1, ExitType, NoiseType DEF TypeParts
  <2>4. CASE /\ filter' = [filter EXCEPT ![p] = TRUE]
             /\ early' = [early EXCEPT ![p] = Len(q[p])]
             /\ Goto(p, "listen")
             /\ Quiet /\ UNCHANGED q
    <3>1. Len(q[p]) \in 0..RcvQueueMax
      BY <1>0, <2>1 DEF TypeParts, QueueLengths, QueuesOK, Running
    <3>2. MonitorTypeOK'
      BY <1>0, <2>1, <2>2, <2>4, <3>1 DEF MonitorTypeOK
    <3>3. pc' \in [Procs -> Labels] /\ \A s \in Procs : pc'[s] = IF s = p THEN "listen" ELSE pc[s]
      BY <1>0, <2>4 DEF Goto
    <3>4. filter' \in [Procs -> BOOLEAN] /\ \A s \in Procs : filter'[s] = IF s = p THEN TRUE ELSE filter[s]
      BY <1>0, <2>4
    <3>5. Control'
      BY <2>2, <3>3 DEF Control, TypeParts
    <3>6. Filters'
      BY <3>3, <3>4, Zenon DEF Filters, TypeParts
    <3>7. QueuesOK' /\ QueueLengths'
      BY <2>1, <2>4, <3>3 DEF TypeParts, QueuesOK, QueueLengths, Running
    <3> QED BY <1>0, <1>1, <2>4, <3>2, <3>3, <3>5, <3>6, <3>7, NoiseType, Zenon DEF TypeParts
  <2> QED BY <1>4, <2>3, <2>4 DEF AttachFilter
<1>5. CASE Listen(p)
  <2>1. pc[p] = "listen" /\ UNCHANGED <<logfile, count, arpSeen>>
    BY <1>5 DEF Listen
  <2>2. p \in ArpMonitors /\ Running(p) /\ early[p] \in 0..RcvQueueMax
    BY <2>1 DEF TypeParts, Control, Running, MonitorTypeOK
  <2>3. CASE /\ Take(p) /\ UNCHANGED <<pc, filter, wrong>>
             /\ early' = [early EXCEPT ![p] = IF @ > 0 THEN @ - 1 ELSE 0]
    <3>1. MonitorTypeOK'
      BY <1>0, <2>1, <2>2, <2>3 DEF MonitorTypeOK
    <3>2. Taken(p) /\ QueuesOK' /\ Quiet
      BY <1>0, <2>3, TakeTakes
    <3>3. QueueLengths'
      BY <2>2, <2>3, <3>2, LengthsTaken
    <3>4. Control' /\ Filters'
      BY <2>3, Zenon DEF Control, Filters, TypeParts
    <3> QED BY <1>0, <1>1, <2>3, <3>1, <3>2, <3>3, <3>4, NoiseType DEF TypeParts
  <2>4. CASE Exit(p) /\ (Quiet \/ Noise) /\ early' = early /\ wrong' \in {wrong, [wrong EXCEPT ![p] = TRUE]}
    <3>1. MonitorTypeOK'
      BY <1>0, <2>1, <2>2, <2>4, Zenon DEF MonitorTypeOK
    <3> QED BY <1>0, <1>1, <2>4, <3>1, ExitType, NoiseType DEF TypeParts
  <2> QED BY <1>5, <2>3, <2>4 DEF Listen
<1>6. CASE Sniff(p)
  <2>1. pc[p] = "sniff" /\ UNCHANGED <<early, wrong, logfile>>
    BY <1>6 DEF Sniff
  <2>2. p \in Sniffers /\ Running(p)
    BY <2>1 DEF TypeParts, Control, Running
  <2>3. MonitorTypeOK'
    <3>1. CASE ProcessPacket(p, Received(p))
      BY <1>0, <2>1, <2>2, <3>1, ProcessPacketCounts DEF MonitorTypeOK
    <3>2. CASE UNCHANGED <<count, arpSeen>>
      BY <1>0, <2>1, <3>2 DEF MonitorTypeOK
    <3> QED BY <1>6, <3>1, <3>2 DEF Sniff
  <2>4. CASE Take(p) /\ UNCHANGED <<pc, filter>>
    <3>1. Taken(p) /\ QueuesOK' /\ Quiet
      BY <1>0, <2>4, TakeTakes
    <3>2. QueueLengths'
      BY <2>2, <2>4, <3>1, LengthsTaken
    <3>3. Control' /\ Filters'
      BY <2>4, Zenon DEF Control, Filters, TypeParts
    <3> QED BY <1>0, <1>1, <2>3, <2>4, <3>1, <3>2, <3>3, NoiseType DEF TypeParts
  <2>5. CASE Exit(p) /\ (Quiet \/ Noise)
    BY <1>0, <1>1, <2>3, <2>5, ExitType, NoiseType DEF TypeParts
  <2> QED BY <1>6, <2>4, <2>5, Zenon DEF Sniff
<1> QED BY <1>2, <1>3, <1>4, <1>5, <1>6 DEF MonitorStep

LEMMA StrayArrived ==
  ASSUME QueuesOK, NEW h, StrayArrives(h)
  PROVE  \E f \in Stray : Arrived({}, f) /\ QueuesOK'
<1>1. PICK f \in Stray : q' = Deliver(f, SocketsOn({h}))
  BY DEF StrayArrives
<1>2. \A s \in SocketsOn({h}) : Running(s)
  BY DEF SocketsOn
<1> QED BY <1>1, <1>2, DeliverArrives

LEMMA StrayTypes ==
  ASSUME TypeParts, NEW h, StrayArrives(h), UNCHANGED <<echoVars, monitorVars>>
  PROVE  TypeParts'
<1>1. PICK f \in Stray : Arrived({}, f) /\ QueuesOK'
  BY StrayArrived DEF TypeParts
<1>2. f \in Frame /\ "recv" \in Labels
  BY DEF Labels
<1>3. pc' = pc /\ filter' = filter /\ Noise /\ noise \in 0..NoiseMax
  BY DEF StrayArrives, TypeParts
<1>4. QueueLengths'
  BY <1>1, <1>2, <1>3, LengthsArrived
<1>5. Control' /\ Filters'
  BY <1>3, Zenon DEF Control, Filters, TypeParts
<1>6. EchoTypeOK' /\ MonitorTypeOK'
  BY Zenon DEF EchoTypeOK, MonitorTypeOK, echoVars, monitorVars, TypeParts
<1> QED BY <1>1, <1>3, <1>4, <1>5, <1>6, NoiseType DEF TypeParts

LEMMA TypeInit == Init => TypeInv
<1> SUFFICES ASSUME Init PROVE TypeParts
  BY TypeInvParts
<1>1. pc \in [Procs -> Labels] /\ \A p \in Procs : pc[p] = IF p \in Servers THEN "recv" ELSE "off"
  BY DEF Init, Labels
<1>2. Control
  BY <1>1 DEF Control
<1>3. QueuesOK
  BY DEF Init, QueuesOK
<1>4. QueueLengths
  BY DEF Init, QueueLengths
<1>5. Filters
  BY <1>1 DEF Init, Filters
<1>6. noise \in 0..NoiseMax
  BY DEF Init
<1>7. EchoTypeOK
  BY DEF Init, EchoInit, EchoTypeOK
<1>8. MonitorTypeOK
  BY DEF Init, MonitorInit, MonitorTypeOK
<1> QED BY <1>1, <1>2, <1>3, <1>4, <1>5, <1>6, <1>7, <1>8 DEF TypeParts

LEMMA TypeStep == TypeInv /\ [Next]_vars => TypeInv'
<1> SUFFICES ASSUME TypeParts, [Next]_vars PROVE TypeParts'
  <2>1. TypeParts' => TypeInv'
    BY Zenon DEF TypeInv, TypeParts, TypeOK, QueuesOK, QueueLengths, Filters, Labels
  <2> QED BY <2>1, TypeInvParts
<1>1. CASE \E p \in Procs : EchoStep(p) /\ UNCHANGED monitorVars
  BY <1>1, EchoTypes
<1>2. CASE \E p \in Procs : MonitorStep(p) /\ UNCHANGED echoVars
  BY <1>2, MonitorTypes
<1>3. CASE \E h \in Hosts : StrayArrives(h) /\ UNCHANGED <<echoVars, monitorVars>>
  BY <1>3, StrayTypes
<1>4. CASE UNCHANGED vars
  BY <1>4, Zenon DEF vars, tapVars, echoVars, monitorVars, TypeParts, Control, QueuesOK, QueueLengths,
                     Running, Filters, EchoTypeOK, MonitorTypeOK
<1> QED BY <1>1, <1>2, <1>3, <1>4, Zenon DEF Next

LEMMA TypeInvariant == Spec => []TypeInv
<1>1. Init => TypeInv
  BY TypeInit
<1>2. TypeInv /\ [Next]_vars => TypeInv'
  BY TypeStep
<1> QED BY <1>1, <1>2, PTL DEF Spec

\* The variables of eth_echo, arp.c and sniffer.c keep their types, no receive
\* queue exceeds its bound, and only arp.c's recv() loop has the filter (TypeOK).
THEOREM ToolsTypeCorrect == Spec => []TypeOK
<1>1. TypeInv => TypeOK
  BY DEF TypeInv
<1> QED BY <1>1, TypeInvariant, PTL

-----------------------------------------------------------------------------
(* What a step of one process does to the others. *)

Ask == EchoFrame("all", "ask", 171)

\* What p puts on the link when it takes its next step.
Sends(p) == {f \in Frame : (pc[p] = "send" /\ f = Answer(p)) \/ (pc[p] = "ask" /\ f = Ask)}

Bystander(s, F) ==
  /\ pc'[s] = pc[s]
  /\ \/ q'[s] = q[s]
     \/ \E f \in F : (filter[s] => f.type = "ARP") /\ q'[s] = Append(q[s], f)
  /\ s \in Servers => filled'[s] = filled[s]
  /\ s \in Clients => answer'[s] = answer[s]
  /\ s \in ArpMonitors => early'[s] = early[s] /\ wrong'[s] = wrong[s]
  /\ s \in Sniffers => count'[s] = count[s] /\ arpSeen'[s] = arpSeen[s] /\ logfile'[s] = logfile[s]

LEMMA ArrivedBystanders ==
  ASSUME NEW P, NEW f, NEW F, f \in F, Arrived(P, f), NEW s \in Procs
  PROVE  q'[s] = q[s] \/ \E g \in F : (filter[s] => g.type = "ARP") /\ q'[s] = Append(q[s], g)
BY Zenon DEF Arrived

LEMMA EchoBystanders ==
  ASSUME TypeParts, NEW p \in Procs, EchoStep(p), UNCHANGED monitorVars,
         NEW s \in Procs \ {p}
  PROVE  Bystander(s, Sends(p))
<1>0. /\ QueuesOK /\ pc \in [Procs -> Labels] /\ answer \in [Clients -> {"none", "ask", "echo", "empty", "error", "other"}]
  BY DEF TypeParts, EchoTypeOK
<1>1. \A l : Goto(p, l) => pc'[s] = pc[s]
  BY <1>0 DEF Goto
<1>2. /\ s \in ArpMonitors => early'[s] = early[s] /\ wrong'[s] = wrong[s]
      /\ s \in Sniffers => count'[s] = count[s] /\ arpSeen'[s] = arpSeen[s] /\ logfile'[s] = logfile[s]
  BY Zenon DEF monitorVars
<1>3. Exit(p) => pc'[s] = pc[s] /\ q'[s] = q[s]
  BY <1>0, <1>1, ExitCloses DEF Exit, Closed
<1>4. Take(p) \/ Fails(p) => q'[s] = q[s]
  BY <1>0, TakeTakes DEF Taken, Fails
<1>5. CASE ServerRecv(p)
  <2>1. s \in Servers => filled'[s] = filled[s]
    BY <1>5 DEF ServerRecv, TypeParts, EchoTypeOK
  <2> QED BY <1>1, <1>2, <1>4, <1>5, <2>1, Zenon DEF ServerRecv, Bystander
<1>6. CASE ServerSend(p)
  <2>1. pc[p] = "send" /\ Goto(p, "recv") /\ UNCHANGED <<filled, answer>> /\ SendEthernetFrame(p, Answer(p))
    BY <1>6, Zenon DEF ServerSend, Answer, echoVars
  <2>2. Arrived({p}, Answer(p)) /\ Answer(p) \in Frame
    BY <1>0, <2>1, AnswerType, SendArrives
  <2>3. Answer(p) \in Sends(p)
    BY <2>1, <2>2 DEF Sends
  <2>4. q'[s] = q[s] \/ \E g \in Sends(p) : (filter[s] => g.type = "ARP") /\ q'[s] = Append(q[s], g)
    BY <2>2, <2>3, ArrivedBystanders
  <2> QED BY <1>1, <1>2, <2>1, <2>4, Zenon DEF Bystander
<1>7. CASE ClientOpen(p)
  BY <1>1, <1>2, <1>7, Zenon DEF ClientOpen, Bystander, echoVars
<1>8. CASE ClientSend(p)
  <2>1. CASE SendEthernetFrame(p, Ask) /\ Goto(p, "await")
    <3>1. pc[p] = "ask" /\ UNCHANGED <<filled, answer>>
      BY <1>8 DEF ClientSend, echoVars
    <3>2. Arrived({p}, Ask) /\ Ask \in Frame
      BY <1>0, <2>1, AskType, SendArrives DEF Ask
    <3>3. Ask \in Sends(p)
      BY <3>1, <3>2 DEF Sends
    <3>4. q'[s] = q[s] \/ \E g \in Sends(p) : (filter[s] => g.type = "ARP") /\ q'[s] = Append(q[s], g)
      BY <3>2, <3>3, ArrivedBystanders
    <3> QED BY <1>1, <1>2, <2>1, <3>1, <3>4, Zenon DEF Bystander
  <2>2. CASE Exit(p)
    BY <1>2, <1>3, <1>8, <2>2, Zenon DEF ClientSend, Bystander, echoVars
  <2> QED BY <1>8, <2>1, <2>2, Zenon DEF ClientSend, Ask
<1>9. CASE ClientRecv(p)
  <2>1. \A v : answer' = [answer EXCEPT ![p] = v] => (s \in Clients => answer'[s] = answer[s])
    BY <1>0
  <2>2. s \in Clients => answer'[s] = answer[s]
    BY <1>9, <2>1, Zenon DEF ClientRecv
  <2> QED BY <1>2, <1>3, <1>9, <2>2, Zenon DEF ClientRecv, Bystander
<1> QED BY <1>5, <1>6, <1>7, <1>8, <1>9 DEF EchoStep

LEMMA MonitorBystanders ==
  ASSUME TypeParts, NEW p \in Procs, MonitorStep(p), UNCHANGED echoVars,
         NEW s \in Procs \ {p}
  PROVE  Bystander(s, Sends(p))
<1>0. QueuesOK /\ pc \in [Procs -> Labels] /\ MonitorTypeOK
  BY DEF TypeParts
<1>1. \A l : Goto(p, l) => pc'[s] = pc[s]
  BY <1>0 DEF Goto
<1>2. (s \in Servers => filled'[s] = filled[s]) /\ (s \in Clients => answer'[s] = answer[s])
  BY Zenon DEF echoVars
<1>3. Exit(p) => pc'[s] = pc[s] /\ q'[s] = q[s]
  BY <1>0, <1>1, ExitCloses DEF Exit, Closed
<1>4. Take(p) => q'[s] = q[s]
  BY <1>0, TakeTakes DEF Taken
<1>5. CASE MonitorOpen(p)
  BY <1>1, <1>2, <1>5, Zenon DEF MonitorOpen, Bystander, monitorVars
<1>6. CASE SnifferOpen(p)
  <2>1. s \in Sniffers => logfile'[s] = logfile[s]
    BY <1>0, <1>6 DEF SnifferOpen, MonitorTypeOK
  <2> QED BY <1>1, <1>2, <1>6, <2>1, Zenon DEF SnifferOpen, Bystander
<1>7. CASE AttachFilter(p)
  <2>1. s \in ArpMonitors => early'[s] = early[s]
    BY <1>0, <1>7 DEF AttachFilter, MonitorTypeOK
  <2> QED BY <1>1, <1>2, <1>3, <1>7, <2>1, Zenon DEF AttachFilter, Bystander
<1>8. CASE Listen(p)
  <2>1. s \in ArpMonitors => early'[s] = early[s] /\ wrong'[s] = wrong[s]
    BY <1>0, <1>8 DEF Listen, MonitorTypeOK
  <2> QED BY <1>2, <1>3, <1>4, <1>8, <2>1, Zenon DEF Listen, Bystander
<1>9. CASE Sniff(p)
  <2>1. p \in Sniffers
    BY <1>9 DEF Sniff, TypeParts, Control
  <2>2. s \in Sniffers => count'[s] = count[s] /\ arpSeen'[s] = arpSeen[s]
    <3>1. ProcessPacket(p, Received(p)) => (s \in Sniffers => count'[s] = count[s] /\ arpSeen'[s] = arpSeen[s])
      BY <1>0, <2>1, ProcessPacketCounts
    <3> QED BY <1>9, <3>1, Zenon DEF Sniff
  <2> QED BY <1>2, <1>3, <1>4, <1>9, <2>2, Zenon DEF Sniff, Bystander
<1> QED BY <1>5, <1>6, <1>7, <1>8, <1>9 DEF MonitorStep

LEMMA StrayBystanders ==
  ASSUME TypeParts, NEW h, StrayArrives(h), UNCHANGED <<echoVars, monitorVars>>, NEW s \in Procs
  PROVE  Bystander(s, Stray)
<1>1. PICK f \in Stray : Arrived({}, f)
  BY StrayArrived DEF TypeParts
<1>2. q'[s] = q[s] \/ \E g \in Stray : (filter[s] => g.type = "ARP") /\ q'[s] = Append(q[s], g)
  BY <1>1, ArrivedBystanders
<1> QED BY <1>2, Zenon DEF StrayArrives, Bystander, echoVars, monitorVars

-----------------------------------------------------------------------------
(* arp.c *)

\* Behind the first early[m] frames all are of the filter's type; a program that
\* has met the wrong type has ended.
WrongOK(m) ==
  /\ pc[m] = "listen" => \A i \in early[m] + 1 .. Len(q[m]) : q[m][i].type = "ARP"
  /\ wrong[m] => early[m] > 0 /\ pc[m] = "done"

WrongInv == \A m \in ArpMonitors : WrongOK(m)

LEMMA WrongBystander ==
  ASSUME TypeParts, NEW m \in ArpMonitors, WrongOK(m), NEW F, F \subseteq Frame, Bystander(m, F)
  PROVE  WrongOK(m)'
<1>1. pc'[m] = pc[m] /\ early'[m] = early[m] /\ wrong'[m] = wrong[m]
  BY DEF Bystander
<1>2. q[m] \in Seq(Frame) /\ early[m] \in Nat
  BY DEF TypeParts, QueuesOK, MonitorTypeOK
<1>3. CASE q'[m] = q[m]
  BY <1>1, <1>3, Zenon DEF WrongOK
<1>4. ASSUME NEW f \in F, filter[m] => f.type = "ARP", q'[m] = Append(q[m], f)
      PROVE  WrongOK(m)'
  <2> SUFFICES ASSUME pc[m] = "listen", NEW i \in early[m] + 1 .. Len(q'[m])
               PROVE  q'[m][i].type = "ARP"
    BY <1>1, Zenon DEF WrongOK
  <2>1. f.type = "ARP"
    BY <1>4 DEF TypeParts, Filters
  <2>2. i \in 1..Len(Append(q[m], f)) /\ Len(q[m]) \in Nat
    BY <1>2, <1>4, AppendFacts
  <2>3. q'[m][i] = IF i <= Len(q[m]) THEN q[m][i] ELSE f
    BY <1>2, <1>4, <2>2, AppendFacts
  <2>4. CASE i <= Len(q[m])
    <3>1. i \in early[m] + 1 .. Len(q[m])
      BY <1>2, <2>2, <2>4, SMTT(20)
    <3> QED BY <2>3, <2>4, <3>1 DEF WrongOK
  <2> QED BY <2>1, <2>3, <2>4
<1> QED BY <1>3, <1>4, Zenon DEF Bystander

\* A program other than the monitors' never comes to where the monitors are.
LEMMA EchoMoves ==
  ASSUME TypeParts, NEW p \in Procs, EchoStep(p)
  PROVE  /\ pc[p] # "done" /\ pc'[p] \in {"recv", "send", "ask", "await", "done"}
         /\ pc[p] \in {"off", "recv", "send", "ask", "await"}
<1>1. \A l : Goto(p, l) => pc'[p] = l
  BY DEF Goto, TypeParts
<1> QED BY <1>1 DEF EchoStep, ServerRecv, ServerSend, ClientOpen, ClientSend, ClientRecv, Exit

LEMMA WrongOwn ==
  ASSUME TypeParts, NEW m \in ArpMonitors, WrongOK(m), MonitorStep(m)
  PROVE  WrongOK(m)'
<1>0. /\ QueuesOK /\ pc \in [Procs -> Labels] /\ MonitorTypeOK /\ m \in Procs
      /\ q[m] \in Seq(Frame) /\ early[m] \in Nat /\ early \in [ArpMonitors -> 0..RcvQueueMax]
      /\ wrong \in [ArpMonitors -> BOOLEAN]
  BY DEF TypeParts, QueuesOK, MonitorTypeOK
<1>1. \A l : Goto(m, l) => pc'[m] = l
  BY <1>0 DEF Goto
<1>2. CASE Exit(m) /\ early' = early /\ wrong' = wrong
  BY <1>1, <1>2, Zenon DEF Exit, WrongOK
<1>3. CASE MonitorOpen(m) \/ SnifferOpen(m)
  <2>1. pc'[m] # "listen" /\ pc[m] = "off" /\ wrong' = wrong
    BY <1>1, <1>3 DEF MonitorOpen, SnifferOpen, monitorVars
  <2> QED BY <2>1, Zenon DEF WrongOK
<1>4. CASE AttachFilter(m)
  <2>1. CASE early' = [early EXCEPT ![m] = Len(q[m])] /\ Goto(m, "listen") /\ UNCHANGED q
    <3>1. early'[m] = Len(q[m]) /\ Len(q[m]) \in Nat
      BY <1>0, <2>1
    <3>2. ~wrong[m] /\ wrong' = wrong
      BY <1>4 DEF AttachFilter, WrongOK
    <3>3. \A i \in early'[m] + 1 .. Len(q'[m]) : FALSE
      BY <2>1, <3>1
    <3> QED BY <3>2, <3>3, Zenon DEF WrongOK
  <2> QED BY <1>2, <1>4, <2>1, Zenon DEF AttachFilter
<1>5. CASE Listen(m)
  <2>0. pc[m] = "listen"
    BY <1>5 DEF Listen
  <2>1. CASE /\ Take(m) /\ UNCHANGED <<pc, filter, wrong>>
             /\ early' = [early EXCEPT ![m] = IF @ > 0 THEN @ - 1 ELSE 0]
    <3>1. Taken(m)
      BY <1>0, <2>1, TakeTakes
    <3>2. early'[m] = IF early[m] > 0 THEN early[m] - 1 ELSE 0
      BY <1>0, <2>1, Zenon
    <3>3. ASSUME NEW i \in early'[m] + 1 .. Len(q'[m]) PROVE q'[m][i].type = "ARP"
      <4>1. Len(q'[m]) = Len(q[m]) - 1 /\ Len(q[m]) \in Nat /\ q[m] # <<>>
        BY <1>0, <3>1, TailFacts DEF Taken
      <4>2. i \in 1..Len(q'[m]) /\ i + 1 \in early[m] + 1 .. Len(q[m])
        BY <1>0, <3>2, <3>3, <4>1
      <4>3. q'[m][i] = q[m][i + 1]
        BY <1>0, <3>1, <4>1, <4>2, TailFacts DEF Taken
      <4> QED BY <2>0, <4>2, <4>3 DEF WrongOK
    <3>4. ~wrong[m]
      BY <2>0 DEF WrongOK
    <3> QED BY <2>1, <3>3, <3>4 DEF WrongOK
  <2>2. CASE /\ q[m] # <<>> /\ Received(m).type # "ARP" /\ Exit(m) /\ early' = early
             /\ wrong' = [wrong EXCEPT ![m] = TRUE]
    <3>1. Received(m) = q[m][1] /\ Len(q[m]) > 0 /\ Len(q[m]) \in Nat
      BY <1>0, <2>2, TailFacts DEF Received
    <3>2. early[m] > 0
      <4>1. early[m] = 0 => 1 \in early[m] + 1 .. Len(q[m])
        BY <3>1
      <4> QED BY <1>0, <2>0, <2>2, <3>1, <4>1 DEF WrongOK
    <3> QED BY <1>1, <2>2, <3>2, Zenon DEF WrongOK, Exit
  <2> QED BY <1>2, <1>5, <2>1, <2>2, Zenon DEF Listen
<1>6. CASE Sniff(m)
  <2>1. pc[m] = "sniff" /\ wrong' = wrong /\ (pc' = pc \/ Goto(m, "done"))
    BY <1>6 DEF Sniff, Exit
  <2> QED BY <1>1, <2>1 DEF WrongOK
<1> QED BY <1>3, <1>4, <1>5, <1>6 DEF MonitorStep

LEMMA WrongStep == TypeParts /\ WrongInv /\ [Next]_vars => WrongInv'
<1> SUFFICES ASSUME TypeParts, WrongInv, [Next]_vars, NEW m \in ArpMonitors PROVE WrongOK(m)'
  BY DEF WrongInv
<1>0. WrongOK(m) /\ m \in Procs /\ \A p : Sends(p) \subseteq Frame
  BY DEF WrongInv, Sends
<1>1. ASSUME NEW p \in Procs, EchoStep(p), UNCHANGED monitorVars PROVE WrongOK(m)'
  <2>1. CASE p = m
    <3>1. pc[m] # "done" /\ pc'[m] # "listen" /\ wrong' = wrong
      BY <1>0, <1>1, <2>1, EchoMoves DEF monitorVars
    <3> QED BY <1>0, <3>1, Zenon DEF WrongOK
  <2>2. CASE p # m
    BY <1>0, <1>1, <2>2, EchoBystanders, WrongBystander
  <2> QED BY <2>1, <2>2
<1>2. ASSUME NEW p \in Procs, MonitorStep(p), UNCHANGED echoVars PROVE WrongOK(m)'
  <2>1. CASE p = m
    BY <1>0, <1>2, <2>1, WrongOwn
  <2>2. CASE p # m
    BY <1>0, <1>2, <2>2, MonitorBystanders, WrongBystander
  <2> QED BY <2>1, <2>2
<1>3. ASSUME NEW h \in Hosts, StrayArrives(h), UNCHANGED <<echoVars, monitorVars>> PROVE WrongOK(m)'
  BY <1>0, <1>3, StrayBystanders, WrongBystander
<1>4. CASE UNCHANGED vars
  BY <1>0, <1>4, Zenon DEF vars, tapVars, monitorVars, WrongOK
<1> QED BY <1>1, <1>2, <1>3, <1>4, Zenon DEF Next

\* The race of arp.c between socket() and setsockopt() is its only way to a
\* "wrong ethernet type": the filter keeps everything else out of the queue
\* (WrongTypeOnlyEarly).
THEOREM WrongTypesAreEarly == Spec => []WrongTypeOnlyEarly
<1>1. Init => WrongInv
  BY DEF Init, MonitorInit, WrongInv, WrongOK
<1>2. TypeInv /\ WrongInv /\ [Next]_vars => WrongInv'
  BY WrongStep, TypeInvParts
<1>3. WrongInv => WrongTypeOnlyEarly
  BY Zenon DEF WrongInv, WrongOK, WrongTypeOnlyEarly
<1> QED BY <1>1, <1>2, <1>3, TypeInvariant, PTL DEF Spec

-----------------------------------------------------------------------------
(* sniffer.c *)

Printed(s) == count[s]["icmp"] + count[s]["tcp"] + count[s]["udp"]

\* Nothing is counted before the program runs, and nothing that is printed
\* without a log file; the total is the sum of the others.
SniffOK(s) ==
  /\ pc[s] = "off" => Printed(s) = 0
  /\ pc[s] = "sniff" /\ ~logfile[s] => Printed(s) = 0
  /\ count[s]["total"] = Printed(s) + count[s]["igmp"] + count[s]["others"]

SniffInv == \A s \in Sniffers : SniffOK(s)

\* The counters one by one, so that the provers see numbers.
LEMMA CountTypes ==
  ASSUME MonitorTypeOK, NEW s \in Sniffers
  PROVE  /\ count[s]["icmp"] \in Nat /\ count[s]["tcp"] \in Nat /\ count[s]["udp"] \in Nat
         /\ count[s]["igmp"] \in Nat /\ count[s]["others"] \in Nat /\ count[s]["total"] \in Nat
<1>1. count[s] \in [Counters -> Nat]
  BY DEF MonitorTypeOK
<1> QED BY <1>1 DEF Counters

LEMMA SniffOwn ==
  ASSUME TypeParts, NEW s \in Sniffers, SniffOK(s), MonitorStep(s)
  PROVE  SniffOK(s)'
<1>0. pc \in [Procs -> Labels] /\ MonitorTypeOK /\ s \in Procs /\ logfile \in [Sniffers -> BOOLEAN]
  BY DEF TypeParts, MonitorTypeOK
<1>1. \A l : Goto(s, l) => pc'[s] = l
  BY <1>0 DEF Goto
<1>2. ASSUME count' = count, pc'[s] \notin {"off", "sniff"} \/ pc[s] = "off" PROVE SniffOK(s)'
  BY <1>2, Zenon DEF SniffOK, Printed
<1>3. CASE MonitorOpen(s) \/ SnifferOpen(s)
  BY <1>2, <1>3, Zenon DEF MonitorOpen, SnifferOpen, monitorVars
<1>4. CASE AttachFilter(s) \/ Listen(s)
  <2>1. count' = count
    BY <1>4 DEF AttachFilter, Listen
  <2>2. pc'[s] \notin {"off", "sniff"}
    BY <1>1, <1>4 DEF AttachFilter, Listen, Exit
  <2> QED BY <1>2, <2>1, <2>2, Zenon
<1>5. CASE Sniff(s)
  <2>1. CASE UNCHANGED count
    <3>1. pc[s] = "sniff" /\ logfile' = logfile /\ (pc' = pc \/ Goto(s, "done"))
      BY <1>5 DEF Sniff, Exit
    <3> QED BY <1>1, <2>1, <3>1 DEF SniffOK, Printed
  <2>2. CASE ProcessPacket(s, Received(s))
    <3> DEFINE k == Class(Received(s))
    <3>1. /\ \A j \in Counters :
               count'[s][j] = IF j \in {k, "total"} THEN count[s][j] + 1 ELSE count[s][j]
          /\ k \in Counters \ {"total"}
      BY <1>0, <2>2, ProcessPacketCounts, ClassCounted
    <3>2. pc[s] = "sniff" /\ logfile' = logfile
      BY <1>5 DEF Sniff
    <3>3. /\ count[s]["icmp"] \in Nat /\ count[s]["tcp"] \in Nat /\ count[s]["udp"] \in Nat
          /\ count[s]["igmp"] \in Nat /\ count[s]["others"] \in Nat /\ count[s]["total"] \in Nat
      BY <1>0, CountTypes
    <3>4. count'[s]["total"] = count'[s]["icmp"] + count'[s]["tcp"] + count'[s]["udp"]
                                 + count'[s]["igmp"] + count'[s]["others"]
      <4>1. count[s]["total"] = count[s]["icmp"] + count[s]["tcp"] + count[s]["udp"]
                                 + count[s]["igmp"] + count[s]["others"]
        BY DEF SniffOK, Printed
      <4> HIDE DEF k
      <4> QED BY <3>1, <3>3, <4>1 DEF Counters
    <3>5. pc'[s] = "sniff" /\ ~logfile[s] => Printed(s)' = 0
      <4> SUFFICES ASSUME pc'[s] = "sniff", ~logfile[s] PROVE Printed(s)' = 0
        BY Zenon
      <4>1. Survives(s, Received(s))
        BY <1>1, <1>5 DEF Sniff, Exit
      <4>2. k \notin {"icmp", "tcp", "udp"}
        BY <4>1, Zenon DEF Survives
      <4>3. Printed(s) = 0
        BY <3>2 DEF SniffOK
      <4> HIDE DEF k
      <4> QED BY <3>1, <4>2, <4>3 DEF Counters, Printed
    <3>6. pc'[s] # "off"
      BY <1>1, <1>5 DEF Sniff, Exit
    <3> QED BY <3>2, <3>4, <3>5, <3>6, Zenon DEF SniffOK, Printed
  <2> QED BY <1>5, <2>1, <2>2, Zenon DEF Sniff
<1> QED BY <1>3, <1>4, <1>5 DEF MonitorStep

LEMMA SniffStep == TypeParts /\ SniffInv /\ [Next]_vars => SniffInv'
<1> SUFFICES ASSUME TypeParts, SniffInv, [Next]_vars, NEW s \in Sniffers PROVE SniffOK(s)'
  BY DEF SniffInv
<1>0. SniffOK(s) /\ s \in Procs
  BY DEF SniffInv
<1>1. ASSUME NEW F, Bystander(s, F) PROVE SniffOK(s)'
  BY <1>0, <1>1, Zenon DEF Bystander, SniffOK, Printed
<1>2. ASSUME NEW p \in Procs, EchoStep(p), UNCHANGED monitorVars PROVE SniffOK(s)'
  <2>1. CASE p = s
    <3>1. pc'[s] \notin {"off", "sniff"} /\ count' = count
      BY <1>0, <1>2, <2>1, EchoMoves DEF monitorVars
    <3> QED BY <1>0, <3>1, Zenon DEF SniffOK, Printed
  <2>2. CASE p # s
    BY <1>0, <1>1, <1>2, <2>2, EchoBystanders
  <2> QED BY <2>1, <2>2
<1>3. ASSUME NEW p \in Procs, MonitorStep(p), UNCHANGED echoVars PROVE SniffOK(s)'
  <2>1. CASE p = s
    BY <1>0, <1>3, <2>1, SniffOwn
  <2>2. CASE p # s
    BY <1>0, <1>1, <1>3, <2>2, MonitorBystanders
  <2> QED BY <2>1, <2>2
<1>4. ASSUME NEW h \in Hosts, StrayArrives(h), UNCHANGED <<echoVars, monitorVars>> PROVE SniffOK(s)'
  BY <1>0, <1>1, <1>4, StrayBystanders
<1>5. CASE UNCHANGED vars
  BY <1>0, <1>5, Zenon DEF vars, tapVars, monitorVars, SniffOK, Printed
<1> QED BY <1>2, <1>3, <1>4, <1>5, Zenon DEF Next

LEMMA SniffInvariant == Spec => []SniffInv
<1>1. Init => SniffInv
  BY DEF Init, MonitorInit, SniffInv, SniffOK, Printed, Counters
<1>2. TypeInv /\ SniffInv /\ [Next]_vars => SniffInv'
  BY SniffStep, TypeInvParts
<1> QED BY <1>1, <1>2, TypeInvariant, PTL DEF Spec

\* sniffer.c writes to the FILE * that fopen() gave it, NULL or not, so without
\* log.txt it has printed nothing as long as it runs (LoglessStops).
THEOREM LoglessSniffersStop == Spec => []LoglessStops
<1>1. TypeInv /\ SniffInv => LoglessStops
  <2> SUFFICES ASSUME TypeInv, SniffInv, NEW s \in Sniffers, pc[s] = "sniff", ~logfile[s]
               PROVE  count[s]["icmp"] = 0 /\ count[s]["tcp"] = 0 /\ count[s]["udp"] = 0
    BY DEF LoglessStops
  <2>1. count[s]["icmp"] \in Nat /\ count[s]["tcp"] \in Nat /\ count[s]["udp"] \in Nat
    BY CountTypes, TypeInvParts DEF TypeParts
  <2>2. count[s]["icmp"] + count[s]["tcp"] + count[s]["udp"] = 0
    BY DEF SniffInv, SniffOK, Printed
  <2> QED BY <2>1, <2>2
<1> QED BY <1>1, TypeInvariant, SniffInvariant, PTL

\* What a step leaves of the queue of the process that takes it.
LEMMA OwnQueue ==
  ASSUME TypeParts, NEW p \in Procs, EchoStep(p) \/ MonitorStep(p)
  PROVE  q'[p] \in {q[p], <<>>} \/ (q[p] # <<>> /\ q'[p] = Tail(q[p]))
<1>0. QueuesOK
  BY DEF TypeParts
<1>1. Take(p) => q[p] # <<>> /\ q'[p] = Tail(q[p])
  BY <1>0, TakeTakes DEF Taken
<1>2. Exit(p) => q'[p] = <<>>
  BY <1>0, ExitCloses DEF Closed
<1>3. \A f \in Frame : SendEthernetFrame(p, f) => q'[p] = q[p]
  BY <1>0, SendArrives, Zenon DEF Arrived
<1>4. CASE EchoStep(p)
  <2>1. ServerSend(p) => q'[p] = q[p]
    BY <1>3, AnswerType, Zenon DEF ServerSend, Answer
  <2>2. ClientSend(p) => q'[p] \in {q[p], <<>>}
    BY <1>2, <1>3, AskType, Zenon DEF ClientSend
  <2> QED BY <1>1, <1>2, <1>4, <2>1, <2>2, Zenon DEF EchoStep, ServerRecv, ClientOpen, ClientRecv, Fails
<1>5. CASE MonitorStep(p)
  BY <1>1, <1>2, <1>5, Zenon DEF MonitorStep, MonitorOpen, AttachFilter, Listen, SnifferOpen, Sniff
<1> QED BY <1>4, <1>5

\* A queue whose frames are all in G keeps only frames of G.
Holds(s, G) == \A i \in 1..Len(q[s]) : q[s][i] \in G

LEMMA OwnHolds ==
  ASSUME TypeParts, NEW p \in Procs, EchoStep(p) \/ MonitorStep(p), NEW G, Holds(p, G)
  PROVE  Holds(p, G)'
<1>0. q[p] \in Seq(Frame)
  BY DEF TypeParts, QueuesOK
<1>1. CASE q'[p] = q[p]
  BY <1>1, Zenon DEF Holds
<1>2. CASE q'[p] = <<>>
  BY <1>2 DEF Holds
<1>3. CASE q[p] # <<>> /\ q'[p] = Tail(q[p])
  <2> SUFFICES ASSUME NEW i \in 1..Len(q'[p]) PROVE q'[p][i] \in G
    BY Zenon DEF Holds
  <2>1. q'[p][i] = q[p][i + 1] /\ Len(q'[p]) = Len(q[p]) - 1 /\ Len(q[p]) \in Nat
    BY <1>0, <1>3, TailFacts
  <2>2. i + 1 \in 1..Len(q[p])
    BY <2>1
  <2> QED BY <2>1, <2>2 DEF Holds
<1> QED BY <1>1, <1>2, <1>3, OwnQueue

LEMMA BystanderHolds ==
  ASSUME TypeParts, NEW s \in Procs, NEW F, F \subseteq Frame, Bystander(s, F),
         NEW G, Holds(s, G), F \subseteq G
  PROVE  Holds(s, G)'
<1>0. q[s] \in Seq(Frame)
  BY DEF TypeParts, QueuesOK
<1>1. CASE q'[s] = q[s]
  BY <1>1, Zenon DEF Holds
<1>2. ASSUME NEW f \in F, q'[s] = Append(q[s], f) PROVE Holds(s, G)'
  <2> SUFFICES ASSUME NEW i \in 1..Len(q'[s]) PROVE q'[s][i] \in G
    BY Zenon DEF Holds
  <2>1. q'[s][i] = IF i <= Len(q[s]) THEN q[s][i] ELSE f
    BY <1>0, <1>2, AppendFacts
  <2>2. Len(q[s]) \in Nat /\ (i <= Len(q[s]) => i \in 1..Len(q[s]))
    BY <1>0
  <2> QED BY <2>1, <2>2 DEF Holds
<1> QED BY <1>1, <1>2, Zenon DEF Bystander

\* A head of such a queue.
LEMMA HoldsReceived ==
  ASSUME TypeParts, NEW p \in Procs, NEW G, Holds(p, G), q[p] # <<>>
  PROVE  Received(p) \in G
<1>1. q[p] \in Seq(Frame)
  BY DEF TypeParts, QueuesOK
<1>2. Received(p) = q[p][1] /\ 1 \in 1..Len(q[p])
  BY <1>1, TailFacts DEF Received
<1> QED BY <1>2 DEF Holds

-----------------------------------------------------------------------------
(* The counters of sniffer.c on a link of plain traffic. *)

\* Frames that ProcessPacket files under "others" if and only if they are ARP
\* packets.  Frames of eth_echo are such.
Plain == {f \in Frame : f.type = "ARP" <=> Class(f) = "others"}

PlainInv ==
  /\ \A s \in Procs : Holds(s, Plain)
  /\ \A s \in Sniffers : count[s]["others"] = arpSeen[s]

LEMMA SendsPlain == \A p : Sends(p) \subseteq Plain
<1>1. \A to, payload : \A byte \in {0, 171, 222} :
        /\ EchoFrame(to, payload, byte).type = "ARP"
        /\ EchoFrame(to, payload, byte).protocol = byte
  BY DEF EchoFrame
<1>2. \A to, payload : \A byte \in {0, 171, 222} : Class(EchoFrame(to, payload, byte)) = "others"
  BY <1>1 DEF Class
<1> QED BY <1>1, <1>2 DEF Sends, Plain, Answer, Ask

LEMMA PlainStep ==
  ASSUME Stray \subseteq Plain
  PROVE  TypeParts /\ PlainInv /\ [Next]_vars => PlainInv'
<1> SUFFICES ASSUME TypeParts, PlainInv, [Next]_vars PROVE PlainInv'
  OBVIOUS
<1>0. /\ \A p : Sends(p) \subseteq Frame /\ Sends(p) \subseteq Plain
      /\ MonitorTypeOK /\ \A s \in Procs : Holds(s, Plain)
  BY SendsPlain DEF Sends, TypeParts, PlainInv
<1>1. ASSUME NEW s \in Procs, NEW F \in SUBSET Frame, F \subseteq Plain, Bystander(s, F)
      PROVE  /\ Holds(s, Plain)'
             /\ s \in Sniffers => count'[s]["others"] = arpSeen'[s]
  <2>1. Holds(s, Plain)'
    BY <1>0, <1>1, BystanderHolds
  <2>2. s \in Sniffers => count'[s]["others"] = arpSeen'[s]
    BY <1>1, Zenon DEF Bystander, PlainInv
  <2> QED BY <2>1, <2>2
<1>2. ASSUME NEW p \in Procs, EchoStep(p) \/ MonitorStep(p) PROVE Holds(p, Plain)'
  BY <1>0, <1>2, OwnHolds
<1>3. ASSUME NEW p \in Procs, EchoStep(p), UNCHANGED monitorVars PROVE PlainInv'
  <2>1. \A s \in Procs \ {p} : Bystander(s, Sends(p))
    BY <1>3, EchoBystanders, Zenon
  <2>2. \A s \in Procs : Holds(s, Plain)'
    BY <1>0, <1>1, <1>2, <1>3, <2>1
  <2>3. \A s \in Sniffers : count'[s]["others"] = arpSeen'[s]
    BY <1>3, Zenon DEF monitorVars, PlainInv
  <2> QED BY <2>2, <2>3 DEF PlainInv
<1>4. ASSUME NEW p \in Procs, MonitorStep(p), UNCHANGED echoVars PROVE PlainInv'
  <2>1. \A s \in Procs \ {p} : Bystander(s, Sends(p))
    BY <1>4, MonitorBystanders, Zenon
  <2>2. \A s \in Procs : Holds(s, Plain)'
    BY <1>0, <1>1, <1>2, <1>4, <2>1, Zenon
  <2>3. \A s \in Sniffers \ {p} : count'[s]["others"] = arpSeen'[s]
    BY <1>0, <1>1, <2>1, Zenon
  <2>4. ASSUME p \in Sniffers PROVE count'[p]["others"] = arpSeen'[p]
    <3>1. CASE UNCHANGED <<count, arpSeen>>
      BY <2>4, <3>1, Zenon DEF PlainInv
    <3>2. CASE q[p] # <<>> /\ ProcessPacket(p, Received(p))
      <4>1. Received(p) \in Plain
        BY <1>0, <3>2, HoldsReceived, Zenon
      <4>2. /\ count'[p]["others"] = IF Class(Received(p)) = "others" THEN count[p]["others"] + 1
                                                                      ELSE count[p]["others"]
            /\ arpSeen'[p] = IF Received(p).type = "ARP" THEN arpSeen[p] + 1 ELSE arpSeen[p]
        BY <1>0, <2>4, <3>2, ProcessPacketCounts DEF Counters
      <4> QED BY <2>4, <4>1, <4>2 DEF Plain, PlainInv
    <3> QED BY <1>4, <3>1, <3>2, Zenon DEF MonitorStep, MonitorOpen, AttachFilter, Listen, SnifferOpen, Sniff, monitorVars
  <2> QED BY <2>2, <2>3, <2>4 DEF PlainInv
<1>5. ASSUME NEW h \in Hosts, StrayArrives(h), UNCHANGED <<echoVars, monitorVars>> PROVE PlainInv'
  <2>1. \A s \in Procs : Bystander(s, Stray)
    BY <1>5, StrayBystanders
  <2> QED BY <1>1, <2>1 DEF PlainInv
<1>6. CASE UNCHANGED vars
  BY <1>6, Zenon DEF vars, tapVars, monitorVars, PlainInv, Holds
<1> QED BY <1>3, <1>4, <1>5, <1>6, Zenon DEF Next

\* The counters of sniffer.c add up, whatever is on the link; and where ARP
\* packets have no protocol number at the place of an IP header's and IP packets
\* all have one that the switch names, "others" counts the ARP packets, those of
\* eth_echo among them (CountsAddUp).
THEOREM SnifferCountsAddUp ==
  ASSUME Stray \subseteq Plain
  PROVE  Spec => []CountsAddUp
<1>1. Init => PlainInv
  BY DEF Init, MonitorInit, PlainInv, Holds, Counters
<1>2. TypeInv /\ PlainInv /\ [Next]_vars => PlainInv'
  BY PlainStep, TypeInvParts
<1>3. TypeInv /\ SniffInv /\ PlainInv => CountsAddUp
  <2> SUFFICES ASSUME TypeInv, SniffInv, PlainInv, NEW s \in Sniffers
               PROVE  /\ count[s]["others"] = arpSeen[s]
                      /\ count[s]["total"] = count[s]["tcp"] + count[s]["udp"] + count[s]["icmp"]
                                              + count[s]["igmp"] + count[s]["others"]
    BY DEF CountsAddUp
  <2>1. /\ count[s]["icmp"] \in Nat /\ count[s]["tcp"] \in Nat /\ count[s]["udp"] \in Nat
        /\ count[s]["igmp"] \in Nat /\ count[s]["others"] \in Nat
    BY CountTypes, TypeInvParts DEF TypeParts
  <2>2. count[s]["total"] = count[s]["icmp"] + count[s]["tcp"] + count[s]["udp"]
                              + count[s]["igmp"] + count[s]["others"]
    BY DEF SniffInv, SniffOK, Printed
  <2> QED BY <2>1, <2>2 DEF PlainInv
<1> QED BY <1>1, <1>2, <1>3, TypeInvariant, SniffInvariant, PTL DEF Spec

-----------------------------------------------------------------------------
(* eth_echo on a quiet link. *)

\* A client other than c has sent its request.
Asked(c) == \E d \in Clients \ {c} : pc[d] \in {"await", "done"}

\* The frames that may wait for process s.
Expected(s) == {f \in Frame : f.fcs /\ f.payload \in {"echo", "ask"} /\ (f.payload = "ask" => Asked(s))}

QuietInv ==
  noise = 0 =>
    /\ \A s \in Servers : pc[s] = "send" => filled[s]
    /\ \A s \in Procs : Holds(s, Expected(s))
    /\ \A c \in Clients : answer[c] \in {"none", "echo", "ask"} /\ (answer[c] = "ask" => Asked(c))

\* A client that has sent its request has sent it for good.
LEMMA AskedStays == TypeParts /\ [Next]_vars => \A c : Asked(c) => Asked(c)'
<1> SUFFICES ASSUME TypeParts, [Next]_vars, NEW d \in Clients, pc[d] \in {"await", "done"}
             PROVE  pc'[d] \in {"await", "done"}
  BY Zenon DEF Asked
<1>0. d \in Procs /\ pc \in [Procs -> Labels]
  BY DEF TypeParts
<1>1. ASSUME NEW p \in Procs, EchoStep(p), UNCHANGED monitorVars PROVE pc'[d] \in {"await", "done"}
  <2>1. CASE p = d
    <3>1. \A l : Goto(d, l) => pc'[d] = l
      BY <1>0 DEF Goto
    <3> QED BY <1>1, <2>1, <3>1, Zenon DEF EchoStep, ServerRecv, ServerSend, ClientOpen, ClientSend, ClientRecv, Exit
  <2>2. CASE p # d
    BY <1>0, <1>1, <2>2, EchoBystanders DEF Bystander
  <2> QED BY <2>1, <2>2, Zenon
<1>2. ASSUME NEW p \in Procs, MonitorStep(p), UNCHANGED echoVars PROVE pc'[d] \in {"await", "done"}
  <2>1. CASE p = d
    BY <1>2, <2>1, Zenon DEF MonitorStep, MonitorOpen, AttachFilter, Listen, SnifferOpen, Sniff
  <2>2. CASE p # d
    BY <1>0, <1>2, <2>2, MonitorBystanders, Zenon DEF Bystander
  <2> QED BY <2>1, <2>2
<1>3. ASSUME NEW h \in Hosts, StrayArrives(h) PROVE pc'[d] \in {"await", "done"}
  BY <1>3 DEF StrayArrives
<1>4. CASE UNCHANGED vars
  BY <1>4 DEF vars, tapVars
<1> QED BY <1>1, <1>2, <1>3, <1>4, Zenon DEF Next

\* Frames that were expected still are.
LEMMA ExpectedStays ==
  ASSUME TypeParts, [Next]_vars, NEW s
  PROVE  Expected(s) \subseteq Expected(s)'
BY AskedStays, Zenon DEF Expected

LEMMA HoldsMore ==
  ASSUME NEW s, NEW G, NEW H, G \subseteq H, Holds(s, G)'
  PROVE  \A i \in 1..Len(q'[s]) : q'[s][i] \in H
BY Zenon DEF Holds

LEMMA NoiseCounts == noise \in Nat /\ Noise => noise' # 0
BY DEF Noise

\* What a process sends while all is quiet is expected.
LEMMA SendsExpected ==
  ASSUME TypeParts, QuietInv, noise = 0, NEW p \in Procs, EchoStep(p), Quiet,
         NEW s \in Procs \ {p}
  PROVE  Sends(p) \subseteq Expected(s)'
<1> SUFFICES ASSUME NEW f \in Sends(p) PROVE f \in Expected(s)'
  OBVIOUS
<1>1. CASE pc[p] = "send" /\ f = Answer(p)
  <2>1. p \in Servers /\ filled[p]
    BY <1>1 DEF TypeParts, Control, QuietInv
  <2>2. f \in Frame /\ f.fcs /\ f.payload = "echo"
    BY <1>1, <2>1 DEF Answer, EchoFrame, Sends
  <2> QED BY <2>2 DEF Expected
<1>2. CASE pc[p] = "ask" /\ f = Ask
  <2>1. p \in Clients /\ pc \in [Procs -> Labels] /\ noise \in Nat
    BY <1>2 DEF TypeParts, Control
  <2>2. f \in Frame /\ f.fcs /\ f.payload = "ask"
    BY <1>2 DEF Ask, EchoFrame, Sends
  <2>3. pc'[p] = "await"
    <3>1. ~Noise
      BY <2>1, NoiseCounts DEF Quiet
    <3>2. ClientSend(p)
      BY <1>2, Zenon DEF EchoStep, ServerRecv, ServerSend, ClientOpen, ClientRecv
    <3>3. Goto(p, "await")
      BY <3>1, <3>2, Zenon DEF ClientSend
    <3> QED BY <2>1, <3>3 DEF Goto
  <2>4. Asked(s)'
    BY <2>1, <2>3 DEF Asked
  <2> QED BY <2>2, <2>4 DEF Expected
<1> QED BY <1>1, <1>2 DEF Sends

LEMMA QuietOrNoise ==
  ASSUME TypeParts, NEW p \in Procs, EchoStep(p) \/ MonitorStep(p)
  PROVE  Quiet \/ Noise
<1>1. \A f : SendEthernetFrame(p, f) => Quiet \/ Noise
  BY Zenon DEF SendEthernetFrame, Transmit, Fails
<1>2. CASE EchoStep(p)
  BY <1>1, <1>2, Zenon DEF EchoStep, ServerRecv, ServerSend, ClientOpen, ClientSend, ClientRecv, Take, Fails
<1>3. CASE MonitorStep(p)
  BY <1>3, Zenon DEF MonitorStep, MonitorOpen, AttachFilter, Listen, SnifferOpen, Sniff, Take
<1> QED BY <1>2, <1>3

\* The step of p itself, and what it means for p.
LEMMA QuietOwn ==
  ASSUME TypeParts, QuietInv, noise = 0, Quiet, NEW p \in Procs, EchoStep(p)
  PROVE  /\ p \in Servers /\ pc'[p] = "send" => filled'[p]
         /\ p \in Clients => \/ answer'[p] = answer[p]
                             \/ /\ answer'[p] \in {"echo", "ask"}
                                /\ answer'[p] = "ask" => Asked(p)
<1>0. /\ ~Noise /\ pc \in [Procs -> Labels] /\ EchoTypeOK
  BY NoiseCounts DEF Quiet, TypeParts
<1>1. \A l : Goto(p, l) => pc'[p] = l
  BY <1>0 DEF Goto
<1>2. q[p] # <<>> => Received(p) \in Expected(p)
  BY HoldsReceived, Zenon DEF QuietInv
<1>3. CASE ServerRecv(p)
  <2>1. p \in Servers /\ q[p] # <<>> /\ answer' = answer /\ filled' = [filled EXCEPT ![p] = @ \/ Received(p).fcs]
    BY <1>0, <1>3, Zenon DEF ServerRecv, Fails, Take, TypeParts, Control
  <2>2. Received(p).fcs
    BY <1>2, <2>1 DEF Expected
  <2>3. filled'[p]
    BY <1>0, <2>1, <2>2, Zenon DEF EchoTypeOK
  <2> QED BY <2>1, <2>3
<1>4. CASE ClientRecv(p)
  <2>1. /\ p \in Clients /\ q[p] # <<>> /\ pc'[p] = "done"
        /\ answer' = [answer EXCEPT ![p] = IF Received(p).fcs THEN Received(p).payload ELSE "error"]
    BY <1>0, <1>1, <1>4 DEF ClientRecv, Exit, TypeParts, Control
  <2>2. /\ Received(p).fcs /\ Received(p).payload \in {"echo", "ask"}
        /\ Received(p).payload = "ask" => Asked(p)
    BY <1>2, <2>1, Zenon DEF Expected
  <2>3. answer'[p] = Received(p).payload
    BY <1>0, <2>1, <2>2 DEF EchoTypeOK
  <2> QED BY <2>1, <2>2, <2>3, Zenon
<1>5. CASE ServerSend(p) \/ ClientOpen(p) \/ ClientSend(p)
  <2>1. answer' = answer /\ pc'[p] # "send"
    BY <1>1, <1>5 DEF ServerSend, ClientOpen, ClientSend, echoVars, Exit
  <2> QED BY <2>1, Zenon
<1> QED BY <1>3, <1>4, <1>5 DEF EchoStep

LEMMA QuietStep == TypeParts /\ QuietInv /\ [Next]_vars => QuietInv'
<1> SUFFICES ASSUME TypeParts, QuietInv, [Next]_vars, noise' = 0 PROVE QuietInv'
  BY DEF QuietInv
<1>0. noise \in Nat /\ (Noise => FALSE) /\ (Quiet => noise = 0)
  BY NoiseCounts DEF TypeParts, Quiet
<1>1. /\ \A s : Expected(s) \subseteq Expected(s)'
      /\ \A c : Asked(c) => Asked(c)'
  BY AskedStays, ExpectedStays
<1>2. ASSUME NEW s \in Procs, noise = 0, Bystander(s, {})
      PROVE  /\ Holds(s, Expected(s))'
             /\ s \in Servers /\ pc'[s] = "send" => filled'[s]
             /\ s \in Clients => answer'[s] \in {"none", "echo", "ask"} /\ (answer'[s] = "ask" => Asked(s)')
  <2>1. Holds(s, Expected(s))'
    BY <1>1, <1>2, Zenon DEF Bystander, Holds, QuietInv
  <2>2. s \in Servers /\ pc'[s] = "send" => filled'[s]
    BY <1>2, Zenon DEF Bystander, QuietInv
  <2>3. s \in Clients => answer'[s] \in {"none", "echo", "ask"} /\ (answer'[s] = "ask" => Asked(s)')
    BY <1>1, <1>2, Zenon DEF Bystander, QuietInv
  <2> QED BY <2>1, <2>2, <2>3, Zenon
<1>3. ASSUME NEW p \in Procs, EchoStep(p), UNCHANGED monitorVars PROVE QuietInv'
  <2>1. Quiet /\ noise = 0
    BY <1>0, <1>3, QuietOrNoise
  <2>2. ASSUME NEW s \in Procs \ {p} PROVE Bystander(s, Sends(p)) /\ Sends(p) \subseteq Expected(s)'
    BY <1>3, <2>1, <2>2, EchoBystanders, SendsExpected
  <2>3. ASSUME NEW s \in Procs PROVE Holds(s, Expected(s))'
    <3>0. Holds(s, Expected(s)) /\ Expected(s) \subseteq Expected(s)'
      BY <1>1, <2>1 DEF QuietInv
    <3> DEFINE G == Expected(s)'
    <3>1. Holds(s, G)
      BY <3>0, Zenon DEF Holds
    <3>2. CASE s = p
      <4> HIDE DEF G
      <4>1. \A i \in 1..Len(q'[s]) : q'[s][i] \in G
        BY <1>3, <3>1, <3>2, OwnHolds DEF Holds
      <4> QED BY <4>1, Zenon DEF G, Holds
    <3>3. CASE s # p
      <4>1. Bystander(s, Sends(p)) /\ Sends(p) \subseteq G /\ Sends(p) \subseteq Frame
        BY <2>2, <3>3 DEF Sends
      <4> HIDE DEF G
      <4>2. \A i \in 1..Len(q'[s]) : q'[s][i] \in G
        BY <3>1, <4>1, BystanderHolds DEF Holds
      <4> QED BY <4>2, Zenon DEF G, Holds
    <3> QED BY <3>2, <3>3
  <2>4. ASSUME NEW s \in Servers, pc'[s] = "send" PROVE filled'[s]
    <3>1. CASE s = p
      BY <1>3, <2>1, <2>4, <3>1, QuietOwn
    <3>2. CASE s # p
      BY <2>1, <2>2, <2>4, <3>2, Zenon DEF Bystander, QuietInv
    <3> QED BY <3>1, <3>2
  <2>5. ASSUME NEW c \in Clients
        PROVE  answer'[c] \in {"none", "echo", "ask"} /\ (answer'[c] = "ask" => Asked(c)')
    <3>1. answer'[c] = answer[c] \/ (answer'[c] \in {"echo", "ask"} /\ (answer'[c] = "ask" => Asked(c)))
      <4>1. CASE c = p
        BY <1>3, <2>1, <4>1, QuietOwn
      <4>2. CASE c # p
        BY <2>2, <4>2, Zenon DEF Bystander
      <4> QED BY <4>1, <4>2
    <3> QED BY <1>1, <2>1, <3>1 DEF QuietInv
  <2> QED BY <2>3, <2>4, <2>5, Zenon DEF QuietInv
<1>4. ASSUME NEW p \in Procs, MonitorStep(p), UNCHANGED echoVars PROVE QuietInv'
  <2>1. Quiet /\ noise = 0
    BY <1>0, <1>4, QuietOrNoise, Zenon
  <2>2. Sends(p) = {} /\ pc'[p] # "send"
    <3>1. \A l : Goto(p, l) => pc'[p] = l
      BY DEF Goto, TypeParts
    <3> QED BY <1>4, <3>1 DEF MonitorStep, MonitorOpen, AttachFilter, Listen, SnifferOpen, Sniff, Exit, Sends
  <2>3. \A s \in Procs \ {p} : Bystander(s, {})
    BY <1>4, <2>2, MonitorBystanders
  <2>4. Holds(p, Expected(p))'
    <3>0. Holds(p, Expected(p)) /\ Expected(p) \subseteq Expected(p)'
      BY <1>1, <2>1 DEF QuietInv
    <3> DEFINE G == Expected(p)'
    <3>1. Holds(p, G)
      BY <3>0, Zenon DEF Holds
    <3> HIDE DEF G
    <3>2. \A i \in 1..Len(q'[p]) : q'[p][i] \in G
      BY <1>4, <3>1, OwnHolds DEF Holds
    <3> QED BY <3>2, Zenon DEF G, Holds
  <2>5. \A c \in Clients : answer'[c] \in {"none", "echo", "ask"} /\ (answer'[c] = "ask" => Asked(c)')
    BY <1>1, <1>4, <2>1, Zenon DEF echoVars, QuietInv
  <2>6. \A s \in Servers : pc'[s] = "send" => filled'[s]
    BY <1>2, <2>1, <2>2, <2>3
  <2>7. \A s \in Procs : Holds(s, Expected(s))'
    BY <1>2, <2>1, <2>3, <2>4
  <2> QED BY <2>5, <2>6, <2>7, Zenon DEF QuietInv
<1>5. ASSUME NEW h \in Hosts, StrayArrives(h) PROVE QuietInv'
  BY <1>0, <1>5 DEF StrayArrives
<1>6. CASE UNCHANGED vars
  BY <1>6, Zenon DEF vars, tapVars, echoVars, QuietInv, Holds, Expected, Asked
<1> QED BY <1>3, <1>4, <1>5, <1>6, Zenon DEF Next

\* While nothing is lost and no other stack sends, a client of eth_echo returns
\* an echo with content or the request of another client: it never receives its
\* own broadcast, and the server never sends before it has received (QuietAnswers).
THEOREM AnswersWhileQuiet == Spec => []QuietAnswers
<1>1. Init => QuietInv
  BY DEF Init, EchoInit, QuietInv, Holds
<1>2. TypeInv /\ QuietInv /\ [Next]_vars => QuietInv'
  BY QuietStep, TypeInvParts
<1>3. QuietInv => QuietAnswers
  BY Zenon DEF QuietInv, QuietAnswers, Asked
<1> QED BY <1>1, <1>2, <1>3, TypeInvariant, PTL DEF Spec
=============================================================================
