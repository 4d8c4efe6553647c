------------------------------- MODULE Tools --------------------------------
(* The echo program and the monitors together on one link. *)
EXTENDS EthEcho, Monitors

vars == <<tapVars, echoVars, monitorVars>>

Init ==
  /\ pc = [p \in Procs |-> IF p \in Servers THEN "recv" ELSE "off"]
  /\ q = [p \in Procs |-> <<>>] /\ filter = [p \in Procs |-> FALSE] /\ noise = 0
  /\ EchoInit /\ MonitorInit

Next ==
  \/ \E p \in Procs : \/ EchoStep(p) /\ UNCHANGED monitorVars
                      \/ MonitorStep(p) /\ UNCHANGED echoVars
  \/ \E h \in Hosts : StrayArrives(h) /\ UNCHANGED <<echoVars, monitorVars>>

Spec == Init /\ [][Next]_vars

\* The kernel runs a process that can run.  Nobody has to start one, and no
\* call has to fail.
Fairness ==
  \A p \in Servers \cup Clients :
    WF_vars(/\ Quiet /\ UNCHANGED monitorVars
            /\ ServerRecv(p) \/ ServerSend(p) \/ ClientSend(p) \/ ClientRecv(p))

FairSpec == Spec /\ Fairness

\* Every variable has its type, and a socket without a process is closed.
TypeOK ==
  /\ pc \in [Procs -> {"off", "recv", "send", "ask", "await", "attach", "listen", "sniff", "done"}]
  /\ q \in [Procs -> Seq(Frame)]
  /\ \A p \in Procs : Len(q[p]) <= IF Running(p) THEN RcvQueueMax ELSE 0
  /\ filter \in [Procs -> BOOLEAN] /\ \A p \in Procs : filter[p] <=> pc[p] = "listen"
  /\ noise \in 0..NoiseMax
  /\ EchoTypeOK /\ MonitorTypeOK

=============================================================================
