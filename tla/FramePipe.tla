------------------------------ MODULE FramePipe ------------------------------
(***************************************************************************)
(* What a tunnel between two tun/tap interfaces promises: the packets that *)
(* one end has read from its interface come out at the other end whole, in *)
(* order, and each at most once, until an end goes away.                   *)
(***************************************************************************)
EXTENDS Naturals, Sequences

CONSTANTS Ends, Peer(_), Packets

VARIABLES
  open,        \* [Ends -> BOOLEAN]: the program of this end runs
  accepted,    \* [Ends -> Seq(Packets)]: read from the interface of this end
  delivered    \* [Ends -> Seq(Packets)]: written to the interface of this end

pipeVars == <<open, accepted, delivered>>

PipeInit ==
  /\ open = [e \in Ends |-> TRUE]
  /\ accepted = [e \in Ends |-> <<>>] /\ delivered = [e \in Ends |-> <<>>]

Accept(e) ==
  /\ open[e]
  /\ \E p \in Packets : accepted' = [accepted EXCEPT ![e] = Append(@, p)]
  /\ UNCHANGED <<open, delivered>>

Deliver(e) ==
  /\ open[e] /\ Len(delivered[e]) < Len(accepted[Peer(e)])
  /\ delivered' = [delivered EXCEPT ![e] = Append(@, accepted[Peer(e)][Len(@) + 1])]
  /\ UNCHANGED <<open, accepted>>

Close(e) ==
  /\ open[e]
  /\ open' = [open EXCEPT ![e] = FALSE]
  /\ UNCHANGED <<accepted, delivered>>

PipeNext == \E e \in Ends : Accept(e) \/ Deliver(e) \/ Close(e)

PipeSpec == PipeInit /\ [][PipeNext]_pipeVars

=============================================================================
