---------------------------- MODULE DatagramLink ----------------------------
(***************************************************************************)
(* What a datagram transport promises its caller: before it is connected   *)
(* packets are lost, afterwards they leave in the order they were sent,    *)
(* none twice, and none is lost unless the peer has refused one.           *)
(***************************************************************************)
EXTENDS Sequences

CONSTANT Packets

VARIABLES
    connected,
    refused,    \* the peer has refused a packet, which nobody has been told
    waiting,    \* the packets taken and not yet sent
    delivered   \* the packets sent

vars == <<connected, refused, waiting, delivered>>

Init == connected = FALSE /\ refused = FALSE /\ waiting = <<>> /\ delivered = <<>>

Connect == ~connected /\ connected' = TRUE /\ UNCHANGED <<refused, waiting, delivered>>

\* A packet is sent when none waits for its turn, and waits for its turn otherwise.
Send(p) ==
    /\ connected
    /\ \/ waiting' = Append(waiting, p) /\ UNCHANGED delivered
       \/ waiting = <<>> /\ delivered' = Append(delivered, p) /\ UNCHANGED waiting
    /\ UNCHANGED <<connected, refused>>

Leave ==
    /\ waiting # <<>> /\ waiting' = Tail(waiting)
    /\ delivered' = Append(delivered, Head(waiting))
    /\ UNCHANGED <<connected, refused>>

Refuse == delivered # <<>> /\ refused' = TRUE /\ UNCHANGED <<connected, waiting, delivered>>

\* The refusal is told to a packet, which is lost, or to whoever reads.
Tell ==
    /\ refused /\ refused' = FALSE
    /\ \/ UNCHANGED waiting
       \/ waiting # <<>> /\ waiting' = Tail(waiting)
    /\ UNCHANGED <<connected, delivered>>

Next == Connect \/ Leave \/ Refuse \/ Tell \/ \E p \in Packets : Send(p)

Spec == Init /\ [][Next]_vars
=============================================================================
