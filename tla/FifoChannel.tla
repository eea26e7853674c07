---------------------------- MODULE FifoChannel ----------------------------
(***************************************************************************)
(* What a stream transport promises to its callers: the units of every     *)
(* accepted message leave in the order of acceptance, each message in one  *)
(* piece, none lost in the middle, none twice.  UTETcpTransport is the     *)
(* detailed specification that implements it (IUTETransport::send).        *)
(***************************************************************************)
EXTENDS Naturals, Sequences

CONSTANT Message       \* the messages a caller may send, each a sequence of units

VARIABLES accepted,    \* every unit accepted so far, in the order of the calls
          delivered    \* every unit handed to the socket so far

vars == <<accepted, delivered>>

Init == accepted = <<>> /\ delivered = <<>>

\* A caller's message is accepted whole: no other message gets between its units.
Send(m) ==
    /\ accepted' = accepted \o m
    /\ UNCHANGED delivered

\* The next unit, and no other, is handed to the socket.
Deliver ==
    /\ Len(delivered) < Len(accepted)
    /\ delivered' = Append(delivered, accepted[Len(delivered) + 1])
    /\ UNCHANGED accepted

Next == (\E m \in Message : Send(m)) \/ Deliver

Spec == Init /\ [][Next]_vars
=============================================================================
