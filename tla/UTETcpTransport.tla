-------------------------- MODULE UTETcpTransport --------------------------
(***************************************************************************)
(* The sending half of UTETcpTransport (src/UTE/UTETcpTransport.h): two    *)
(* stream buffers and one asynchronous write.                              *)
(*                                                                         *)
(* write() may be called by the host's pushing thread (interleaved media)  *)
(* and by the service thread (RTSP responses); both hold m_lock.  The      *)
(* completion of asio::async_write runs on the service thread in two parts *)
(* that m_lock does not cover together: asio first consumes the sent bytes *)
(* from the buffer WITHOUT the lock, then calls on_write, which takes it.  *)
(* A write() may slip in between, and the model lets it.                   *)
(*                                                                         *)
(* A critical section of m_lock takes no other lock and is one step.  The  *)
(* unlocked consume() touches only the active buffer, of which write()     *)
(* makes a single read, so it is ordered before or after the whole write().*)
(***************************************************************************)
EXTENDS Naturals, Sequences

CONSTANTS
    Payload,      \* what a caller may send: responses and interleaved frames
    MsgUnits,     \* the units a message is made of; a unit is what a partial send may split off
    MaxWrites     \* bound on the calls of write()

ASSUME TransportAssumption ==
    /\ MsgUnits \in Nat \ {0}
    /\ MaxWrites \in Nat

Writer  == {"host", "service"}
Buffer  == {"A", "B"}
Unit    == Payload \X (1..MsgUnits)
Units(p) == [i \in 1..MsgUnits |-> <<p, i>>]   \* sputn(data, size)

VARIABLES
    buf,        \* [Buffer -> Seq(Unit)]: the contents of the two streambufs
    active,     \* the buffer m_active_request points to; m_pending_request is the other
    ops,        \* the asio::async_write operations in progress
    completion, \* the completion handler between consume() and on_write: "none", "ok", "error"
    writes,     \* how often write() was called
    failed,     \* history: an operation has ended with an error
    accepted,   \* history: every unit write() took, in order
    wire        \* history: every unit handed to the socket, in order

vars == <<buf, active, ops, completion, writes, failed, accepted, wire>>

Other(b) == IF b = "A" THEN "B" ELSE "A"
pending  == Other(active)

Op == [buf : Buffer, n : Nat \ {0}, done : Nat]   \* n: units to send, done: units sent

TypeOK ==
    /\ buf \in [Buffer -> Seq(Unit)]
    /\ active \in Buffer
    /\ ops \in Seq(Op)
    /\ completion \in {"none", "ok", "error"}
    /\ writes \in 0..MaxWrites
    /\ failed \in BOOLEAN
    /\ accepted \in Seq(Unit)
    /\ wire \in Seq(Unit)

Init ==
    /\ buf = [b \in Buffer |-> <<>>]
    /\ active = "A"
    /\ ops = <<>>
    /\ completion = "none"
    /\ writes = 0
    /\ failed = FALSE
    /\ accepted = <<>>
    /\ wire = <<>>

\* std::swap and asio::async_write(*m_active_request): the operation covers the
\* units the buffer b holds at this moment.
StartWrite(b, contents) ==
    /\ active' = b
    /\ ops' = Append(ops, [buf |-> b, n |-> Len(contents), done |-> 0])

\* Mutant of Write: the test that the active buffer is empty is gone.
WriteAlwaysStarts(t, p) ==
    LET filled == buf[pending] \o Units(p)
    IN  /\ t = "service" => completion = "none"
        /\ writes < MaxWrites
        /\ writes' = writes + 1
        /\ accepted' = accepted \o Units(p)
        /\ buf' = [buf EXCEPT ![pending] = filled]
        /\ StartWrite(pending, filled)
        /\ UNCHANGED <<completion, failed, wire>>

\* write(): append to the pending buffer; if the active one is empty no write is
\* running, so swap and start one.
Write(t, p) ==
    LET filled == buf[pending] \o Units(p)
    IN  /\ t = "service" => completion = "none"   \* the service thread is not inside a completion
        /\ writes < MaxWrites
        /\ writes' = writes + 1
        /\ accepted' = accepted \o Units(p)
        /\ buf' = [buf EXCEPT ![pending] = filled]
        /\ IF buf[active] = <<>>
           THEN StartWrite(pending, filled)
           ELSE UNCHANGED <<active, ops>>
        /\ UNCHANGED <<completion, failed, wire>>

\* The socket takes one more unit of the operation in progress.
Transfer ==
    /\ ops # <<>>
    /\ LET op == Head(ops)
       IN  /\ op.done < op.n
           /\ wire' = Append(wire, buf[op.buf][op.done + 1])
           /\ ops' = <<[op EXCEPT !.done = @ + 1]>> \o Tail(ops)
    /\ UNCHANGED <<buf, active, completion, writes, failed, accepted>>

\* Mutant of Consume: the whole buffer is dropped, not the bytes transferred.
ConsumeWhole(result) ==
    /\ ops # <<>> /\ completion = "none"
    /\ LET op == Head(ops)
       IN  /\ result = "ok" <=> op.done = op.n
           /\ buf' = [buf EXCEPT ![op.buf] = <<>>]
    /\ ops' = Tail(ops)
    /\ completion' = result
    /\ failed' = (failed \/ result = "error")
    /\ UNCHANGED <<active, writes, accepted, wire>>

\* The first half of the completion, outside m_lock: the handler asio wraps around on_write
\* calls streambuf.consume(bytes_transferred).  An error ends an operation short of its end.
Consume(result) ==
    /\ ops # <<>> /\ completion = "none"
    /\ LET op == Head(ops)
       IN  /\ result = "ok" <=> op.done = op.n
           /\ buf' = [buf EXCEPT ![op.buf] = SubSeq(@, op.done + 1, Len(@))]
    /\ ops' = Tail(ops)
    /\ completion' = result
    /\ failed' = (failed \/ result = "error")
    /\ UNCHANGED <<active, writes, accepted, wire>>

FinishOnWrite == completion # "none" /\ completion' = "none"
                 /\ UNCHANGED <<buf, writes, failed, accepted, wire>>

\* Mutants of OnWrite: nothing is sent; the size of the active buffer is not tested.
OnWriteForgets == FinishOnWrite /\ UNCHANGED <<active, ops>>

OnWriteEvenIfActive ==
    /\ FinishOnWrite
    /\ IF completion = "ok" /\ buf[pending] # <<>>
       THEN StartWrite(pending, buf[pending])
       ELSE UNCHANGED <<active, ops>>

\* The second half: on_write.  Without an error, and if write() did not swap first,
\* what has gathered in the pending buffer is sent.
OnWrite ==
    /\ FinishOnWrite
    /\ IF completion = "ok" /\ buf[active] = <<>> /\ buf[pending] # <<>>
       THEN StartWrite(pending, buf[pending])
       ELSE UNCHANGED <<active, ops>>

Next ==
    \/ \E t \in Writer, p \in Payload : Write(t, p)
    \/ Transfer
    \/ Consume("ok")
    \/ Consume("error")
    \/ OnWrite

Spec == Init /\ [][Next]_vars

\* The service thread runs what is ready and a live socket drains; callers owe nothing,
\* and no failure is owed either.
Fairness == WF_vars(Transfer) /\ WF_vars(Consume("ok")) /\ WF_vars(OnWrite)

FairSpec == Spec /\ Fairness
-----------------------------------------------------------------------------
\* At most one asio::async_write is in progress, the reason the transport has two
\* buffers at all ("use double buffer to avoid interleaving call to async_write"), and
\* it sends the active buffer, which nobody appends to meanwhile.
OneWriteInFlight ==
    /\ Len(ops) <= 1
    /\ ops # <<>> => Head(ops).buf = active /\ Head(ops).n = Len(buf[active])

\* No buffered unit is forgotten: until an operation fails, data waits only while an
\* operation, or a completion that will send what is pending, is still to come.
NoStalledData ==
    ~failed /\ ops = <<>> /\ completion = "none"
        => \A b \in Buffer : buf[b] = <<>>

\* Once an operation has failed nothing more is sent, however often write() is called: a
\* message cut short by the failure is never followed by bytes the peer would misread.
SilentAfterFailure == [][failed => UNCHANGED wire]_vars

\* Every accepted unit reaches the socket unless an operation fails.
EverythingSent == (Len(wire) < Len(accepted)) ~> (failed \/ wire = accepted)

\* The transport is a FIFO channel of whole messages: nothing is lost in the middle, sent
\* twice, reordered or interleaved, whichever threads write.
Channel == INSTANCE FifoChannel
             WITH Message <- {Units(p) : p \in Payload}, delivered <- wire
ChannelSpec == Channel!Spec
=============================================================================
