-------------------------- MODULE UTEUdpTransport --------------------------
(***************************************************************************)
(* RTP over UDP: the port of a SETUP (RTSPCore::get_rtp_port), the socket  *)
(* that is bound to it (UTEUdpTransport::open), the resolver's thread, the *)
(* connect, the read that keeps the transport, and the packets the host's  *)
(* thread sends from the moment there is a netstream.  The kernel sends a  *)
(* packet at once, or asio queues it in the descriptor (epoll_reactor).    *)
(* A transport lives as long as a netstream or an operation has it.        *)
(***************************************************************************)
EXTENDS Integers, Sequences

CONSTANTS
    Streams,      \* what a SETUP over UDP can be for: a stream of a client
    PortSpan,     \* 2^16 in the program
    FirstPort,    \* 57092 in the program
    MaxSetups,    \* bound on the SETUPs over UDP
    MaxPackets,   \* bound on the packets
    None          \* no transport

ASSUME UdpAssumption ==
    /\ PortSpan \in Nat /\ PortSpan > 0 /\ PortSpan % 2 = 0
    /\ FirstPort \in 0..PortSpan - 1 /\ FirstPort % 2 = 0
    /\ MaxSetups \in Nat /\ MaxPackets \in Nat /\ None \notin Nat

\* The transport of the n-th SETUP over UDP.
Transports == 1..MaxSetups
Packets    == 1..MaxPackets
Ports      == 0..PortSpan - 1

VARIABLES
    m_portbase,
    setups,     \* how many SETUPs there were
    packets,    \* how many packets were sent
    transport,  \* [Streams -> the transport of the netstream, or None]
    asked,      \* [Transports -> the port open() was given, and the answer names]
    port,       \* [Transports -> the port the socket is bound to, 0 if none]
    socket,     \* [Transports -> "none", "closed", "open" or "connected"]
    op,         \* [Transports -> the operation of open(), on_resolve or on_connect, or "none"]
    error,      \* [Transports -> the socket's pending error (SO_ERROR)]
    full,       \* [Transports -> the socket's buffer is full]
    queue,      \* [Transports -> the packets in the descriptor's op_queue_[write_op]]
    sent,       \* history: [Transports -> the packets the kernel has sent]
    dead        \* the process has been terminated

link == <<error, full, queue, sent>>
vars == <<m_portbase, setups, packets, transport, asked, port, socket, op, link, dead>>

Init ==
    /\ m_portbase = FirstPort /\ setups = 0 /\ packets = 0
    /\ transport = [s \in Streams |-> None]
    /\ asked = [t \in Transports |-> 0] /\ port = [t \in Transports |-> 0]
    /\ socket = [t \in Transports |-> "none"] /\ op = [t \in Transports |-> "none"]
    /\ error = [t \in Transports |-> FALSE] /\ full = [t \in Transports |-> FALSE]
    /\ queue = [t \in Transports |-> <<>>] /\ sent = [t \in Transports |-> <<>>]
    /\ dead = FALSE

\* Somebody has a std::shared_ptr to it.
Alive(t) == op[t] # "none" \/ queue[t] # <<>> \/ \E s \in Streams : transport[s] = t

Bound(t) == Alive(t) /\ socket[t] \in {"open", "connected"}

\* SO_REUSEADDR: set by open() when it binds, and by on_connect.
Reuses(t) == asked[t] # 0 \/ op[t] \notin {"resolving", "resolved", "connecting"}
-----------------------------------------------------------------------------
\* Requests, executed by the service thread.

\* UTEUdpTransport::open: no bind for port 0; otherwise the port may be another program's, or
\* that of a socket that does not share it.
Open(t, p) ==
    IF p = 0
    THEN socket' = [socket EXCEPT ![t] = "closed"] /\ UNCHANGED port
    ELSE /\ \A u \in Transports : Bound(u) /\ port[u] = p => Reuses(u)
         /\ socket' = [socket EXCEPT ![t] = "open"]
         /\ port' = [port EXCEPT ![t] = p]

\* on_rtsp_setup's part for UDP: the port is taken whatever becomes of the SETUP.
Setup(s) ==
    LET t == setups + 1 IN
    /\ setups < MaxSetups /\ setups' = t
    /\ m_portbase' = (m_portbase + 2) % PortSpan
    /\ \/ /\ transport[s] = None
          /\ Open(t, m_portbase)
          /\ transport' = [transport EXCEPT ![s] = t]
          /\ asked' = [asked EXCEPT ![t] = m_portbase]
          /\ op' = [op EXCEPT ![t] = "resolving"]
       \/ UNCHANGED <<transport, asked, port, socket, op>>   \* 503
    /\ UNCHANGED <<packets, link, dead>>

\* RTSPClient::del_stream.
Teardown(s) ==
    /\ transport[s] # None
    /\ transport' = [transport EXCEPT ![s] = None]
    /\ UNCHANGED <<m_portbase, setups, packets, asked, port, socket, op, link, dead>>
-----------------------------------------------------------------------------
\* Opening, by the resolver's thread and then the service thread.

Step(t, from, to) == op[t] = from /\ op' = [op EXCEPT ![t] = to]

\* resolve_op::do_complete on the resolver's thread; it may fail.
Resolve(t) ==
    /\ Step(t, "resolving", "resolved") \/ Step(t, "resolving", "unresolved")
    /\ UNCHANGED <<m_portbase, setups, packets, transport, asked, port, socket, link, dead>>

\* Mutant of OnResolve: asio::async_connect, which closes the socket and opens another.
OnResolveReopens(t) ==
    /\ Step(t, "resolved", "connecting")
    /\ socket' = [socket EXCEPT ![t] = "connected"]
    /\ \E p \in Ports \ {0} :
        /\ \A u \in Transports : Bound(u) => port[u] # p
        /\ port' = [port EXCEPT ![t] = p]
    /\ UNCHANGED <<m_portbase, setups, packets, transport, asked, link, dead>>

\* on_resolve: async_connect opens a closed socket and connects at once, with a port of the
\* kernel's choice if it has none; on_connect is posted, whether that has succeeded or not.
\* A socket that cannot be opened stays closed, one that cannot be connected is open.
OnResolve(t) ==
    /\ Step(t, "resolved", "connecting")
    /\ \/ /\ socket' = [socket EXCEPT ![t] = "connected"]
          /\ IF port[t] # 0 THEN UNCHANGED port
             ELSE \E p \in Ports \ {0} :
                /\ \A u \in Transports : Bound(u) => port[u] # p
                /\ port' = [port EXCEPT ![t] = p]
       \/ socket' \in {socket, [socket EXCEPT ![t] = "open"]} /\ UNCHANGED port
    /\ UNCHANGED <<m_portbase, setups, packets, transport, asked, link, dead>>

\* on_resolve does not look at its error: it dereferences the end.
OnResolveError(t) ==
    /\ op[t] = "unresolved"
    /\ dead' = TRUE
    /\ UNCHANGED <<m_portbase, setups, packets, transport, asked, port, socket, op, link>>

\* on_connect, and read().
OnConnect(t) ==
    /\ socket[t] = "connected" /\ Step(t, "connecting", "reading")
    /\ UNCHANGED <<m_portbase, setups, packets, transport, asked, port, socket, link, dead>>

\* It does not look at its error either: remote_endpoint() throws, out of run().
OnConnectError(t) ==
    /\ op[t] = "connecting" /\ socket[t] # "connected"
    /\ dead' = TRUE
    /\ UNCHANGED <<m_portbase, setups, packets, transport, asked, port, socket, op, link>>

\* Mutant of ReadFails: it reads again.
ReadGoesOn(t) ==
    /\ op[t] = "reading" /\ error[t]
    /\ error' = [error EXCEPT ![t] = FALSE]
    /\ UNCHANGED <<m_portbase, setups, packets, transport, asked, port, socket, op, full, queue, sent, dead>>

\* The read ends with the socket's error, and on_read starts no other.  (After data it does.)
ReadFails(t) ==
    /\ Step(t, "reading", "none") /\ error[t]
    /\ error' = [error EXCEPT ![t] = FALSE]
    /\ UNCHANGED <<m_portbase, setups, packets, transport, asked, port, socket, full, queue, sent, dead>>

\* Nor does it after a datagram without data.
ReadsNothing(t) ==
    /\ Step(t, "reading", "none") /\ ~error[t]
    /\ UNCHANGED <<m_portbase, setups, packets, transport, asked, port, socket, link, dead>>
-----------------------------------------------------------------------------
\* Sending.

\* async_send's attempt on the packets q: the first is sent, or lost to an error, or stays.
Attempt(t, q) ==
    IF error[t]
    THEN error' = [error EXCEPT ![t] = FALSE] /\ queue' = [queue EXCEPT ![t] = Tail(q)] /\ UNCHANGED sent
    ELSE IF full[t]
    THEN queue' = [queue EXCEPT ![t] = q] /\ UNCHANGED <<error, sent>>
    ELSE /\ sent' = [sent EXCEPT ![t] = Append(@, Head(q))]
         /\ queue' = [queue EXCEPT ![t] = Tail(q)]
         /\ UNCHANGED error

\* Mutant of Send: the attempt is made though others wait.
SendAtOnce(t, p) ==
    IF ~full[t]
    THEN sent' = [sent EXCEPT ![t] = Append(@, p)] /\ UNCHANGED <<error, queue>>
    ELSE queue' = [queue EXCEPT ![t] = Append(@, p)] /\ UNCHANGED <<error, sent>>

\* epoll_reactor::start_op: no attempt while others wait.
Send(t, p) ==
    IF queue[t] = <<>>
    THEN Attempt(t, <<p>>)
    ELSE queue' = [queue EXCEPT ![t] = Append(@, p)] /\ UNCHANGED <<error, sent>>

\* RTSPClient::on_packet for a netstream; a socket that is not connected cannot send.
OnPacket(s) ==
    LET t == transport[s] IN
    /\ t # None
    /\ packets < MaxPackets /\ packets' = packets + 1
    /\ IF socket[t] = "connected" THEN Send(t, packets') ELSE UNCHANGED <<error, queue, sent>>
    /\ UNCHANGED <<m_portbase, setups, transport, asked, port, socket, op, full, dead>>

\* perform_io, when the socket can be written to again.
Perform(t) ==
    /\ queue[t] # <<>> /\ (error[t] \/ ~full[t])
    /\ Attempt(t, queue[t])
    /\ UNCHANGED <<m_portbase, setups, packets, transport, asked, port, socket, op, full, dead>>
-----------------------------------------------------------------------------
\* The kernel: the socket's buffer fills and empties, the peer refuses what it was sent.

Fills(t, is) ==
    /\ socket[t] = "connected" /\ Alive(t)
    /\ full[t] # is /\ full' = [full EXCEPT ![t] = is]
    /\ UNCHANGED <<m_portbase, setups, packets, transport, asked, port, socket, op, error, queue, sent, dead>>

Refused(t) ==
    /\ Alive(t) /\ sent[t] # <<>> /\ ~error[t]
    /\ error' = [error EXCEPT ![t] = TRUE]
    /\ UNCHANGED <<m_portbase, setups, packets, transport, asked, port, socket, op, full, queue, sent, dead>>
-----------------------------------------------------------------------------
Handler ==
    \E t \in Transports :
        \/ Resolve(t) \/ OnResolve(t) \/ OnResolveError(t) \/ OnConnect(t) \/ OnConnectError(t)
        \/ ReadFails(t) \/ ReadsNothing(t) \/ Perform(t)

Next ==
    /\ ~dead
    /\ \/ Handler
       \/ \E s \in Streams : Setup(s) \/ Teardown(s) \/ OnPacket(s)
       \/ \E t \in Transports : Fills(t, TRUE) \/ Fills(t, FALSE) \/ Refused(t)

Spec == Init /\ [][Next]_vars

\* The service thread and the resolver's go on.
FairSpec ==
    /\ Spec
    /\ \A t \in Transports : WF_vars(~dead /\ (Resolve(t) \/ OnResolve(t) \/ OnConnect(t)))
    /\ \A t \in Transports : WF_vars(~dead /\ ReadFails(t))
-----------------------------------------------------------------------------
\* The socket's port is the one the client was told, unless it was told 0, which is what the
\* counter comes to in time ("TODO: port wraps"); and no two transports share a port, which
\* SO_REUSEADDR would let them, unless the counter has gone all the way round between them.
OwnPort ==
    \A t \in Transports : Bound(t) /\ asked[t] # 0 =>
        /\ port[t] = asked[t]
        /\ \A u \in Transports : Bound(u) /\ asked[u] # 0 /\ port[u] = port[t] =>
            (t - u) % (PortSpan \div 2) = 0

\* Two threads send and one queue is between them: what a client gets is what was sent to it
\* since its socket was connected, in that order.
Link(t) == INSTANCE DatagramLink WITH
    connected <- socket[t] = "connected", refused <- error[t], waiting <- queue[t], delivered <- sent[t]
LinkSpec ==
    /\ \A t \in Transports : Link(t)!Init
    /\ [][\A t \in Transports : [Link(t)!Next]_(Link(t)!vars)]_vars

\* After TEARDOWN the read alone keeps the transport, its socket and its port; the refusal of a
\* late packet ends it, also if the client was gone before the socket was connected.
RefusalReleases ==
    \A t \in Transports :
        (error[t] /\ queue[t] = <<>> /\ \A s \in Streams : transport[s] # t) ~> (~Alive(t) \/ dead)
============================================================================
