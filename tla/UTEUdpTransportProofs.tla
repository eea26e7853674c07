----------------------- MODULE UTEUdpTransportProofs -----------------------
(***************************************************************************)
(* Theorems about UTEUdpTransport, for any number of streams, transports   *)
(* and ports.  OwnPort needs that every port is the n-th even number from  *)
(* FirstPort up, taken round at PortSpan (Numbered); that the transports   *)
(* implement DatagramLink, each by itself, needs that a socket is          *)
(* connected once, by on_resolve, and is not touched before (Opening).     *)
(***************************************************************************)
EXTENDS UTEUdpTransport, TLAPS

Types ==
    /\ m_portbase \in Ports /\ setups \in 0..MaxSetups /\ packets \in 0..MaxPackets
    /\ transport \in [Streams -> Transports \cup {None}]
    /\ asked \in [Transports -> Ports] /\ port \in [Transports -> Ports]
    /\ socket \in [Transports -> {"none", "closed", "open", "connected"}]
    /\ op \in [Transports -> {"none", "resolving", "resolved", "unresolved", "connecting", "reading"}]
    /\ error \in [Transports -> BOOLEAN] /\ full \in [Transports -> BOOLEAN]
    /\ queue \in [Transports -> Seq(Packets)] /\ sent \in [Transports -> Seq(Packets)]

\* The x-th even number from FirstPort up is p, after some rounds.
IsPort(p, x) == \E rounds \in Nat : p + rounds * PortSpan = FirstPort + 2 * x

\* Where the counter stands, and what it has given out.  A transport that does not exist yet
\* has no port.
Numbered ==
    /\ IsPort(m_portbase, setups)
    /\ \A t \in Transports : asked[t] # 0 => t <= setups /\ port[t] = asked[t] /\ IsPort(asked[t], t - 1)

\* What has become of the socket when the operations of open() are where they are.
Opening ==
    \A t \in Transports :
        /\ t > setups => op[t] = "none" /\ socket[t] = "none"
        /\ op[t] \in {"resolving", "resolved", "unresolved"} => socket[t] # "connected"

IInv == Types /\ Numbered /\ Opening
-----------------------------------------------------------------------------
(* The ports.                                                              *)

LEMMA Half ==
  /\ PortSpan = 2 * (PortSpan \div 2)
  /\ PortSpan \div 2 \in Nat /\ PortSpan \div 2 > 0
  BY UdpAssumption

LEMMA MultipleIsZero ==
  ASSUME NEW h \in Nat, h > 0, NEW k \in Int
  PROVE  (k * h) % h = 0
  OBVIOUS

\* on_rtsp_setup counts on by two, and goes round at PortSpan.
LEMMA NextPort ==
  ASSUME NEW p \in Ports, NEW x \in Nat, IsPort(p, x)
  PROVE  (p + 2) % PortSpan \in Ports /\ IsPort((p + 2) % PortSpan, x + 1)
<1> USE UdpAssumption DEF Ports
<1>1. PICK rounds \in Nat : p + rounds * PortSpan = FirstPort + 2 * x  BY DEF IsPort
<1>2. (p + 2) % PortSpan \in Ports  OBVIOUS
<1>3. CASE p + 2 < PortSpan
  <2>1. (p + 2) % PortSpan = p + 2  BY <1>3
  <2>2. (p + 2) + rounds * PortSpan = FirstPort + 2 * (x + 1)  BY <1>1
  <2> QED  BY <1>2, <2>1, <2>2 DEF IsPort
<1>4. CASE ~(p + 2 < PortSpan)
  <2>1. PortSpan >= 2  BY Half
  <2>2. 0 <= p + 2 - PortSpan /\ p + 2 - PortSpan < PortSpan  BY <1>4, <2>1
  <2>3. (p + 2) % PortSpan = p + 2 - PortSpan  BY <2>2
  <2>4. (rounds + 1) * PortSpan = rounds * PortSpan + PortSpan  OBVIOUS
  <2>5. (p + 2 - PortSpan) + (rounds + 1) * PortSpan = FirstPort + 2 * (x + 1)  BY <1>1, <2>4
  <2>6. IsPort(p + 2 - PortSpan, x + 1)
    <3>1. rounds + 1 \in Nat  OBVIOUS
    <3> QED  BY <3>1, <2>5 DEF IsPort
  <2> QED  BY <1>2, <2>3, <2>6
<1> QED  BY <1>3, <1>4

\* Two transports with one port are whole rounds apart.
LEMMA SamePort ==
  ASSUME NEW p \in Ports, NEW x \in Int, NEW y \in Int, IsPort(p, x), IsPort(p, y)
  PROVE  (x - y) % (PortSpan \div 2) = 0
<1> USE UdpAssumption DEF Ports
<1> DEFINE h == PortSpan \div 2
<1>1. PICK i \in Nat : p + i * PortSpan = FirstPort + 2 * x  BY DEF IsPort
<1>2. PICK j \in Nat : p + j * PortSpan = FirstPort + 2 * y  BY DEF IsPort
<1>3. PortSpan = 2 * h /\ h \in Nat /\ h > 0  BY Half
<1> HIDE DEF h
<1>4. i * PortSpan = 2 * (i * h) /\ j * PortSpan = 2 * (j * h)  BY <1>3
<1>5. x - y = i * h - j * h  BY <1>1, <1>2, <1>3, <1>4
<1>6. i * h - j * h = (i - j) * h  BY <1>3
<1>7. ((i - j) * h) % h = 0  BY <1>3, MultipleIsZero
<1> QED  BY <1>5, <1>6, <1>7 DEF h

LEMMA NumberedIsEnough == ASSUME Types, Numbered PROVE OwnPort
<1> SUFFICES ASSUME NEW t \in Transports, asked[t] # 0, NEW u \in Transports, asked[u] # 0,
                    port[u] = port[t]
             PROVE  (t - u) % (PortSpan \div 2) = 0
  BY DEF OwnPort, Numbered
<1>1. IsPort(asked[t], t - 1) /\ IsPort(asked[t], u - 1)  BY DEF Numbered
<1>2. asked[t] \in Ports /\ t \in Int /\ u \in Int  BY DEF Types, Transports
<1>3. ((t - 1) - (u - 1)) % (PortSpan \div 2) = 0  BY <1>1, <1>2, SamePort
<1> QED  BY <1>2, <1>3
-----------------------------------------------------------------------------
(* The steps.                                                              *)

\* What is sent or queued is a packet, and what is queued leaves from the front.
LEMMA AttemptTypes ==
  ASSUME Types, NEW t \in Transports, NEW q \in Seq(Packets), q # <<>>, Attempt(t, q)
  PROVE  /\ error' \in [Transports -> BOOLEAN]
         /\ queue' \in [Transports -> Seq(Packets)] /\ sent' \in [Transports -> Seq(Packets)]
<1>1. Head(q) \in Packets /\ Tail(q) \in Seq(Packets)  OBVIOUS
<1>2. Append(sent[t], Head(q)) \in Seq(Packets)  BY <1>1 DEF Types
<1> QED  BY <1>1, <1>2 DEF Attempt, Types

LEMMA SendTypes ==
  ASSUME Types, NEW t \in Transports, NEW p \in Packets, Send(t, p)
  PROVE  /\ error' \in [Transports -> BOOLEAN]
         /\ queue' \in [Transports -> Seq(Packets)] /\ sent' \in [Transports -> Seq(Packets)]
<1>1. <<p>> \in Seq(Packets) /\ <<p>> # <<>>  OBVIOUS
<1>2. Append(queue[t], p) \in Seq(Packets)  BY DEF Types
<1> QED  BY <1>1, <1>2, AttemptTypes DEF Send, Types

\* The number of the next packet, and the transport of the next SETUP.
LEMMA Counted ==
  ASSUME Types
  PROVE  /\ packets < MaxPackets => packets + 1 \in Packets
         /\ setups < MaxSetups => setups + 1 \in Transports /\ setups + 1 \in 0..MaxSetups
  BY UdpAssumption DEF Types, Packets, Transports

LEMMA SetupStep ==
  ASSUME IInv, NEW s \in Streams, Setup(s)
  PROVE  IInv'
<1> DEFINE t == setups + 1
<1> USE UdpAssumption DEF IInv, Types
<1>1. t \in Transports /\ setups' = t /\ t \in 0..MaxSetups  BY Counted DEF Setup
<1>2. m_portbase' \in Ports /\ IsPort(m_portbase', setups')
  <2>1. IsPort(m_portbase, setups) /\ m_portbase \in Ports /\ setups \in Nat  BY DEF Numbered
  <2> QED  BY <2>1, NextPort DEF Setup
<1>3. UNCHANGED <<packets, error, full, queue, sent, dead>>  BY DEF Setup, link
<1>4. CASE UNCHANGED <<transport, asked, port, socket, op>>
  <2>1. Types'  BY <1>1, <1>2, <1>3, <1>4
  <2>2. Numbered'  BY <1>1, <1>2, <1>4 DEF Numbered, Transports
  <2>3. Opening'  BY <1>1, <1>4 DEF Opening, Transports
  <2> QED  BY <2>1, <2>2, <2>3
<1>5. CASE /\ Open(t, m_portbase)
           /\ transport' = [transport EXCEPT ![s] = t]
           /\ asked' = [asked EXCEPT ![t] = m_portbase]
           /\ op' = [op EXCEPT ![t] = "resolving"]
  <2>1. /\ socket' \in [Transports -> {"none", "closed", "open", "connected"}]
        /\ socket'[t] # "connected" /\ \A u \in Transports : u # t => socket'[u] = socket[u]
        /\ port' \in [Transports -> Ports] /\ \A u \in Transports : u # t => port'[u] = port[u]
        /\ m_portbase # 0 => port'[t] = m_portbase
    BY <1>1, <1>5 DEF Open
  <2>2. Types'  BY <1>1, <1>2, <1>3, <1>5, <2>1
  <2>3. Numbered'
    <3>1. IsPort(m_portbase, t - 1)  BY <1>1 DEF Numbered
    <3>2. ASSUME NEW u \in Transports, asked'[u] # 0
          PROVE  u <= setups' /\ port'[u] = asked'[u] /\ IsPort(asked'[u], u - 1)
      <4>1. CASE u = t  BY <1>1, <1>5, <2>1, <3>1, <3>2, <4>1
      <4>2. CASE u # t
        <5>1. asked'[u] = asked[u] /\ port'[u] = port[u]  BY <1>1, <1>5, <2>1, <4>2
        <5> QED  BY <1>1, <3>2, <5>1 DEF Numbered, Transports
      <4> QED  BY <4>1, <4>2
    <3> QED  BY <1>2, <3>2 DEF Numbered
  <2>4. Opening'
    <3>1. ASSUME NEW u \in Transports
          PROVE  /\ u > setups' => op'[u] = "none" /\ socket'[u] = "none"
                 /\ op'[u] \in {"resolving", "resolved", "unresolved"} => socket'[u] # "connected"
      <4>1. CASE u = t  BY <1>1, <2>1, <4>1
      <4>2. CASE u # t
        <5>1. op'[u] = op[u] /\ socket'[u] = socket[u]  BY <1>1, <1>5, <2>1, <4>2
        <5> QED  BY <1>1, <5>1 DEF Opening, Transports
      <4> QED  BY <4>1, <4>2
    <3> QED  BY <3>1 DEF Opening
  <2> QED  BY <2>2, <2>3, <2>4
<1> QED  BY <1>4, <1>5 DEF Setup

\* Opening a socket gives it a port if it has none; it was not connected.
LEMMA OnResolveStep ==
  ASSUME IInv, NEW t \in Transports, OnResolve(t)
  PROVE  IInv'
<1> USE UdpAssumption DEF IInv, Types
<1>1. /\ op[t] = "resolved" /\ op' = [op EXCEPT ![t] = "connecting"] /\ t <= setups
      /\ UNCHANGED <<m_portbase, setups, packets, transport, asked, error, full, queue, sent>>
  BY DEF OnResolve, Step, link, Opening, Transports
<1>2. /\ socket' \in [Transports -> {"none", "closed", "open", "connected"}]
      /\ \A u \in Transports : u # t => socket'[u] = socket[u]
      /\ port' \in [Transports -> Ports]
      /\ \A u \in Transports : port[u] # 0 => port'[u] = port[u]
  BY ZenonT(30) DEF OnResolve
<1>3. Types'  BY <1>1, <1>2
<1>4. Numbered'
  <2>1. IsPort(m_portbase', setups')  BY <1>1 DEF Numbered
  <2>2. ASSUME NEW u \in Transports, asked'[u] # 0
        PROVE  u <= setups' /\ port'[u] = asked'[u] /\ IsPort(asked'[u], u - 1)
    <3>1. asked'[u] = asked[u] /\ setups' = setups  BY <1>1
    <3> QED  BY <1>2, <2>2, <3>1 DEF Numbered
  <2> QED  BY <2>1, <2>2 DEF Numbered
<1>5. Opening'
  <2>1. ASSUME NEW u \in Transports
        PROVE  /\ u > setups' => op'[u] = "none" /\ socket'[u] = "none"
               /\ op'[u] \in {"resolving", "resolved", "unresolved"} => socket'[u] # "connected"
    <3>1. CASE u = t  BY <1>1, <3>1 DEF Transports
    <3>2. CASE u # t  BY <1>1, <1>2, <3>2 DEF Opening
    <3> QED  BY <3>1, <3>2
  <2> QED  BY <2>1 DEF Opening
<1> QED  BY <1>3, <1>4, <1>5

\* An operation of open() is followed by the next, or by none.
LEMMA OperationStep ==
  ASSUME IInv, NEW t \in Transports,
         \/ Resolve(t) \/ OnResolveError(t) \/ OnConnect(t) \/ OnConnectError(t)
         \/ ReadFails(t) \/ ReadsNothing(t)
  PROVE  IInv'
<1> USE UdpAssumption DEF IInv, Types
<1>1. UNCHANGED <<m_portbase, setups, packets, transport, asked, port, socket, full, queue, sent>>
  BY DEF Resolve, OnResolveError, OnConnect, OnConnectError, ReadFails, ReadsNothing, link
<1>2. /\ op' \in [Transports -> {"none", "resolving", "resolved", "unresolved", "connecting", "reading"}]
      /\ error' \in [Transports -> BOOLEAN]
  BY DEF Resolve, OnResolveError, OnConnect, OnConnectError, ReadFails, ReadsNothing, link, Step
<1>3. \A u \in Transports : op'[u] # op[u] =>
        /\ op[u] # "none"
        /\ op'[u] \in {"resolving", "resolved", "unresolved"} => op[u] = "resolving"
  BY DEF Resolve, OnResolveError, OnConnect, OnConnectError, ReadFails, ReadsNothing, Step
<1>4. Types' /\ Numbered'  BY <1>1, <1>2 DEF Numbered
<1>5. Opening'  BY <1>1, <1>3 DEF Opening, Transports
<1> QED  BY <1>4, <1>5

\* Packets are sent by sockets whose opening and ports are left alone.
LEMMA SendingStep ==
  ASSUME IInv,
         \/ \E s \in Streams : Teardown(s) \/ OnPacket(s)
         \/ \E t \in Transports : Perform(t) \/ Fills(t, TRUE) \/ Fills(t, FALSE) \/ Refused(t)
  PROVE  IInv'
<1>1. UNCHANGED <<m_portbase, setups, asked, port, socket, op>>
  BY DEF Teardown, OnPacket, Perform, Fills, Refused, link
<1>2. Numbered' /\ Opening'  BY <1>1 DEF IInv, Numbered, Opening
<1>3. Types'
  <2>1. ASSUME NEW s \in Streams, Teardown(s) PROVE Types'
    BY <2>1 DEF IInv, Types, Teardown, link
  <2>2. ASSUME NEW s \in Streams, OnPacket(s) PROVE Types'
    <3> DEFINE t == transport[s]
    <3>1. t \in Transports /\ packets' \in Packets /\ packets' \in 0..MaxPackets
      BY <2>2, Counted, UdpAssumption DEF OnPacket, IInv, Types, Packets
    <3>2. /\ error' \in [Transports -> BOOLEAN]
          /\ queue' \in [Transports -> Seq(Packets)] /\ sent' \in [Transports -> Seq(Packets)]
      BY <2>2, <3>1, SendTypes DEF OnPacket, IInv, Types
    <3>3. UNCHANGED <<transport, full>>  BY <2>2 DEF OnPacket
    <3> QED  BY <1>1, <3>1, <3>2, <3>3 DEF IInv, Types
  <2>3. ASSUME NEW t \in Transports, Perform(t) PROVE Types'
    <3>1. queue[t] \in Seq(Packets) /\ queue[t] # <<>> /\ Attempt(t, queue[t])
      BY <2>3 DEF Perform, IInv, Types
    <3>2. UNCHANGED <<transport, packets, full>>  BY <2>3 DEF Perform
    <3> QED  BY <1>1, <3>1, <3>2, AttemptTypes DEF IInv, Types
  <2>4. ASSUME NEW t \in Transports, Fills(t, TRUE) \/ Fills(t, FALSE) \/ Refused(t) PROVE Types'
    BY <2>4 DEF IInv, Types, Fills, Refused
  <2> QED  BY <2>1, <2>2, <2>3, <2>4
<1> QED  BY <1>2, <1>3 DEF IInv

LEMMA IInvStep == IInv /\ [Next]_vars => IInv'
<1> SUFFICES ASSUME IInv, [Next]_vars PROVE IInv'  OBVIOUS
<1>1. CASE Next
  BY <1>1, SetupStep, OnResolveStep, OperationStep, SendingStep DEF Next, Handler
<1>2. CASE UNCHANGED vars
  <2>1. /\ UNCHANGED <<m_portbase, setups, packets, transport, asked, port, socket, op>>
        /\ UNCHANGED <<error, full, queue, sent>>
    BY <1>2 DEF vars, link
  <2> QED  BY <2>1 DEF IInv, Types, Numbered, Opening
<1> QED  BY <1>1, <1>2

LEMMA InitIInv == Init => IInv
<1> SUFFICES ASSUME Init PROVE IInv  OBVIOUS
<1> USE UdpAssumption DEF Init
<1>1. Types  BY DEF Types, Ports
<1>2. IsPort(m_portbase, setups)
  <2>1. FirstPort + 0 * PortSpan = FirstPort + 2 * 0 /\ 0 \in Nat  OBVIOUS
  <2> QED  BY <2>1 DEF IsPort
<1>3. Numbered /\ Opening  BY <1>2 DEF Numbered, Opening
<1> QED  BY <1>1, <1>3 DEF IInv

LEMMA Inductive == Spec => []IInv
  BY InitIInv, IInvStep, PTL DEF Spec

\* A socket has the port that the answer to its SETUP names (RTSPCore::get_rtp_port,
\* UTEUdpTransport::open), and shares it only after the counter has gone round.
THEOREM OwnPortAlways == Spec => []OwnPort
<1>1. IInv => OwnPort  BY NumberedIsEnough DEF IInv
<1> QED  BY <1>1, Inductive, PTL
-----------------------------------------------------------------------------
(* The transports as datagram links.                                       *)

\* An attempt sends the first packet, loses it to an error, or leaves it waiting.
LEMMA SendLinks ==
  ASSUME Types, NEW t \in Transports, NEW p \in Packets, socket[t] = "connected", socket' = socket,
         Send(t, p)
  PROVE  Link(t)!Next
<1> USE DEF Types
<1>1. CASE queue[t] = <<>> /\ error[t]
  <2>1. error'[t] = FALSE /\ queue'[t] = <<>> /\ sent' = sent
    BY <1>1 DEF Send, Attempt
  <2>2. Link(t)!Tell  BY <1>1, <2>1 DEF Link!Tell
  <2> QED  BY <2>2 DEF Link!Next
<1>2. CASE queue[t] = <<>> /\ ~error[t]
  <2>1. error' = error  BY <1>2 DEF Send, Attempt
  <2>2. \/ queue'[t] = <<p>> /\ sent' = sent
        \/ queue'[t] = <<>> /\ sent'[t] = Append(sent[t], p)
    BY <1>2 DEF Send, Attempt
  <2>3. Append(queue[t], p) = <<p>>  BY <1>2
  <2>4. Link(t)!Send(p)  BY <1>2, <2>1, <2>2, <2>3 DEF Link!Send
  <2> QED  BY <2>4 DEF Link!Next
<1>3. CASE queue[t] # <<>>
  <2>1. queue'[t] = Append(queue[t], p) /\ UNCHANGED <<error, sent>>  BY <1>3 DEF Send
  <2>2. Link(t)!Send(p)  BY <2>1 DEF Link!Send
  <2> QED  BY <2>2 DEF Link!Next
<1> QED  BY <1>1, <1>2, <1>3

LEMMA PerformLinks ==
  ASSUME Types, NEW t \in Transports, Perform(t)
  PROVE  Link(t)!Next
<1> USE DEF Types
<1>1. queue[t] # <<>> /\ (error[t] \/ ~full[t]) /\ Attempt(t, queue[t]) /\ socket' = socket
  BY DEF Perform
<1>2. CASE error[t]
  <2>1. error'[t] = FALSE /\ queue'[t] = Tail(queue[t]) /\ sent' = sent  BY <1>1, <1>2 DEF Attempt
  <2>2. Link(t)!Tell  BY <1>1, <1>2, <2>1 DEF Link!Tell
  <2> QED  BY <2>2 DEF Link!Next
<1>3. CASE ~error[t]
  <2>1. error' = error /\ queue'[t] = Tail(queue[t]) /\ sent'[t] = Append(sent[t], Head(queue[t]))
    BY <1>1, <1>3 DEF Attempt
  <2>2. Link(t)!Leave  BY <1>1, <2>1 DEF Link!Leave
  <2> QED  BY <2>2 DEF Link!Next
<1> QED  BY <1>2, <1>3

\* What a step does to a transport's socket, and to the packets of those it is not about.
LEMMA StepLinks ==
  ASSUME IInv, [Next]_vars, NEW u \in Transports
  PROVE  [Link(u)!Next]_(Link(u)!vars)
<1> USE DEF IInv, Types
<1> DEFINE same == (socket'[u] = "connected") = (socket[u] = "connected")
           still == /\ error'[u] = error[u] /\ queue'[u] = queue[u] /\ sent'[u] = sent[u]
<1>0. ASSUME same, still PROVE [Link(u)!Next]_(Link(u)!vars)
  BY <1>0 DEF Link!vars
<1>1. ASSUME NEW s \in Streams, Setup(s) PROVE same /\ still
  <2>1. still  BY <1>1 DEF Setup, link
  <2>2. socket[setups + 1] = "none" /\ setups + 1 \in Transports
    <3>1. setups + 1 \in Transports /\ setups + 1 > setups  BY <1>1, Counted, UdpAssumption DEF Setup
    <3> QED  BY <3>1 DEF Opening
  <2>3. socket' = socket \/ \E to \in {"closed", "open"} : socket' = [socket EXCEPT ![setups + 1] = to]
    BY <1>1 DEF Setup, Open
  <2> QED  BY <2>1, <2>2, <2>3
<1>2. ASSUME NEW s \in Streams, Teardown(s) PROVE same /\ still
  BY <1>2 DEF Teardown, link
<1>3. ASSUME NEW s \in Streams, OnPacket(s) PROVE [Link(u)!Next]_(Link(u)!vars)
  <2> DEFINE t == transport[s]
  <2>1. /\ t \in Transports /\ socket' = socket /\ packets' \in Packets
        /\ IF socket[t] = "connected" THEN Send(t, packets') ELSE UNCHANGED <<error, queue, sent>>
    BY <1>3, Counted DEF OnPacket
  <2>2. CASE socket[t] = "connected" /\ t = u
    BY <2>1, <2>2, SendLinks
  <2>3. CASE ~(socket[t] = "connected" /\ t = u)
    <3>1. still  BY <2>1, <2>3 DEF Send, Attempt
    <3> QED  BY <2>1, <3>1, <1>0
  <2> QED  BY <2>2, <2>3
<1>4. ASSUME NEW t \in Transports, Perform(t) PROVE [Link(u)!Next]_(Link(u)!vars)
  <2>1. CASE t = u  BY <1>4, <2>1, PerformLinks
  <2>2. CASE t # u
    <3>1. same /\ still  BY <1>4, <2>2 DEF Perform, Attempt
    <3> QED  BY <3>1, <1>0
  <2> QED  BY <2>1, <2>2
<1>5. ASSUME NEW t \in Transports, OnResolve(t) PROVE [Link(u)!Next]_(Link(u)!vars)
  <2>1. op[t] = "resolved" /\ still  BY <1>5 DEF OnResolve, Step, link
  <2>2. socket[t] # "connected"  BY <2>1 DEF Opening
  <2>3. CASE u = t /\ socket'[t] = "connected"
    <3>1. Link(u)!Connect  BY <2>1, <2>2, <2>3 DEF Link!Connect
    <3> QED  BY <3>1 DEF Link!Next
  <2>4. CASE u # t \/ socket'[t] # "connected"
    <3>1. same  BY <1>5, <2>2, <2>4 DEF OnResolve
    <3> QED  BY <2>1, <3>1, <1>0
  <2> QED  BY <2>3, <2>4
<1>6. ASSUME NEW t \in Transports,
             \/ Resolve(t) \/ OnResolveError(t) \/ OnConnect(t) \/ OnConnectError(t)
             \/ ReadsNothing(t)
      PROVE  same /\ still
  BY <1>6 DEF Resolve, OnResolveError, OnConnect, OnConnectError, ReadsNothing, link
<1>7. ASSUME NEW t \in Transports, ReadFails(t) PROVE [Link(u)!Next]_(Link(u)!vars)
  <2>1. error[t] /\ error' = [error EXCEPT ![t] = FALSE] /\ UNCHANGED <<socket, queue, sent>>
    BY <1>7 DEF ReadFails
  <2>2. CASE t = u
    <3>1. Link(u)!Tell  BY <2>1, <2>2 DEF Link!Tell
    <3> QED  BY <3>1 DEF Link!Next
  <2>3. CASE t # u
    <3>1. same /\ still  BY <2>1, <2>3
    <3> QED  BY <3>1, <1>0
  <2> QED  BY <2>2, <2>3
<1>8. ASSUME NEW t \in Transports, Fills(t, TRUE) \/ Fills(t, FALSE) PROVE same /\ still
  BY <1>8 DEF Fills
<1>9. ASSUME NEW t \in Transports, Refused(t) PROVE [Link(u)!Next]_(Link(u)!vars)
  <2>1. sent[t] # <<>> /\ error' = [error EXCEPT ![t] = TRUE] /\ UNCHANGED <<socket, queue, sent>>
    BY <1>9 DEF Refused
  <2>2. CASE t = u
    <3>1. Link(u)!Refuse  BY <2>1, <2>2 DEF Link!Refuse
    <3> QED  BY <3>1 DEF Link!Next
  <2>3. CASE t # u
    <3>1. same /\ still  BY <2>1, <2>3
    <3> QED  BY <3>1, <1>0
  <2> QED  BY <2>2, <2>3
<1>10. CASE UNCHANGED vars  BY <1>10, <1>0 DEF vars, link
<1> HIDE DEF same, still
<1> QED
  BY <1>0, <1>1, <1>2, <1>3, <1>4, <1>5, <1>6, <1>7, <1>8, <1>9, <1>10 DEF Next, Handler

\* From its connect on, each transport sends what it was given in that order, none twice, and
\* loses a packet only to a refusal (RTSPClient::on_packet, epoll_reactor::start_op).
THEOREM LinksImplemented == Spec => LinkSpec
<1>1. Init => \A t \in Transports : Link(t)!Init
  BY DEF Init, Link!Init
<1>2. IInv /\ [Next]_vars => \A t \in Transports : [Link(t)!Next]_(Link(t)!vars)
  BY StepLinks
<1>3. IInv /\ [Next]_vars => [\A t \in Transports : [Link(t)!Next]_(Link(t)!vars)]_vars
  BY <1>2
<1> QED  BY <1>1, <1>3, Inductive, PTL DEF Spec, LinkSpec
============================================================================
