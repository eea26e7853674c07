------------------------- MODULE RTSPSessionProofs -------------------------
(***************************************************************************)
(* Theorems about RTSPSession for any clients, streams, requests and       *)
(* bounds.  The inductive invariant is built in layers, each proved from   *)
(* the ones before it: the shape of the state and of a request in progress *)
(* (Typed); the two lists a SETUP and a TEARDOWN keep in step (LinkInv);   *)
(* what a delivery relies on (StableDelivery); how far a request has got   *)
(* (TearInv, SetupInv); what the client was told (GrantInv) and which      *)
(* packets it was sent (GapInv).                                           *)
(***************************************************************************)
EXTENDS RTSPSession, TLAPS

\* A request in progress is where its method brings it.
JobOK ==
    io \in Job =>
      /\ io.pc \in {"setup", "observe"} => io.req.method = "SETUP" /\ io.req.transport \notin {"bad", "range"}
      /\ io.pc = "observe" => io.req.stream \in 1..nstreams /\ io.status = "200"
      /\ io.pc = "activate" => io.req.method = "PLAY" /\ io.status = "200"
      /\ io.pc \in {"tear", "unobserve"} => io.req.method = "TEARDOWN"
      /\ io.pc = "unobserve" => io.idx \in 1..nstreams
      /\ io.pc = "reply" /\ io.req.method = "PLAY" => io.status = "200"
      /\ io.pc \in {"reply", "finish"} /\ io.req.method = "SETUP" /\ io.status = "200"
           => io.req.stream \in 1..nstreams

Typed == TypeOK /\ JobOK

\* The request in progress has changed one of the two lists for c and s and not the other.
Halfway(c, s) ==
    /\ io \in Job /\ io.client = c
    /\ \/ io.pc = "observe" /\ io.req.stream = s
       \/ io.pc = "unobserve" /\ io.idx = s

\* Linked, for every state: the lists agree but for the one a request is halfway through.
LinkInv ==
    /\ \A c \in Clients, s \in Streams :
         ~Halfway(c, s) => observers[s][c] = IF HasNet(c, s) THEN 1 ELSE 0
    /\ io.pc = "observe" =>
         HasNet(io.client, io.req.stream) /\ observers[io.req.stream][io.client] = 0
    /\ io.pc = "unobserve" => ~HasNet(io.client, io.idx)
    /\ \A c \in Clients, s \in Streams : HasNet(c, s) => s <= nstreams

\* A request in progress has got as far as its place in the loop says, and active netstreams
\* are of streams the client was told of.
GrantInv ==
    /\ \A c \in Clients, s \in Streams : net[c][s].active => s \in granted[c]
    /\ io.pc = "activate" =>
         \A s \in Streams : Covers(io.req, s) /\ HasNet(io.client, s) => s \in granted[io.client]

TearInv ==
    io \in Job /\ io.req.method = "TEARDOWN" =>
      \A s \in Streams : Covers(io.req, s) =>
        /\ io.pc \in {"tear", "unobserve"} /\ s < io.idx => ~HasNet(io.client, s)
        /\ io.pc \in {"reply", "finish"} => ~HasNet(io.client, s)

SetupInv ==
    io \in Job /\ io.req.method = "SETUP" /\ io.pc \in {"reply", "finish"} /\ io.status = "200" =>
        HasNet(io.client, io.req.stream)
-----------------------------------------------------------------------------
(* The shape of the state.                                                                *)

LEMMA NoSeqType == NoSeq \in 0..SeqMod
  BY SessionAssumption DEF NoSeq

LEMMA BumpCounts == ASSUME NEW f \in Counts, NEW c PROVE [f EXCEPT ![c] = @ + 1] \in Counts
<1>1. \A d \in Clients : f[d] + 1 \in Nat  BY DEF Counts
<1> QED  BY <1>1 DEF Counts

LEMMA WrapType == \A k \in 0..SeqMod - 1 : (k + 1) % SeqMod \in 0..SeqMod - 1
  BY SessionAssumption

\* The requests in progress are the jobs, the calls in progress the deliveries.
LEMMA InJob == TypeOK /\ io # Idle /\ io # Exited => io \in Job
  BY DEF TypeOK

LEMMA JobPc ==
  ASSUME TypeOK,
         io.pc \in {"setup", "observe", "reply", "activate", "tear", "unobserve", "finish"}
  PROVE  io \in Job
  BY DEF TypeOK, Idle, Exited

LEMMA DeliveryPc == TypeOK /\ api.pc \in {"packet", "deliver"} => api \in Delivery
  BY DEF TypeOK, Sending, Idle, Stopping, Destroyed

LEMMA SendingPc == TypeOK /\ api.pc = "send" => api \in Sending
  BY DEF TypeOK, Delivery, Idle, Stopping, Destroyed

LEMMA InitTyped == Init => Typed
  BY SessionAssumption, NoSeqType
     DEF Init, Typed, TypeOK, JobOK, Idle, Job, Net, Streams, Counts

LEMMA TypedStep == Typed /\ [Next]_vars => Typed'
<1> SUFFICES ASSUME Typed, [Next]_vars PROVE Typed'
  OBVIOUS
<1> USE SessionAssumption DEF Typed
<1>1. CASE UNCHANGED vars
  BY <1>1 DEF vars, TypeOK, JobOK
<1>2. ASSUME NEW c \in Clients, Accept(c) PROVE Typed'
  <2>1. reads' \in [Clients -> Nat]
    BY <1>2 DEF Accept, TypeOK
  <2>2. TypeOK'
    BY <1>2, <2>1 DEF Accept, TypeOK, linkVars, sessionVars, hostVars
  <2>3. JobOK'
    BY <1>2 DEF Accept, JobOK, hostVars
  <2> QED  BY <2>2, <2>3
<1>3. ASSUME NEW c \in Clients, PeerClose(c) PROVE Typed'
  <2>1. TypeOK'
    BY <1>3 DEF PeerClose, TypeOK, linkVars, sessionVars, hostVars
  <2>2. JobOK'
    BY <1>3 DEF PeerClose, JobOK, hostVars
  <2> QED  BY <2>1, <2>2
<1>4. ASSUME NEW c \in Clients, ReadError(c) PROVE Typed'
  <2>1. reads' \in [Clients -> Nat]
    BY <1>4 DEF ReadError, TypeOK
  <2>2. TypeOK'
    BY <1>4, <2>1 DEF ReadError, TypeOK, linkVars, sessionVars, hostVars
  <2>3. JobOK'
    BY <1>4 DEF ReadError, JobOK, hostVars
  <2> QED  BY <2>2, <2>3
<1>5. ASSUME NEW c \in Clients, NEW r \in Requests, Drop(c, r) PROVE Typed'
  <2>1. heard' \in [Clients -> 0..MaxRequests]
    BY <1>5 DEF Drop, Arrives, TypeOK
  <2>2. TypeOK'
    BY <1>5, <2>1 DEF Drop, Arrives, TypeOK, sessionVars, hostVars
  <2>3. JobOK'
    BY <1>5 DEF Drop, Arrives, JobOK, hostVars
  <2> QED  BY <2>2, <2>3
<1>6. ASSUME NEW c \in Clients, NEW r \in Requests, Receive(c, r) PROVE Typed'
  <2>1. heard' \in [Clients -> 0..MaxRequests]
    BY <1>6 DEF Receive, Arrives, TypeOK
  <2>2. reads' \in [Clients -> Nat]
    BY <1>6 DEF Receive, Arrives, TypeOK
  <2>3. 1 \in 1..MaxStreams + 1
    BY <1>6
  <2>4. io' \in Job
    BY <1>6, <2>3 DEF Receive, StartOf, Job
  <2>5. TypeOK'
    BY <1>6, <2>1, <2>2, <2>3, <2>4 DEF Receive, Arrives, TypeOK, sessionVars, hostVars
  <2>6. JobOK'
    BY <1>6 DEF Receive, StartOf, JobOK, Request
  <2> QED  BY <2>5, <2>6
<1>7. CASE AddStream
  <2>1. nstreams' \in 0..MaxStreams /\ 1..nstreams \subseteq 1..nstreams'
    BY <1>7 DEF AddStream, TypeOK
  <2>2. TypeOK'
    BY <1>7, <2>1 DEF AddStream, TypeOK, linkVars, sessionVars
  <2>3. JobOK'
    BY <1>7, <2>1 DEF AddStream, JobOK
  <2> QED  BY <2>2, <2>3
<1>8. ASSUME NEW s \in Streams, NEW k \in 1..MaxPackets, Push(s, k) PROVE Typed'
  <2>1. k \in 0..MaxPackets
    BY <1>8
  <2>2. api' \in Delivery
    BY <1>8, <2>1 DEF Push, Delivery, Counts
  <2>3. pushes' \in 0..MaxPushes
    BY <1>8 DEF Push, TypeOK
  <2>4. TypeOK'
    BY <1>8, <2>1, <2>2, <2>3 DEF Push, TypeOK, linkVars, sessionVars
  <2>5. JobOK'
    BY <1>8 DEF Push, JobOK
  <2> QED  BY <2>4, <2>5
<1>9. CASE Destroy
  <2>1. TypeOK'
    BY <1>9 DEF Destroy, TypeOK, linkVars, sessionVars
  <2>2. JobOK'
    BY <1>9 DEF Destroy, JobOK
  <2> QED  BY <2>1, <2>2
<1>10. CASE SetupUnknown
  <2>1. io \in Job
    BY <1>10, JobPc DEF SetupUnknown
  <2>2. io' \in Job
    BY <1>10, <2>1 DEF SetupUnknown, Goto, Job
  <2>3. TypeOK'
    BY <1>10, <2>1, <2>2 DEF SetupUnknown, TypeOK, linkVars, sessionVars, hostVars
  <2>4. JobOK'
    BY <1>10, <2>1, <2>2 DEF SetupUnknown, Goto, JobOK, Job, hostVars
  <2> QED  BY <2>3, <2>4
<1>11. CASE SetupRefused
  <2>1. io \in Job
    BY <1>11, JobPc DEF SetupRefused
  <2>2. io' \in Job
    BY <1>11, <2>1 DEF SetupRefused, Goto, Job
  <2>3. TypeOK'
    BY <1>11, <2>1, <2>2 DEF SetupRefused, TypeOK, linkVars, sessionVars, hostVars
  <2>4. JobOK'
    BY <1>11, <2>1, <2>2 DEF SetupRefused, Goto, JobOK, Job, hostVars
  <2> QED  BY <2>3, <2>4
<1>12. CASE SetupAdd
  <2>1. io \in Job
    BY <1>12, JobPc DEF SetupAdd
  <2>2. io' \in Job
    BY <1>12, <2>1 DEF SetupAdd, AddNet, Goto, Job
  <2>3. io.req.transport \in {"udp", "tcp"}
    BY <1>12, <2>1 DEF SetupAdd, JobOK, Job, Request
  <2>4. net' \in [Clients -> [Streams -> Net]]
    BY <1>12, <2>3 DEF SetupAdd, TypeOK, AddNet, Net
  <2>5. got' \in [Clients -> [Streams -> 0..SeqMod]]
    BY <1>12, NoSeqType DEF SetupAdd, TypeOK, AddNet
  <2>6. TypeOK'
    BY <1>12, <2>1, <2>2, <2>3, <2>4, <2>5 DEF SetupAdd, TypeOK, linkVars, hostVars, AddNet
  <2>7. JobOK'
    BY <1>12, <2>1, <2>2 DEF SetupAdd, AddNet, Goto, JobOK, Job, hostVars
  <2> QED  BY <2>6, <2>7
<1>13. CASE Observe
  <2>1. io \in Job
    BY <1>13, JobPc DEF Observe
  <2>2. io' \in Job
    BY <1>13, <2>1 DEF Observe, Goto, Job
  <2>3. io.req.stream \in Streams
    BY <1>13, <2>1 DEF Observe, JobOK, TypeOK, Streams
  <2>4. observers[io.req.stream] \in Counts
    BY <1>13, <2>3 DEF TypeOK
  <2>5. [observers[io.req.stream] EXCEPT ![io.client] = @ + 1] \in Counts
    BY <1>13, <2>4, BumpCounts
  <2>6. observers' \in [Streams -> Counts]
    BY <1>13, <2>3, <2>5 DEF Observe, TypeOK
  <2>7. TypeOK'
    BY <1>13, <2>1, <2>2, <2>3, <2>4, <2>5, <2>6 DEF Observe, TypeOK, linkVars, hostVars
  <2>8. JobOK'
    BY <1>13, <2>1, <2>2 DEF Observe, Goto, JobOK, Job, hostVars
  <2> QED  BY <2>7, <2>8
<1>14. CASE Reply
  <2>1. io \in Job
    BY <1>14, JobPc DEF Reply
  <2>2. io' \in Job
    BY <1>14, <2>1 DEF Reply, Goto, Job
  <2>3. Told \in SUBSET Streams
    BY <1>14, <2>1 DEF Told, TypeOK, Job
  <2>4. granted' \in [Clients -> SUBSET Streams]
    BY <1>14, <2>3 DEF Reply, TypeOK
  <2>5. TypeOK'
    BY <1>14, <2>1, <2>2, <2>3, <2>4 DEF Reply, TypeOK, linkVars, hostVars
  <2>6. JobOK'
    BY <1>14, <2>1, <2>2 DEF Reply, Goto, JobOK, Job, hostVars
  <2> QED  BY <2>5, <2>6
<1>15. CASE Advance
  <2>1. io \in Job
    BY <1>15, JobPc DEF Advance
  <2>2. nstreams \in 0..MaxStreams /\ io.idx \in 1..MaxStreams + 1
    BY <1>15, <2>1 DEF TypeOK, Job
  <2>3. io.idx <= nstreams => io.idx + 1 \in 1..MaxStreams + 1
    BY <1>15, <2>2
  <2>4. io.idx > nstreams => io' \in Job
    BY <1>15, <2>1 DEF Advance, Goto, Job
  <2>5. io.idx <= nstreams => io' \in Job
    BY <1>15, <2>1, <2>2, <2>3 DEF Advance, Job
  <2>6. io' \in Job
    BY <1>15, <2>2, <2>4, <2>5
  <2>7. TypeOK'
    BY <1>15, <2>1, <2>2, <2>3, <2>4, <2>5, <2>6 DEF Advance, TypeOK, linkVars, sessionVars, hostVars
  <2>8. JobOK'
    BY <1>15, <2>1, <2>2, <2>6 DEF Advance, Goto, JobOK, Job, hostVars
  <2> QED  BY <2>7, <2>8
<1>16. CASE Activate
  <2>1. io \in Job
    BY <1>16, JobPc DEF Activate
  <2>2. nstreams \in 0..MaxStreams /\ io.idx \in 1..MaxStreams + 1
    BY <1>16, <2>1 DEF TypeOK, Job
  <2>3. io' \in Job
    BY <1>16, <2>1, <2>2 DEF Activate, Job
  <2>4. io.client \in Clients /\ io.idx \in Streams
    BY <1>16, <2>1, <2>2 DEF Activate, Job, Streams
  <2>5. net[io.client][io.idx] \in Net
    BY <1>16, <2>4 DEF TypeOK
  <2>6. HasNet(io.client, io.idx) => [net[io.client][io.idx] EXCEPT !.active = TRUE] \in Net
    BY <1>16, <2>5 DEF HasNet, Net, NoNet
  <2>7. net' \in [Clients -> [Streams -> Net]]
    BY <1>16, <2>4, <2>6 DEF Activate, TypeOK
  <2>8. TypeOK'
    BY <1>16, <2>1, <2>2, <2>3, <2>4, <2>5, <2>6, <2>7 DEF Activate, TypeOK, linkVars, hostVars
  <2>9. JobOK'
    BY <1>16, <2>1, <2>2, <2>3 DEF Activate, JobOK, Job, hostVars
  <2> QED  BY <2>8, <2>9
<1>17. CASE TearDel
  <2>1. io \in Job
    BY <1>17, JobPc DEF TearDel
  <2>2. io' \in Job
    BY <1>17, <2>1 DEF TearDel, Goto, Job
  <2>3. net' \in [Clients -> [Streams -> Net]]
    BY <1>17 DEF TearDel, TypeOK, Net
  <2>4. reads' \in [Clients -> Nat]
    <3>1. reads' = reads \/ reads' = [reads EXCEPT ![io.client] = @ + 1]
      BY <1>17 DEF TearDel, Detach
    <3>2. io.client \in Clients /\ reads \in [Clients -> Nat]
      BY <2>1 DEF Job, TypeOK
    <3>3. reads[io.client] + 1 \in Nat
      BY <3>2
    <3> QED  BY <3>1, <3>2, <3>3
  <2>5. observer' \in [Clients -> {"messager", "null"}]
    BY <1>17, <2>1 DEF TearDel, Detach, TypeOK, Job
  <2>6. io.idx \in 1..nstreams
    BY <1>17, <2>1 DEF TearDel, Job, TypeOK
  <2>7. TypeOK'
    BY <1>17, <2>1, <2>2, <2>3, <2>4, <2>5, <2>6 DEF TearDel, TypeOK, hostVars
  <2>8. JobOK'
    BY <1>17, <2>1, <2>2, <2>6 DEF TearDel, Goto, JobOK, Job, hostVars
  <2> QED  BY <2>7, <2>8
<1>18. CASE Unobserve
  <2>1. io \in Job
    BY <1>18, JobPc DEF Unobserve
  <2>2. nstreams \in 0..MaxStreams /\ io.idx \in 1..nstreams
    BY <1>18, <2>1 DEF Unobserve, JobOK, TypeOK
  <2>3. io.idx + 1 \in 1..MaxStreams + 1
    BY <1>18, <2>2
  <2>4. io' \in Job
    BY <1>18, <2>1, <2>3 DEF Unobserve, Job
  <2>5. observers' \in [Streams -> Counts]
    BY <1>18 DEF Unobserve, TypeOK, Counts
  <2>6. TypeOK'
    BY <1>18, <2>1, <2>2, <2>3, <2>4, <2>5 DEF Unobserve, TypeOK, linkVars, hostVars
  <2>7. JobOK'
    BY <1>18, <2>1, <2>2, <2>3 DEF Unobserve, JobOK, Job, hostVars
  <2> QED  BY <2>6, <2>7
<1>19. CASE Finish
  <2>1. io \in Job
    BY <1>19, JobPc DEF Finish
  <2>2. reads' \in [Clients -> Nat]
    BY <1>19, <2>1 DEF Finish, TypeOK, Job
  <2>3. TypeOK'
    BY <1>19, <2>1, <2>2 DEF Finish, TypeOK, sessionVars, hostVars
  <2>4. JobOK'
    BY <1>19 DEF Finish, JobOK, Job, Idle
  <2> QED  BY <2>3, <2>4
<1>20. CASE IoExit
  <2>1. TypeOK'
    BY <1>20 DEF IoExit, TypeOK, linkVars, sessionVars, hostVars
  <2>2. JobOK'
    BY <1>20 DEF IoExit, JobOK, Job, Exited
  <2> QED  BY <2>1, <2>2
<1>21. CASE StartPacket
  <2>1. api \in Delivery
    BY <1>21, DeliveryPc DEF StartPacket
  <2>2. seqno' \in [Streams -> 0..SeqMod - 1]
    BY <1>21, WrapType DEF StartPacket, TypeOK
  <2>3. api.left - 1 \in 0..MaxPackets /\ observers[api.stream] \in Counts
    BY <1>21, <2>1 DEF StartPacket, Delivery, TypeOK
  <2>4. api' \in Delivery
    BY <1>21, <2>1, <2>3 DEF StartPacket, Delivery
  <2>5. TypeOK'
    BY <1>21, <2>1, <2>2, <2>3, <2>4 DEF StartPacket, TypeOK, linkVars, sessionVars
  <2>6. JobOK'
    BY <1>21 DEF StartPacket, JobOK
  <2> QED  BY <2>5, <2>6
<1>22. ASSUME NEW c \in Clients, OnPacket(c) PROVE Typed'
  <2>1. api \in Delivery
    BY <1>22, DeliveryPc DEF OnPacket
  <2>2. Visit(c) \in Counts
    BY <1>22, <2>1 DEF OnPacket, Delivery, Counts, Visit
  <2>3. api' \in Delivery \cup Sending
    BY <1>22, <2>1, <2>2 DEF OnPacket, SendTo, Delivery, Sending
  <2>4. TypeOK'
    BY <1>22, <2>1, <2>2, <2>3 DEF OnPacket, TypeOK, linkVars, sessionVars
  <2>5. JobOK'
    BY <1>22 DEF OnPacket, JobOK
  <2> QED  BY <2>4, <2>5
<1>23. CASE Send
  <2>1. api \in Sending
    BY <1>23, SendingPc DEF Send
  <2>2. api' \in Delivery
    BY <1>23, <2>1 DEF Send, Delivery, Sending
  <2>3. seqno[api.stream] \in 0..SeqMod
    BY <1>23, <2>1 DEF Sending, TypeOK
  <2>4. got' \in [Clients -> [Streams -> 0..SeqMod]]
    BY <1>23, <2>3 DEF Send, TypeOK
  <2>5. TypeOK'
    BY <1>23, <2>1, <2>2, <2>3, <2>4 DEF Send, TypeOK, linkVars
  <2>6. JobOK'
    BY <1>23 DEF Send, JobOK
  <2> QED  BY <2>5, <2>6
<1>24. CASE EndPacket
  <2>1. api \in Delivery
    BY <1>24, DeliveryPc DEF EndPacket
  <2>2. api' \in Delivery \cup {Idle}
    BY <1>24, <2>1 DEF EndPacket, Delivery
  <2>3. TypeOK'
    BY <1>24, <2>1, <2>2 DEF EndPacket, TypeOK, linkVars, sessionVars
  <2>4. JobOK'
    BY <1>24 DEF EndPacket, JobOK
  <2> QED  BY <2>3, <2>4
<1>25. CASE DestroyEnd
  <2>1. TypeOK'
    BY <1>25 DEF DestroyEnd, TypeOK, linkVars, sessionVars
  <2>2. JobOK'
    BY <1>25 DEF DestroyEnd, JobOK
  <2> QED  BY <2>1, <2>2
<1>26. CASE Terminated
  BY <1>26 DEF Terminated, vars, TypeOK, JobOK
<1> QED
  BY <1>1, <1>2, <1>3, <1>4, <1>5, <1>6, <1>7, <1>8, <1>9, <1>10,
     <1>11, <1>12, <1>13, <1>14, <1>15, <1>16, <1>17, <1>18, <1>19, <1>20,
     <1>21, <1>22, <1>23, <1>24, <1>25, <1>26
  DEF Next, IoStep, HostStep

\* The variables keep their types and a request in progress is of the right method, for any
\* requests: TypeOK in the runs.
THEOREM TypeCorrect == Spec => []TypeOK
<1>1. Init => Typed  BY InitTyped
<1>2. Typed /\ [Next]_vars => Typed'  BY TypedStep
<1>3. Typed => TypeOK  BY DEF Typed
<1> QED  BY <1>1, <1>2, <1>3, PTL DEF Spec
-----------------------------------------------------------------------------
(* The netstreams and the observers.                                                      *)

\* active_stream adds and removes no netstream.
LEMMA ActivateNet ==
  ASSUME Typed, Activate
  PROVE  /\ io.client \in Clients /\ io.idx \in Streams
         /\ \A c \in Clients, s \in Streams : HasNet(c, s)' <=> HasNet(c, s)
         /\ \A c \in Clients, s \in Streams :
              net'[c][s].active => net[c][s].active
                                   \/ (c = io.client /\ s = io.idx /\ HasNet(c, s))
         /\ \A c \in Clients, s \in Streams : net[c][s].active => net'[c][s].active
         /\ \A c \in Clients, s \in Streams : c # io.client => net'[c][s] = net[c][s]
<1>1. io \in Job
  BY JobPc DEF Typed, Activate
<1>2. io.client \in Clients /\ io.idx \in Streams
  BY <1>1, SessionAssumption DEF Typed, TypeOK, Activate, Job, Streams
<1>3. ASSUME NEW n \in Net, n # NoNet PROVE [n EXCEPT !.active = TRUE] # NoNet
  BY <1>3 DEF Net, NoNet
<1>4. net[io.client][io.idx] \in Net
  BY <1>2 DEF Typed, TypeOK
<1>5. HasNet(io.client, io.idx) =>
        /\ [net[io.client][io.idx] EXCEPT !.active = TRUE] # NoNet
        /\ [net[io.client][io.idx] EXCEPT !.active = TRUE].active
  BY <1>3, <1>4 DEF HasNet, Net, NoNet
<1> QED
  BY <1>2, <1>5 DEF Activate, HasNet, Typed, TypeOK

LEMMA LinkFrame ==
  ASSUME LinkInv, TypeOK, UNCHANGED <<net, observers, io>>, nstreams' \in Nat, nstreams' >= nstreams
  PROVE  LinkInv'
<1>1. \A c \in Clients, s \in Streams : HasNet(c, s) => s <= nstreams'
  BY DEF LinkInv, TypeOK, Streams
<1> QED  BY <1>1 DEF LinkInv, Halfway, HasNet

\* A step of a request that is not halfway through an addition or a removal.
LEMMA LinkMove ==
  ASSUME LinkInv, UNCHANGED <<net, observers, nstreams>>,
         io.pc \notin {"observe", "unobserve"}, io'.pc \notin {"observe", "unobserve"}
  PROVE  LinkInv'
  BY DEF LinkInv, Halfway, HasNet

LEMMA LinkStep == Typed /\ LinkInv /\ [Next]_vars => LinkInv'
<1> SUFFICES ASSUME Typed, LinkInv, [Next]_vars PROVE LinkInv'
  OBVIOUS
<1> USE SessionAssumption DEF Typed
<1>1. CASE UNCHANGED vars
  BY <1>1, LinkFrame DEF vars, TypeOK, linkVars, sessionVars, hostVars
<1>2. ASSUME NEW c \in Clients, Accept(c) PROVE LinkInv'
  BY <1>2, LinkFrame DEF Accept, TypeOK, linkVars, sessionVars, hostVars
<1>3. ASSUME NEW c \in Clients, PeerClose(c) PROVE LinkInv'
  BY <1>3, LinkFrame DEF PeerClose, TypeOK, linkVars, sessionVars, hostVars
<1>4. ASSUME NEW c \in Clients, ReadError(c) PROVE LinkInv'
  BY <1>4, LinkFrame DEF ReadError, TypeOK, linkVars, sessionVars, hostVars
<1>5. ASSUME NEW c \in Clients, NEW r \in Requests, Drop(c, r) PROVE LinkInv'
  BY <1>5, LinkFrame DEF Drop, Arrives, TypeOK, linkVars, sessionVars, hostVars
<1>6. ASSUME NEW c \in Clients, NEW r \in Requests, Receive(c, r) PROVE LinkInv'
  BY <1>6, LinkMove DEF Receive, Arrives, StartOf, Idle, sessionVars, hostVars
<1>7. CASE AddStream
  BY <1>7, LinkFrame DEF AddStream, TypeOK, linkVars, sessionVars
<1>8. ASSUME NEW s \in Streams, NEW k \in 1..MaxPackets, Push(s, k) PROVE LinkInv'
  BY <1>8, LinkFrame DEF Push, TypeOK, linkVars, sessionVars, hostVars
<1>9. CASE Destroy
  BY <1>9, LinkFrame DEF Destroy, TypeOK, linkVars, sessionVars, hostVars
<1>10. CASE SetupUnknown
  BY <1>10, LinkMove DEF SetupUnknown, Goto, linkVars, sessionVars, hostVars
<1>11. CASE SetupRefused
  BY <1>11, LinkMove DEF SetupRefused, Goto, linkVars, sessionVars, hostVars
<1>12. CASE SetupAdd
  <2>1. io \in Job /\ io' = [io EXCEPT !.pc = "observe", !.status = "200"]
    BY <1>12, JobPc DEF SetupAdd, AddNet, Goto
  <2>2. io.client \in Clients /\ io.req.stream \in Streams /\ io.req.stream <= nstreams /\ io.req.transport # "none"
    BY <1>12, <2>1 DEF SetupAdd, Job, JobOK, TypeOK, Streams, Request
  <2>3. io'.pc = "observe" /\ io'.client = io.client /\ io'.req = io.req /\ io' \in Job
    BY <1>12, <2>1 DEF Job
  <2>4. \A c \in Clients, s \in Streams : HasNet(c, s)' <=> HasNet(c, s) \/ (c = io.client /\ s = io.req.stream)
    BY <1>12, <2>2 DEF SetupAdd, AddNet, HasNet, NoNet, TypeOK
  <2>5. \A c \in Clients, s \in Streams : ~Halfway(c, s)
    BY <1>12, <2>1 DEF SetupAdd, Halfway
  <2>6. observers[io.req.stream][io.client] = 0
    BY <1>12, <2>2, <2>5 DEF SetupAdd, LinkInv
  <2> QED  BY <1>12, <2>2, <2>3, <2>4, <2>5, <2>6 DEF SetupAdd, AddNet, LinkInv, Halfway, hostVars
<1>13. CASE Observe
  <2>1. io \in Job /\ io' = [io EXCEPT !.pc = "reply", !.status = io.status]
    BY <1>13, JobPc DEF Observe, Goto
  <2>2. io.client \in Clients /\ io.req.stream \in Streams
    BY <1>13, <2>1 DEF Observe, Job, JobOK, TypeOK, Streams
  <2>3. io'.pc = "reply"
    BY <1>13, <2>1 DEF Job
  <2>4. \A c \in Clients, s \in Streams : Halfway(c, s) <=> c = io.client /\ s = io.req.stream
    BY <1>13, <2>1 DEF Observe, Halfway
  <2>5. \A c \in Clients, s \in Streams : HasNet(c, s)' <=> HasNet(c, s)
    BY <1>13 DEF Observe, HasNet
  <2>6. \A c \in Clients, s \in Streams : observers'[s][c] = IF c = io.client /\ s = io.req.stream THEN 1 ELSE observers[s][c]
    BY <1>13, <2>2 DEF Observe, LinkInv, TypeOK, Counts
  <2> QED  BY <1>13, <2>2, <2>3, <2>4, <2>5, <2>6 DEF Observe, LinkInv, Halfway, hostVars
<1>14. CASE Reply
  BY <1>14, LinkMove DEF Reply, Goto, linkVars, sessionVars, hostVars
<1>15. CASE Advance
  <2>1. io \in Job
    BY <1>15, JobPc DEF Advance
  <2>2. io'.pc \in {"activate", "tear", "reply", "finish"}
    BY <1>15, <2>1 DEF Advance, Goto, Job
  <2> QED  BY <1>15, <2>2, LinkMove DEF Advance, sessionVars, hostVars
<1>16. CASE Activate
  <2>1. io \in Job /\ io' = [io EXCEPT !.idx = io.idx + 1]
    BY <1>16, JobPc DEF Activate
  <2>2. io'.pc = "activate"
    BY <1>16, <2>1 DEF Activate, Job
  <2>3. \A c \in Clients, s \in Streams : HasNet(c, s)' <=> HasNet(c, s)
    BY <1>16, ActivateNet DEF Activate
  <2> QED  BY <1>16, <2>2, <2>3 DEF Activate, LinkInv, Halfway, hostVars
<1>17. CASE TearDel
  <2>1. io \in Job /\ io' = [io EXCEPT !.pc = "unobserve", !.status = io.status]
    BY <1>17, JobPc DEF TearDel, Goto
  <2>2. io.client \in Clients /\ io.idx \in Streams
    BY <1>17, <2>1 DEF TearDel, Job, TypeOK, Streams
  <2>3. io'.pc = "unobserve" /\ io'.client = io.client /\ io'.idx = io.idx /\ io' \in Job
    BY <1>17, <2>1 DEF Job
  <2>4. \A c \in Clients, s \in Streams : HasNet(c, s)' <=> HasNet(c, s) /\ ~(c = io.client /\ s = io.idx)
    BY <1>17, <2>2 DEF TearDel, HasNet, TypeOK
  <2>5. \A c \in Clients, s \in Streams : ~Halfway(c, s)
    BY <1>17, <2>1 DEF TearDel, Halfway
  <2> QED  BY <1>17, <2>2, <2>3, <2>4, <2>5 DEF TearDel, LinkInv, Halfway, hostVars
<1>18. CASE Unobserve
  <2>1. io \in Job /\ io' = [io EXCEPT !.pc = "tear", !.idx = io.idx + 1]
    BY <1>18, JobPc DEF Unobserve
  <2>2. io.client \in Clients /\ io.idx \in Streams
    BY <1>18, <2>1 DEF Unobserve, Job, JobOK, TypeOK, Streams
  <2>3. io'.pc = "tear"
    BY <1>18, <2>1 DEF Job
  <2>4. \A c \in Clients, s \in Streams : Halfway(c, s) <=> c = io.client /\ s = io.idx
    BY <1>18, <2>1 DEF Unobserve, Halfway
  <2>5. \A c \in Clients, s \in Streams : HasNet(c, s)' <=> HasNet(c, s)
    BY <1>18 DEF Unobserve, HasNet
  <2>6. \A c \in Clients, s \in Streams : observers'[s][c] = IF c = io.client /\ s = io.idx THEN 0 ELSE observers[s][c]
    BY <1>18, <2>2 DEF Unobserve, TypeOK, Counts
  <2> QED  BY <1>18, <2>2, <2>3, <2>4, <2>5, <2>6 DEF Unobserve, LinkInv, Halfway, hostVars
<1>19. CASE Finish
  BY <1>19, LinkMove DEF Finish, Idle, linkVars, sessionVars, hostVars
<1>20. CASE IoExit
  BY <1>20, LinkMove DEF IoExit, Idle, Exited, linkVars, sessionVars, hostVars
<1>21. CASE StartPacket
  BY <1>21, LinkFrame DEF StartPacket, TypeOK, linkVars, sessionVars, hostVars
<1>22. ASSUME NEW c \in Clients, OnPacket(c) PROVE LinkInv'
  BY <1>22, LinkFrame DEF OnPacket, TypeOK, linkVars, sessionVars, hostVars
<1>23. CASE Send
  BY <1>23, LinkFrame DEF Send, TypeOK, linkVars, sessionVars, hostVars
<1>24. CASE EndPacket
  BY <1>24, LinkFrame DEF EndPacket, TypeOK, linkVars, sessionVars, hostVars
<1>25. CASE DestroyEnd
  BY <1>25, LinkFrame DEF DestroyEnd, TypeOK, linkVars, sessionVars, hostVars
<1>26. CASE Terminated
  BY <1>26, LinkFrame DEF Terminated, vars, TypeOK, linkVars, sessionVars, hostVars
<1> QED
  BY <1>1, <1>2, <1>3, <1>4, <1>5, <1>6, <1>7, <1>8, <1>9, <1>10,
     <1>11, <1>12, <1>13, <1>14, <1>15, <1>16, <1>17, <1>18, <1>19, <1>20,
     <1>21, <1>22, <1>23, <1>24, <1>25, <1>26
  DEF Next, IoStep, HostStep
-----------------------------------------------------------------------------
(* Deliveries.                                                                            *)

LEMMA StableFrame == StableDelivery /\ UNCHANGED <<net, observers, api>> => StableDelivery'
  BY DEF StableDelivery, Plays, HasNet

LEMMA StableStep == Typed /\ StableDelivery /\ [Next]_vars => StableDelivery'
<1> SUFFICES ASSUME Typed, StableDelivery, [Next]_vars PROVE StableDelivery'
  OBVIOUS
<1> USE DEF Typed
<1>1. CASE UNCHANGED vars
  BY <1>1, StableFrame DEF vars, linkVars, sessionVars, hostVars
<1>2. ASSUME NEW c \in Clients, Accept(c) PROVE StableDelivery'
  BY <1>2, StableFrame DEF Accept, linkVars, sessionVars, hostVars
<1>3. ASSUME NEW c \in Clients, PeerClose(c) PROVE StableDelivery'
  BY <1>3, StableFrame DEF PeerClose, linkVars, sessionVars, hostVars
<1>4. ASSUME NEW c \in Clients, ReadError(c) PROVE StableDelivery'
  BY <1>4, StableFrame DEF ReadError, linkVars, sessionVars, hostVars
<1>5. ASSUME NEW c \in Clients, NEW r \in Requests, Drop(c, r) PROVE StableDelivery'
  BY <1>5, StableFrame DEF Drop, Arrives, linkVars, sessionVars, hostVars
<1>6. ASSUME NEW c \in Clients, NEW r \in Requests, Receive(c, r) PROVE StableDelivery'
  BY <1>6, StableFrame DEF Receive, Arrives, sessionVars, hostVars
<1>7. CASE AddStream
  BY <1>7, StableFrame DEF AddStream, sessionVars
<1>8. ASSUME NEW s \in Streams, NEW k \in 1..MaxPackets, Push(s, k) PROVE StableDelivery'
  BY <1>8 DEF Push, StableDelivery
<1>9. CASE Destroy
  BY <1>9 DEF Destroy, StableDelivery, Stopping, Destroyed
<1>10. CASE SetupUnknown
  BY <1>10, StableFrame DEF SetupUnknown, linkVars, sessionVars, hostVars
<1>11. CASE SetupRefused
  BY <1>11, StableFrame DEF SetupRefused, linkVars, sessionVars, hostVars
<1>12. CASE SetupAdd
  <2>1. \A c \in Clients, s \in Streams : c # io.client => net'[c][s] = net[c][s]
    BY <1>12 DEF SetupAdd, AddNet, TypeOK
  <2>2. api.pc = "send" => api.client \in Clients /\ api.stream \in Streams
    BY <1>12, SendingPc DEF Sending
  <2> QED  BY <1>12, <2>1, <2>2 DEF SetupAdd, AddNet, ClientFree, StableDelivery, Plays, HasNet, hostVars
<1>13. CASE Observe
  <2>1. \A s \in Streams : s # io.req.stream => observers'[s] = observers[s]
    BY <1>13 DEF Observe, TypeOK
  <2>2. api.pc \in {"deliver", "send"} => api.stream \in Streams
    BY <1>13, SendingPc, DeliveryPc DEF Sending, Delivery
  <2> QED  BY <1>13, <2>1, <2>2 DEF Observe, StreamFree, StableDelivery, Plays, HasNet, hostVars
<1>14. CASE Reply
  BY <1>14, StableFrame DEF Reply, linkVars, sessionVars, hostVars
<1>15. CASE Advance
  BY <1>15, StableFrame DEF Advance, linkVars, sessionVars, hostVars
<1>16. CASE Activate
  <2>1. api.pc = "send" => api.client \in Clients /\ api.stream \in Streams
    BY <1>16, SendingPc DEF Sending
  <2> QED  BY <1>16, <2>1, ActivateNet DEF Activate, ClientFree, StableDelivery, Plays, HasNet, hostVars
<1>17. CASE TearDel
  <2>1. \A c \in Clients, s \in Streams : c # io.client => net'[c][s] = net[c][s]
    BY <1>17 DEF TearDel, TypeOK
  <2>2. api.pc = "send" => api.client \in Clients /\ api.stream \in Streams
    BY <1>17, SendingPc DEF Sending
  <2> QED  BY <1>17, <2>1, <2>2 DEF TearDel, ClientFree, StableDelivery, Plays, HasNet, hostVars
<1>18. CASE Unobserve
  <2>1. \A s \in Streams : s # io.idx => observers'[s] = observers[s]
    BY <1>18 DEF Unobserve, TypeOK
  <2>2. api.pc \in {"deliver", "send"} => api.stream \in Streams
    BY <1>18, SendingPc, DeliveryPc DEF Sending, Delivery
  <2> QED  BY <1>18, <2>1, <2>2 DEF Unobserve, StreamFree, StableDelivery, Plays, HasNet, hostVars
<1>19. CASE Finish
  BY <1>19, StableFrame DEF Finish, linkVars, sessionVars, hostVars
<1>20. CASE IoExit
  BY <1>20, StableFrame DEF IoExit, linkVars, sessionVars, hostVars
<1>21. CASE StartPacket
  <2>1. api \in Delivery
    BY <1>21, DeliveryPc DEF StartPacket
  <2>2. api'.pc = "deliver" /\ api'.stream \in Streams /\ api'.todo = observers[api'.stream]
    BY <1>21, <2>1 DEF StartPacket, Delivery
  <2>3. \A c \in Clients : observers[api'.stream][c] \in Nat
    BY <1>21, <2>2 DEF TypeOK, Counts
  <2> QED  BY <1>21, <2>2, <2>3 DEF StartPacket, StableDelivery, sessionVars
<1>22. ASSUME NEW c \in Clients, OnPacket(c) PROVE StableDelivery'
  <2>1. api \in Delivery
    BY <1>22, DeliveryPc DEF OnPacket
  <2>2. \A d \in Clients : api.todo[d] \in Nat /\ observers[api.stream][d] \in Nat
    BY <1>22, <2>1 DEF Delivery, TypeOK, Counts
  <2>3. \A d \in Clients : Visit(c)[d] <= api.todo[d]
    BY <1>22, <2>1, <2>2 DEF Visit, Delivery, Counts
  <2>4. api'.stream = api.stream /\ api'.todo = Visit(c)
    BY <1>22, <2>1 DEF OnPacket, SendTo, Delivery
  <2>5. api'.pc = "send" => api'.client = c /\ Plays(c, api.stream)
    BY <1>22, <2>1 DEF OnPacket, SendTo, Delivery
  <2>6. \A d \in Clients : Visit(c)[d] \in Nat
    BY <1>22, <2>1, <2>2 DEF OnPacket, Visit, Delivery, Counts
  <2>7. \A d \in Clients : api'.todo[d] <= observers'[api'.stream][d]
    BY <1>22, <2>2, <2>3, <2>4, <2>6 DEF OnPacket, StableDelivery, sessionVars
  <2> QED  BY <1>22, <2>4, <2>5, <2>7 DEF OnPacket, StableDelivery, Plays, HasNet, sessionVars
<1>23. CASE Send
  <2>1. api \in Sending
    BY <1>23, SendingPc DEF Send
  <2>2. api'.pc = "deliver" /\ api'.stream = api.stream /\ api'.todo = api.todo
    BY <1>23, <2>1 DEF Send, Sending
  <2> QED  BY <1>23, <2>2 DEF Send, StableDelivery
<1>24. CASE EndPacket
  <2>1. api \in Delivery
    BY <1>24, DeliveryPc DEF EndPacket
  <2>2. api'.pc \in {"packet", "idle"}
    BY <1>24, <2>1 DEF EndPacket, Delivery, Idle
  <2> QED  BY <1>24, <2>2 DEF EndPacket, StableDelivery
<1>25. CASE DestroyEnd
  BY <1>25 DEF DestroyEnd, StableDelivery, Stopping, Destroyed
<1>26. CASE Terminated
  BY <1>26, StableFrame DEF Terminated, vars, linkVars, sessionVars, hostVars
<1> QED
  BY <1>1, <1>2, <1>3, <1>4, <1>5, <1>6, <1>7, <1>8, <1>9, <1>10,
     <1>11, <1>12, <1>13, <1>14, <1>15, <1>16, <1>17, <1>18, <1>19, <1>20,
     <1>21, <1>22, <1>23, <1>24, <1>25, <1>26
  DEF Next, IoStep, HostStep
-----------------------------------------------------------------------------
(* How far a TEARDOWN has got.                                                            *)

LEMMA TearFrame == TearInv /\ UNCHANGED <<net, io>> => TearInv'
  BY DEF TearInv, HasNet, Covers

LEMMA TearStep == Typed /\ LinkInv /\ TearInv /\ [Next]_vars => TearInv'
<1> SUFFICES ASSUME Typed, LinkInv, TearInv, [Next]_vars PROVE TearInv'
  OBVIOUS
<1> USE DEF Typed
<1>1. CASE UNCHANGED vars
  BY <1>1, TearFrame DEF vars, linkVars, sessionVars, hostVars
<1>2. ASSUME NEW c \in Clients, Accept(c) PROVE TearInv'
  BY <1>2, TearFrame DEF Accept, linkVars, sessionVars, hostVars
<1>3. ASSUME NEW c \in Clients, PeerClose(c) PROVE TearInv'
  BY <1>3, TearFrame DEF PeerClose, linkVars, sessionVars, hostVars
<1>4. ASSUME NEW c \in Clients, ReadError(c) PROVE TearInv'
  BY <1>4, TearFrame DEF ReadError, linkVars, sessionVars, hostVars
<1>5. ASSUME NEW c \in Clients, NEW r \in Requests, Drop(c, r) PROVE TearInv'
  BY <1>5, TearFrame DEF Drop, Arrives, linkVars, sessionVars, hostVars
<1>6. ASSUME NEW c \in Clients, NEW r \in Requests, Receive(c, r) PROVE TearInv'
  <2>1. io' \in Job => io'.idx = 1 /\ io'.pc = StartOf(r) /\ io'.req = r
    BY <1>6 DEF Receive, Job
  <2>2. r.method = "TEARDOWN" => StartOf(r) \in {"tear", "thrown"}
    BY <1>6, SessionAssumption DEF StartOf, Request
  <2> QED  BY <1>6, <2>1, <2>2 DEF TearInv, Streams
<1>7. CASE AddStream
  BY <1>7, TearFrame DEF AddStream, sessionVars
<1>8. ASSUME NEW s \in Streams, NEW k \in 1..MaxPackets, Push(s, k) PROVE TearInv'
  BY <1>8, TearFrame DEF Push, linkVars, sessionVars, hostVars
<1>9. CASE Destroy
  BY <1>9, TearFrame DEF Destroy, linkVars, sessionVars, hostVars
<1>10. CASE SetupUnknown
  <2>1. io \in Job /\ io.req.method = "SETUP"
    BY <1>10, JobPc DEF SetupUnknown, JobOK
  <2>2. io'.req = io.req
    BY <1>10, <2>1 DEF SetupUnknown, AddNet, Goto, Job
  <2> QED  BY <1>10, <2>1, <2>2 DEF TearInv
<1>11. CASE SetupRefused
  <2>1. io \in Job /\ io.req.method = "SETUP"
    BY <1>11, JobPc DEF SetupRefused, JobOK
  <2>2. io'.req = io.req
    BY <1>11, <2>1 DEF SetupRefused, AddNet, Goto, Job
  <2> QED  BY <1>11, <2>1, <2>2 DEF TearInv
<1>12. CASE SetupAdd
  <2>1. io \in Job /\ io.req.method = "SETUP"
    BY <1>12, JobPc DEF SetupAdd, JobOK
  <2>2. io'.req = io.req
    BY <1>12, <2>1 DEF SetupAdd, AddNet, Goto, Job
  <2> QED  BY <1>12, <2>1, <2>2 DEF TearInv
<1>13. CASE Observe
  <2>1. io \in Job /\ io.req.method = "SETUP"
    BY <1>13, JobPc DEF Observe, JobOK
  <2>2. io'.req = io.req
    BY <1>13, <2>1 DEF Observe, AddNet, Goto, Job
  <2> QED  BY <1>13, <2>1, <2>2 DEF TearInv
<1>14. CASE Reply
  <2>1. io \in Job
    BY <1>14, JobPc DEF Reply
  <2>2. io'.req = io.req /\ io'.client = io.client /\ io'.pc \in {"activate", "finish"}
    BY <1>14, <2>1 DEF Reply, Goto, Job
  <2>3. io.req.method = "TEARDOWN" => io'.pc = "finish"
    BY <1>14, <2>1 DEF Reply, Goto, Job
  <2> QED  BY <1>14, <2>1, <2>2, <2>3 DEF Reply, TearInv, HasNet, Covers
<1>15. CASE Advance
  <2>1. io \in Job /\ io.client \in Clients /\ io.idx \in Nat /\ nstreams \in Nat
    BY <1>15, JobPc DEF Advance, Job, TypeOK
  <2>2. io'.req = io.req /\ io'.client = io.client
    BY <1>15, <2>1 DEF Advance, Goto, Job
  <2>3. UNCHANGED net
    BY <1>15 DEF Advance, sessionVars
  <2>4. CASE io.req.method # "TEARDOWN"
    BY <2>2, <2>4 DEF TearInv
  <2>5. CASE io.req.method = "TEARDOWN"
    <3>1. io.pc = "tear"
      BY <1>15, <2>1, <2>5 DEF Advance, JobOK
    <3>2. CASE io.idx > nstreams
      <4>1. io'.pc = "reply"
        BY <1>15, <2>1, <3>1, <3>2 DEF Advance, Goto, Job
      <4>2. \A s \in Streams : Covers(io.req, s) => ~HasNet(io.client, s)
        BY <2>1, <2>5, <3>1, <3>2 DEF TearInv, LinkInv, Streams
      <4> QED  BY <2>2, <2>3, <4>1, <4>2 DEF TearInv, HasNet, Covers
    <3>3. CASE io.idx <= nstreams
      <4>1. ~Covers(io.req, io.idx) /\ io'.pc = "tear" /\ io'.idx = io.idx + 1
        BY <1>15, <2>1, <3>1, <3>3 DEF Advance, Job
      <4>2. \A s \in Streams : s < io.idx + 1 => s < io.idx \/ s = io.idx
        BY <2>1 DEF Streams
      <4>3. \A s \in Streams : Covers(io.req, s) /\ s < io'.idx => ~HasNet(io.client, s)
        BY <2>1, <2>5, <3>1, <4>1, <4>2 DEF TearInv
      <4> QED  BY <2>2, <2>3, <4>1, <4>3 DEF TearInv, HasNet, Covers
    <3> QED  BY <2>1, <3>2, <3>3
  <2> QED  BY <2>4, <2>5
<1>16. CASE Activate
  <2>1. io \in Job /\ io.req.method = "PLAY"
    BY <1>16, JobPc DEF Activate, JobOK
  <2>2. io'.req = io.req
    BY <1>16, <2>1 DEF Activate, AddNet, Goto, Job
  <2> QED  BY <1>16, <2>1, <2>2 DEF TearInv
<1>17. CASE TearDel
  <2>1. io \in Job
    BY <1>17, JobPc DEF TearDel
  <2>2. io.client \in Clients /\ io.idx \in Nat /\ io.req.method = "TEARDOWN"
    BY <1>17, <2>1 DEF TearDel, Job, JobOK
  <2>3. io'.req = io.req /\ io'.client = io.client /\ io'.pc = "unobserve" /\ io'.idx = io.idx
    BY <1>17, <2>1 DEF TearDel, Goto, Job
  <2>4. \A s \in Streams : net'[io.client][s] \in {net[io.client][s], NoNet}
    BY <1>17, <2>2 DEF TearDel, TypeOK
  <2>5. \A s \in Streams : HasNet(io.client, s)' => HasNet(io.client, s)
    BY <1>17, <2>3, <2>4 DEF HasNet
  <2> QED  BY <1>17, <2>1, <2>2, <2>3, <2>5 DEF TearDel, TearInv, Covers
<1>18. CASE Unobserve
  <2>1. io \in Job
    BY <1>18, JobPc DEF Unobserve
  <2>2. io.idx \in Nat /\ io.req.method = "TEARDOWN" /\ ~HasNet(io.client, io.idx)
    BY <1>18, <2>1 DEF Unobserve, Job, JobOK, LinkInv, Streams, TypeOK
  <2>3. io'.req = io.req /\ io'.client = io.client /\ io'.pc = "tear" /\ io'.idx = io.idx + 1
    BY <1>18, <2>1 DEF Unobserve, Job
  <2>4. \A s \in Streams : s < io.idx + 1 => s < io.idx \/ s = io.idx
    BY <1>18, <2>2 DEF Streams
  <2> QED  BY <1>18, <2>1, <2>2, <2>3, <2>4 DEF Unobserve, TearInv, HasNet, Covers
<1>19. CASE Finish
  BY <1>19 DEF Finish, TearInv, Job, Idle
<1>20. CASE IoExit
  BY <1>20 DEF IoExit, TearInv, Job, Exited
<1>21. CASE StartPacket
  BY <1>21, TearFrame DEF StartPacket, linkVars, sessionVars, hostVars
<1>22. ASSUME NEW c \in Clients, OnPacket(c) PROVE TearInv'
  BY <1>22, TearFrame DEF OnPacket, linkVars, sessionVars, hostVars
<1>23. CASE Send
  BY <1>23, TearFrame DEF Send, linkVars, sessionVars, hostVars
<1>24. CASE EndPacket
  BY <1>24, TearFrame DEF EndPacket, linkVars, sessionVars, hostVars
<1>25. CASE DestroyEnd
  BY <1>25, TearFrame DEF DestroyEnd, linkVars, sessionVars, hostVars
<1>26. CASE Terminated
  BY <1>26, TearFrame DEF Terminated, vars, linkVars, sessionVars, hostVars
<1> QED
  BY <1>1, <1>2, <1>3, <1>4, <1>5, <1>6, <1>7, <1>8, <1>9, <1>10,
     <1>11, <1>12, <1>13, <1>14, <1>15, <1>16, <1>17, <1>18, <1>19, <1>20,
     <1>21, <1>22, <1>23, <1>24, <1>25, <1>26
  DEF Next, IoStep, HostStep
-----------------------------------------------------------------------------
(* What a SETUP has done when it is answered.                                             *)

LEMMA SetupFrame == SetupInv /\ UNCHANGED <<net, io>> => SetupInv'
  BY DEF SetupInv, HasNet

LEMMA SetupStep == Typed /\ LinkInv /\ SetupInv /\ [Next]_vars => SetupInv'
<1> SUFFICES ASSUME Typed, LinkInv, SetupInv, [Next]_vars PROVE SetupInv'
  OBVIOUS
<1> USE DEF Typed
<1>1. CASE UNCHANGED vars
  BY <1>1, SetupFrame DEF vars, linkVars, sessionVars, hostVars
<1>2. ASSUME NEW c \in Clients, Accept(c) PROVE SetupInv'
  BY <1>2, SetupFrame DEF Accept, linkVars, sessionVars, hostVars
<1>3. ASSUME NEW c \in Clients, PeerClose(c) PROVE SetupInv'
  BY <1>3, SetupFrame DEF PeerClose, linkVars, sessionVars, hostVars
<1>4. ASSUME NEW c \in Clients, ReadError(c) PROVE SetupInv'
  BY <1>4, SetupFrame DEF ReadError, linkVars, sessionVars, hostVars
<1>5. ASSUME NEW c \in Clients, NEW r \in Requests, Drop(c, r) PROVE SetupInv'
  BY <1>5, SetupFrame DEF Drop, Arrives, linkVars, sessionVars, hostVars
<1>6. ASSUME NEW c \in Clients, NEW r \in Requests, Receive(c, r) PROVE SetupInv'
  <2>1. io' \in Job => io'.pc = StartOf(r) /\ io'.req = r
    BY <1>6 DEF Receive, Job
  <2>2. io' \in Job => io'.status = IF StartOf(r) = "reply" THEN "200" ELSE "none"
    BY <1>6 DEF Receive, Job
  <2>3. r.method = "SETUP" => StartOf(r) # "reply"
    BY DEF StartOf
  <2> QED  BY <2>1, <2>2, <2>3 DEF SetupInv
<1>7. CASE AddStream
  BY <1>7, SetupFrame DEF AddStream, sessionVars
<1>8. ASSUME NEW s \in Streams, NEW k \in 1..MaxPackets, Push(s, k) PROVE SetupInv'
  BY <1>8, SetupFrame DEF Push, linkVars, sessionVars, hostVars
<1>9. CASE Destroy
  BY <1>9, SetupFrame DEF Destroy, linkVars, sessionVars, hostVars
<1>10. CASE SetupUnknown
  <2>1. io \in Job
    BY <1>10, JobPc DEF SetupUnknown
  <2>2. io'.status = "451"
    BY <1>10, <2>1 DEF SetupUnknown, Goto, Job
  <2> QED  BY <2>2 DEF SetupInv
<1>11. CASE SetupRefused
  <2>1. io \in Job
    BY <1>11, JobPc DEF SetupRefused
  <2>2. io'.status = "503"
    BY <1>11, <2>1 DEF SetupRefused, Goto, Job
  <2> QED  BY <2>2 DEF SetupInv
<1>12. CASE SetupAdd
  <2>1. io \in Job
    BY <1>12, JobPc DEF SetupAdd
  <2>2. io'.pc = "observe"
    BY <1>12, <2>1 DEF SetupAdd, AddNet, Goto, Job
  <2> QED  BY <2>2 DEF SetupInv
<1>13. CASE Observe
  <2>1. io \in Job /\ HasNet(io.client, io.req.stream)
    BY <1>13, JobPc DEF Observe, LinkInv
  <2>2. io'.req = io.req /\ io'.client = io.client
    BY <1>13, <2>1 DEF Observe, Goto, Job
  <2> QED  BY <1>13, <2>1, <2>2 DEF Observe, SetupInv, HasNet
<1>14. CASE Reply
  <2>1. io \in Job
    BY <1>14, JobPc DEF Reply
  <2>2. io'.req = io.req /\ io'.client = io.client /\ io'.status = io.status
    BY <1>14, <2>1 DEF Reply, Goto, Job
  <2> QED  BY <1>14, <2>1, <2>2 DEF Reply, SetupInv, HasNet
<1>15. CASE Advance
  <2>1. io \in Job /\ io.req.method # "SETUP"
    BY <1>15, JobPc DEF Advance, JobOK
  <2>2. io'.req = io.req
    BY <1>15, <2>1 DEF Advance, Goto, Job
  <2> QED  BY <2>1, <2>2 DEF SetupInv
<1>16. CASE Activate
  <2>1. io \in Job /\ io.req.method # "SETUP"
    BY <1>16, JobPc DEF Activate, JobOK
  <2>2. io'.req = io.req
    BY <1>16, <2>1 DEF Activate, Goto, Job
  <2> QED  BY <2>1, <2>2 DEF SetupInv
<1>17. CASE TearDel
  <2>1. io \in Job /\ io.req.method # "SETUP"
    BY <1>17, JobPc DEF TearDel, JobOK
  <2>2. io'.req = io.req
    BY <1>17, <2>1 DEF TearDel, Goto, Job
  <2> QED  BY <2>1, <2>2 DEF SetupInv
<1>18. CASE Unobserve
  <2>1. io \in Job /\ io.req.method # "SETUP"
    BY <1>18, JobPc DEF Unobserve, JobOK
  <2>2. io'.req = io.req
    BY <1>18, <2>1 DEF Unobserve, Goto, Job
  <2> QED  BY <2>1, <2>2 DEF SetupInv
<1>19. CASE Finish
  BY <1>19 DEF Finish, SetupInv, Job, Idle
<1>20. CASE IoExit
  BY <1>20 DEF IoExit, SetupInv, Job, Exited
<1>21. CASE StartPacket
  BY <1>21, SetupFrame DEF StartPacket, linkVars, sessionVars, hostVars
<1>22. ASSUME NEW c \in Clients, OnPacket(c) PROVE SetupInv'
  BY <1>22, SetupFrame DEF OnPacket, linkVars, sessionVars, hostVars
<1>23. CASE Send
  BY <1>23, SetupFrame DEF Send, linkVars, sessionVars, hostVars
<1>24. CASE EndPacket
  BY <1>24, SetupFrame DEF EndPacket, linkVars, sessionVars, hostVars
<1>25. CASE DestroyEnd
  BY <1>25, SetupFrame DEF DestroyEnd, linkVars, sessionVars, hostVars
<1>26. CASE Terminated
  BY <1>26, SetupFrame DEF Terminated, vars, linkVars, sessionVars, hostVars
<1> QED
  BY <1>1, <1>2, <1>3, <1>4, <1>5, <1>6, <1>7, <1>8, <1>9, <1>10,
     <1>11, <1>12, <1>13, <1>14, <1>15, <1>16, <1>17, <1>18, <1>19, <1>20,
     <1>21, <1>22, <1>23, <1>24, <1>25, <1>26
  DEF Next, IoStep, HostStep
-----------------------------------------------------------------------------
(* What the clients were told.                                                            *)

\* Every PLAY can be answered: check_request accepts it.  Without this hypothesis the claims
\* below are false: on_rtsp_play activates the streams of a PLAY that gets no answer.
PlaysAnswered == \A r \in Requests : r.method = "PLAY" => r.valid

LEMMA GrantFrame == GrantInv /\ UNCHANGED <<net, io, granted>> => GrantInv'
  BY DEF GrantInv, HasNet, Covers

LEMMA GrantQuiet ==
  GrantInv /\ UNCHANGED <<net, granted>> /\ io'.pc # "activate" => GrantInv'
  BY DEF GrantInv

LEMMA GrantStep == PlaysAnswered /\ Typed /\ TearInv /\ GrantInv /\ [Next]_vars => GrantInv'
<1> SUFFICES ASSUME PlaysAnswered, Typed, TearInv, GrantInv, [Next]_vars PROVE GrantInv'
  OBVIOUS
<1> USE DEF Typed
<1>1. CASE UNCHANGED vars
  BY <1>1, GrantFrame DEF vars, linkVars, sessionVars, hostVars
<1>2. ASSUME NEW c \in Clients, Accept(c) PROVE GrantInv'
  BY <1>2, GrantFrame DEF Accept, linkVars, sessionVars, hostVars
<1>3. ASSUME NEW c \in Clients, PeerClose(c) PROVE GrantInv'
  BY <1>3, GrantFrame DEF PeerClose, linkVars, sessionVars, hostVars
<1>4. ASSUME NEW c \in Clients, ReadError(c) PROVE GrantInv'
  BY <1>4, GrantFrame DEF ReadError, linkVars, sessionVars, hostVars
<1>5. ASSUME NEW c \in Clients, NEW r \in Requests, Drop(c, r) PROVE GrantInv'
  BY <1>5, GrantFrame DEF Drop, Arrives, linkVars, sessionVars, hostVars
<1>6. ASSUME NEW c \in Clients, NEW r \in Requests, Receive(c, r) PROVE GrantInv'
  BY <1>6, GrantQuiet DEF Receive, StartOf, Arrives, sessionVars
<1>7. CASE AddStream
  BY <1>7, GrantFrame DEF AddStream, sessionVars
<1>8. ASSUME NEW s \in Streams, NEW k \in 1..MaxPackets, Push(s, k) PROVE GrantInv'
  BY <1>8, GrantFrame DEF Push, linkVars, sessionVars, hostVars
<1>9. CASE Destroy
  BY <1>9, GrantFrame DEF Destroy, linkVars, sessionVars, hostVars
<1>10. CASE SetupUnknown
  <2>1. io'.pc = "reply"
    BY <1>10, JobPc DEF SetupUnknown, Goto, Job
  <2> QED  BY <1>10, <2>1, GrantQuiet DEF SetupUnknown, sessionVars
<1>11. CASE SetupRefused
  <2>1. io'.pc = "reply"
    BY <1>11, JobPc DEF SetupRefused, Goto, Job
  <2> QED  BY <1>11, <2>1, GrantQuiet DEF SetupRefused, sessionVars
<1>12. CASE SetupAdd
  <2>1. io'.pc = "observe"
    BY <1>12, JobPc DEF SetupAdd, AddNet, Goto, Job
  <2>2. \A c \in Clients, s \in Streams : net'[c][s].active => net[c][s].active
    BY <1>12 DEF SetupAdd, AddNet, TypeOK
  <2> QED  BY <1>12, <2>1, <2>2 DEF SetupAdd, AddNet, GrantInv
<1>13. CASE Observe
  <2>1. io'.pc = "reply"
    BY <1>13, JobPc DEF Observe, Goto, Job
  <2> QED  BY <1>13, <2>1, GrantQuiet DEF Observe
<1>14. CASE Reply
  <2>1. io \in Job
    BY <1>14, JobPc DEF Reply
  <2>2. io.client \in Clients /\ io.req \in Requests
    BY <1>14, <2>1 DEF Job
  <2>3. io'.req = io.req /\ io'.client = io.client /\ (io'.pc = "activate" => io.req.method = "PLAY")
    BY <1>14, <2>1 DEF Reply, Goto, Job
  <2>4. \A s \in Streams : net[io.client][s].active => HasNet(io.client, s)
    BY <1>14 DEF HasNet, NoNet
  <2>5. \A s \in Streams : net[io.client][s].active => s \in Told
    BY <1>14, <2>1, <2>2, <2>4 DEF Reply, Told, GrantInv, TearInv
  <2>6. io.req.method = "PLAY" => \A s \in Streams : Covers(io.req, s) /\ HasNet(io.client, s) => s \in Told
    BY <1>14, <2>1, <2>2 DEF Reply, Told, PlaysAnswered, JobOK
  <2>7. granted' = [granted EXCEPT ![io.client] = Told] /\ UNCHANGED net
    BY <1>14 DEF Reply
  <2> QED  BY <1>14, <2>2, <2>3, <2>5, <2>6, <2>7 DEF GrantInv, HasNet, Covers, TypeOK
<1>15. CASE Advance
  <2>1. io \in Job
    BY <1>15, JobPc DEF Advance
  <2>2. io'.pc = "activate" => io.pc = "activate" /\ io'.req = io.req /\ io'.client = io.client
    BY <1>15, <2>1 DEF Advance, Goto, Job
  <2> QED  BY <1>15, <2>2 DEF Advance, GrantInv, HasNet, Covers, sessionVars
<1>16. CASE Activate
  <2>1. io'.pc = "activate" /\ io'.req = io.req /\ io'.client = io.client
    BY <1>16, JobPc DEF Activate, Job
  <2>2. Covers(io.req, io.idx) /\ UNCHANGED granted
    BY <1>16 DEF Activate
  <2> QED  BY <1>16, <2>1, <2>2, ActivateNet DEF Activate, GrantInv, Covers
<1>17. CASE TearDel
  <2>1. io'.pc = "unobserve"
    BY <1>17, JobPc DEF TearDel, Goto, Job
  <2>2. \A c \in Clients, s \in Streams : net'[c][s].active => net[c][s].active
    BY <1>17 DEF TearDel, NoNet, TypeOK
  <2> QED  BY <1>17, <2>1, <2>2 DEF TearDel, GrantInv
<1>18. CASE Unobserve
  <2>1. io'.pc = "tear"
    BY <1>18, JobPc DEF Unobserve, Job
  <2> QED  BY <1>18, <2>1, GrantQuiet DEF Unobserve
<1>19. CASE Finish
  BY <1>19, GrantQuiet DEF Finish, Idle, sessionVars
<1>20. CASE IoExit
  BY <1>20, GrantQuiet DEF IoExit, Exited, sessionVars
<1>21. CASE StartPacket
  BY <1>21, GrantFrame DEF StartPacket, linkVars, sessionVars, hostVars
<1>22. ASSUME NEW c \in Clients, OnPacket(c) PROVE GrantInv'
  BY <1>22, GrantFrame DEF OnPacket, linkVars, sessionVars, hostVars
<1>23. CASE Send
  BY <1>23, GrantFrame DEF Send
<1>24. CASE EndPacket
  BY <1>24, GrantFrame DEF EndPacket, linkVars, sessionVars, hostVars
<1>25. CASE DestroyEnd
  BY <1>25, GrantFrame DEF DestroyEnd, linkVars, sessionVars, hostVars
<1>26. CASE Terminated
  BY <1>26, GrantFrame DEF Terminated, vars, linkVars, sessionVars, hostVars
<1> QED
  BY <1>1, <1>2, <1>3, <1>4, <1>5, <1>6, <1>7, <1>8, <1>9, <1>10,
     <1>11, <1>12, <1>13, <1>14, <1>15, <1>16, <1>17, <1>18, <1>19, <1>20,
     <1>21, <1>22, <1>23, <1>24, <1>25, <1>26
  DEF Next, IoStep, HostStep

\* The action of MediaOnlyWhenGranted.
MediaStep ==
    \A c \in Clients, s \in Streams :
        got'[c][s] # got[c][s] /\ got'[c][s] # NoSeq => s \in granted[c]

\* Only a packet sent and a new set-up change the last number.
LEMMA GotChanges == [Next]_vars => got' = got \/ Send \/ SetupAdd
  BY DEF Next, IoStep, HostStep, vars, sessionVars, hostVars, Accept, PeerClose, ReadError,
         Drop, Receive, Arrives, AddStream, Push, Destroy, SetupUnknown, SetupRefused,
         Observe, Reply, Advance, Activate, TearDel, Unobserve, Finish, IoExit, StartPacket,
         OnPacket, EndPacket, DestroyEnd, Terminated

LEMMA SetupForgets ==
  Typed /\ SetupAdd =>
    \A c \in Clients, s \in Streams : got'[c][s] # got[c][s] => got'[c][s] = NoSeq
<1> SUFFICES ASSUME Typed, SetupAdd
             PROVE  \A c \in Clients, s \in Streams : got'[c][s] # got[c][s] => got'[c][s] = NoSeq
  OBVIOUS
<1>1. got' = [got EXCEPT ![io.client][io.req.stream] = NoSeq]
  BY DEF SetupAdd, AddNet
<1> QED  BY <1>1 DEF Typed, TypeOK

LEMMA SendGives ==
  Typed /\ Send =>
    /\ api.client \in Clients /\ api.stream \in Streams
    /\ \A c \in Clients, s \in Streams :
         got'[c][s] = IF c = api.client /\ s = api.stream THEN seqno[s] ELSE got[c][s]
<1> SUFFICES ASSUME Typed, Send
             PROVE  /\ api.client \in Clients /\ api.stream \in Streams
                    /\ \A c \in Clients, s \in Streams :
                         got'[c][s] = IF c = api.client /\ s = api.stream
                                      THEN seqno[s] ELSE got[c][s]
  OBVIOUS
<1>1. api.client \in Clients /\ api.stream \in Streams
  BY SendingPc DEF Typed, Send, Sending
<1> QED  BY <1>1 DEF Send, Typed, TypeOK

LEMMA MediaGranted == Typed /\ StableDelivery /\ GrantInv /\ [Next]_vars => MediaStep
<1> SUFFICES ASSUME Typed, StableDelivery, GrantInv, [Next]_vars PROVE MediaStep
  OBVIOUS
<1>1. CASE Send
  <2>1. api.client \in Clients /\ api.stream \in Streams
    BY <1>1, SendGives
  <2>2. api.stream \in granted[api.client]
    BY <1>1, <2>1 DEF Send, StableDelivery, Plays, GrantInv
  <2> QED  BY <1>1, <2>2, SendGives DEF MediaStep
<1>2. CASE SetupAdd
  BY <1>2, SetupForgets DEF MediaStep
<1>3. CASE got' = got
  BY <1>3 DEF MediaStep
<1> QED  BY <1>1, <1>2, <1>3, GotChanges
-----------------------------------------------------------------------------
(* Reads.  A connection has none before it is accepted, nor does a request come from it.  *)

ReadsInv ==
    /\ OneReadWhileHeard
    /\ \A c \in Clients : conn[c] = "new" => reads[c] = 0
    /\ io \notin {Idle, Exited} => conn[io.client] # "new"

LEMMA ReadsFrame ==
  ASSUME ReadsInv, TypeOK, UNCHANGED <<conn, observer, reads>>,
         io' = io \/ (io \in Job /\ io'.client = io.client /\ io'.pc \notin {"idle", "exited"})
  PROVE  ReadsInv'
<1>1. io \in Job => io # Idle /\ io # Exited  BY DEF Job, Idle, Exited
<1>2. io'.pc \notin {"idle", "exited"} => io' # Idle /\ io' # Exited  BY DEF Idle, Exited
<1> QED  BY <1>1, <1>2 DEF ReadsInv, OneReadWhileHeard, TypeOK

LEMMA ReadsStep == Typed /\ ReadsInv /\ [Next]_vars => ReadsInv'
<1> SUFFICES ASSUME Typed, ReadsInv, [Next]_vars PROVE ReadsInv'
  OBVIOUS
<1> USE SessionAssumption DEF Typed
<1>1. CASE UNCHANGED vars
  BY <1>1, ReadsFrame DEF vars
<1>2. ASSUME NEW c \in Clients, Accept(c) PROVE ReadsInv'
  BY <1>2 DEF Accept, ReadsInv, OneReadWhileHeard, TypeOK, Idle, Exited, Job
<1>3. ASSUME NEW c \in Clients, PeerClose(c) PROVE ReadsInv'
  BY <1>3 DEF PeerClose, ReadsInv, OneReadWhileHeard, TypeOK
<1>4. ASSUME NEW c \in Clients, ReadError(c) PROVE ReadsInv'
  BY <1>4 DEF ReadError, ReadsInv, OneReadWhileHeard, TypeOK
<1>5. ASSUME NEW c \in Clients, NEW r \in Requests, Drop(c, r) PROVE ReadsInv'
  BY <1>5, ReadsFrame DEF Drop, Arrives
<1>6. ASSUME NEW c \in Clients, NEW r \in Requests, Receive(c, r) PROVE ReadsInv'
  <2>1. io = Idle /\ io'.client = c /\ io' # Idle /\ io' # Exited
    BY <1>6 DEF Receive, Arrives, StartOf, Idle, Exited
  <2>2. conn' = conn /\ observer' = observer /\ conn[c] = "open" /\ reads' = [reads EXCEPT ![c] = @ - 1]
    BY <1>6 DEF Receive, Arrives
  <2>3. observer[c] = "messager"  BY <1>6 DEF Receive
  <2> QED  BY <2>1, <2>2, <2>3 DEF ReadsInv, OneReadWhileHeard, TypeOK
<1>7. CASE AddStream
  BY <1>7, ReadsFrame DEF AddStream, linkVars
<1>8. ASSUME NEW s \in Streams, NEW k \in 1..MaxPackets, Push(s, k) PROVE ReadsInv'
  BY <1>8, ReadsFrame DEF Push, linkVars
<1>9. CASE Destroy
  BY <1>9, ReadsFrame DEF Destroy, linkVars
<1>10. CASE SetupUnknown
  <2>1. io \in Job  BY <1>10, JobPc DEF SetupUnknown
  <2>2. io'.client = io.client /\ io'.pc \notin {"idle", "exited"}
    BY <1>10, <2>1 DEF SetupUnknown, Goto, Job
  <2> QED  BY <1>10, <2>1, <2>2, ReadsFrame DEF SetupUnknown, linkVars
<1>11. CASE SetupRefused
  <2>1. io \in Job  BY <1>11, JobPc DEF SetupRefused
  <2>2. io'.client = io.client /\ io'.pc \notin {"idle", "exited"}
    BY <1>11, <2>1 DEF SetupRefused, Goto, Job
  <2> QED  BY <1>11, <2>1, <2>2, ReadsFrame DEF SetupRefused, linkVars
<1>12. CASE SetupAdd
  <2>1. io \in Job  BY <1>12, JobPc DEF SetupAdd
  <2>2. io'.client = io.client /\ io'.pc \notin {"idle", "exited"}
    BY <1>12, <2>1 DEF SetupAdd, AddNet, Goto, Job
  <2> QED  BY <1>12, <2>1, <2>2, ReadsFrame DEF SetupAdd, AddNet, linkVars
<1>13. CASE Observe
  <2>1. io \in Job  BY <1>13, JobPc DEF Observe
  <2>2. io'.client = io.client /\ io'.pc \notin {"idle", "exited"}
    BY <1>13, <2>1 DEF Observe, Goto, Job
  <2> QED  BY <1>13, <2>1, <2>2, ReadsFrame DEF Observe, linkVars
<1>14. CASE Reply
  <2>1. io \in Job  BY <1>14, JobPc DEF Reply
  <2>2. io'.client = io.client /\ io'.pc \notin {"idle", "exited"}
    BY <1>14, <2>1 DEF Reply, Goto, Job
  <2> QED  BY <1>14, <2>1, <2>2, ReadsFrame DEF Reply, linkVars
<1>15. CASE Advance
  <2>1. io \in Job  BY <1>15, JobPc DEF Advance
  <2>2. io'.client = io.client /\ io'.pc \notin {"idle", "exited"}
    BY <1>15, <2>1 DEF Advance, Goto, Job
  <2> QED  BY <1>15, <2>1, <2>2, ReadsFrame DEF Advance, linkVars
<1>16. CASE Activate
  <2>1. io \in Job  BY <1>16, JobPc DEF Activate
  <2>2. io'.client = io.client /\ io'.pc \notin {"idle", "exited"}
    BY <1>16, <2>1 DEF Activate, Job
  <2> QED  BY <1>16, <2>1, <2>2, ReadsFrame DEF Activate, linkVars
<1>17. CASE TearDel
  <2>1. io \in Job  BY <1>17, JobPc DEF TearDel
  <2>2. io'.client = io.client /\ io'.pc \notin {"idle", "exited"} /\ io.client \in Clients
    BY <1>17, <2>1 DEF TearDel, Goto, Job
  <2>3. CASE net[io.client][io.idx].kind = "tcp"
    <3>1. /\ conn' = conn
          /\ observer' = [observer EXCEPT ![io.client] = "null"]
          /\ reads' = [reads EXCEPT ![io.client] = @ + 1]
      BY <1>17, <2>3 DEF TearDel, Detach
    <3>2. io # Idle /\ io # Exited /\ io' # Idle /\ io' # Exited
      BY <2>1, <2>2 DEF Job, Idle, Exited
    <3> QED  BY <2>2, <3>1, <3>2 DEF ReadsInv, OneReadWhileHeard, TypeOK
  <2>4. CASE net[io.client][io.idx].kind # "tcp"
    BY <1>17, <2>1, <2>2, <2>4, ReadsFrame DEF TearDel, Detach
  <2> QED  BY <2>3, <2>4
<1>18. CASE Unobserve
  <2>1. io \in Job  BY <1>18, JobPc DEF Unobserve
  <2>2. io'.client = io.client /\ io'.pc \notin {"idle", "exited"}
    BY <1>18, <2>1 DEF Unobserve, Job
  <2> QED  BY <1>18, <2>1, <2>2, ReadsFrame DEF Unobserve, linkVars
<1>19. CASE Finish
  <2>1. io \in Job  BY <1>19, JobPc DEF Finish
  <2>2. io.client \in Clients /\ io # Idle /\ io # Exited /\ io' = Idle
    BY <1>19, <2>1 DEF Finish, Job, Idle, Exited
  <2>3. UNCHANGED <<conn, observer>> /\ reads' = [reads EXCEPT ![io.client] = @ + 1]
    BY <1>19 DEF Finish
  <2> QED  BY <2>2, <2>3 DEF ReadsInv, OneReadWhileHeard, TypeOK
<1>20. CASE IoExit
  BY <1>20 DEF IoExit, linkVars, ReadsInv, OneReadWhileHeard, Idle, Exited
<1>21. CASE StartPacket
  BY <1>21, ReadsFrame DEF StartPacket, linkVars
<1>22. ASSUME NEW c \in Clients, OnPacket(c) PROVE ReadsInv'
  BY <1>22, ReadsFrame DEF OnPacket, linkVars
<1>23. CASE Send
  BY <1>23, ReadsFrame DEF Send, linkVars
<1>24. CASE EndPacket
  BY <1>24, ReadsFrame DEF EndPacket, linkVars
<1>25. CASE DestroyEnd
  BY <1>25, ReadsFrame DEF DestroyEnd, linkVars
<1>26. CASE Terminated
  BY <1>26, ReadsFrame DEF Terminated, vars
<1> QED
  BY <1>1, <1>2, <1>3, <1>4, <1>5, <1>6, <1>7, <1>8, <1>9, <1>10,
     <1>11, <1>12, <1>13, <1>14, <1>15, <1>16, <1>17, <1>18, <1>19, <1>20,
     <1>21, <1>22, <1>23, <1>24, <1>25, <1>26
  DEF Next, IoStep, HostStep
-----------------------------------------------------------------------------
(* Sequence numbers.                                                                      *)

\* The packet being delivered is still to reach c.
Due(c, s) ==
    /\ api.pc \in {"deliver", "send"} /\ api.stream = s
    /\ api.todo[c] > 0 \/ (api.pc = "send" /\ api.client = c)

\* A client that plays has the stream's last number, or the one before it while the packet
\* with the last is due to it; it is due once, since no client is twice among the observers.
GapInv ==
    /\ \A c \in Clients, s \in Streams : observers[s][c] <= 1
    /\ io.pc = "observe" => ~net[io.client][io.req.stream].active
    /\ api.pc = "send" => api.todo[api.client] = 0
    /\ \A c \in Clients, s \in Streams : HasNet(c, s) /\ got[c][s] # NoSeq =>
         /\ net[c][s].active
         /\ seqno[s] = IF Due(c, s) THEN (got[c][s] + 1) % SeqMod ELSE got[c][s]

LEMMA GapFrame ==
  ASSUME GapInv, UNCHANGED <<net, observers, seqno, got>>,
         io' = io \/ io'.pc # "observe",
         api' = api \/ (api.pc \notin {"deliver", "send"} /\ api'.pc \notin {"deliver", "send"})
  PROVE  GapInv'
  BY DEF GapInv, Due, HasNet

LEMMA GapStep == Typed /\ LinkInv /\ StableDelivery /\ GapInv /\ [Next]_vars => GapInv'
<1> SUFFICES ASSUME Typed, LinkInv, StableDelivery, GapInv, [Next]_vars PROVE GapInv'
  OBVIOUS
<1> USE SessionAssumption DEF Typed
<1>1. CASE UNCHANGED vars
  BY <1>1, GapFrame DEF vars
<1>2. ASSUME NEW c \in Clients, Accept(c) PROVE GapInv'
  BY <1>2, GapFrame DEF Accept, sessionVars, hostVars
<1>3. ASSUME NEW c \in Clients, PeerClose(c) PROVE GapInv'
  BY <1>3, GapFrame DEF PeerClose, sessionVars, hostVars
<1>4. ASSUME NEW c \in Clients, ReadError(c) PROVE GapInv'
  BY <1>4, GapFrame DEF ReadError, sessionVars, hostVars
<1>5. ASSUME NEW c \in Clients, NEW r \in Requests, Drop(c, r) PROVE GapInv'
  BY <1>5, GapFrame DEF Drop, Arrives, sessionVars, hostVars
<1>6. ASSUME NEW c \in Clients, NEW r \in Requests, Receive(c, r) PROVE GapInv'
  BY <1>6, GapFrame DEF Receive, Arrives, StartOf, sessionVars, hostVars
<1>7. CASE AddStream
  BY <1>7, GapFrame DEF AddStream, sessionVars, hostVars
<1>8. ASSUME NEW s \in Streams, NEW k \in 1..MaxPackets, Push(s, k) PROVE GapInv'
  BY <1>8, GapFrame DEF Push, Idle, sessionVars, hostVars
<1>9. CASE Destroy
  BY <1>9, GapFrame DEF Destroy, Idle, Stopping, sessionVars, hostVars
<1>10. CASE SetupUnknown
  <2>1. io'.pc = "reply"
    BY <1>10, JobPc DEF SetupUnknown, Goto, Job
  <2> QED  BY <1>10, <2>1, GapFrame DEF SetupUnknown, sessionVars, hostVars
<1>11. CASE SetupRefused
  <2>1. io'.pc = "reply"
    BY <1>11, JobPc DEF SetupRefused, Goto, Job
  <2> QED  BY <1>11, <2>1, GapFrame DEF SetupRefused, sessionVars, hostVars
<1>12. CASE SetupAdd
  <2>1. io \in Job /\ io' = [io EXCEPT !.pc = "observe", !.status = "200"]
    BY <1>12, JobPc DEF SetupAdd, AddNet, Goto
  <2>2. io.client \in Clients /\ io.req.stream \in Streams
    BY <1>12, <2>1 DEF SetupAdd, Job, TypeOK, Streams
  <2>3. io'.client = io.client /\ io'.req = io.req
    BY <2>1 DEF Job
  <2>4. ~net'[io.client][io.req.stream].active /\ got'[io.client][io.req.stream] = NoSeq
    BY <1>12, <2>2 DEF SetupAdd, AddNet, TypeOK
  <2>5. \A c \in Clients, s \in Streams : c # io.client \/ s # io.req.stream =>
          net'[c][s] = net[c][s] /\ got'[c][s] = got[c][s]
    BY <1>12, <2>2 DEF SetupAdd, AddNet, TypeOK
  <2>6. UNCHANGED <<observers, api, seqno>>
    BY <1>12 DEF SetupAdd, AddNet, hostVars
  <2> QED  BY <2>2, <2>3, <2>4, <2>5, <2>6 DEF GapInv, Due, HasNet
<1>13. CASE Observe
  <2>1. io \in Job /\ io' = [io EXCEPT !.pc = "reply", !.status = io.status]
    BY <1>13, JobPc DEF Observe, Goto
  <2>2. io.client \in Clients /\ io.req.stream \in Streams /\ io'.pc = "reply"
    BY <1>13, <2>1 DEF Observe, Job, JobOK, TypeOK, Streams
  <2>3. \A c \in Clients, s \in Streams :
          observers'[s][c] = IF c = io.client /\ s = io.req.stream THEN 1 ELSE observers[s][c]
    BY <1>13, <2>2 DEF Observe, LinkInv, TypeOK, Counts
  <2>4. UNCHANGED <<net, got, api, seqno>>
    BY <1>13 DEF Observe, hostVars
  <2> QED  BY <2>2, <2>3, <2>4 DEF GapInv, Due, HasNet
<1>14. CASE Reply
  <2>1. io'.pc # "observe"
    BY <1>14, JobPc DEF Reply, Goto, Job
  <2> QED  BY <1>14, <2>1, GapFrame DEF Reply, hostVars
<1>15. CASE Advance
  <2>1. io'.pc # "observe"
    BY <1>15, JobPc DEF Advance, Goto, Job
  <2> QED  BY <1>15, <2>1, GapFrame DEF Advance, sessionVars, hostVars
<1>16. CASE Activate
  <2>1. io'.pc # "observe"
    BY <1>16, JobPc DEF Activate, Job
  <2>2. UNCHANGED <<observers, got, api, seqno>>
    BY <1>16 DEF Activate, hostVars
  <2> QED  BY <1>16, <2>1, <2>2, ActivateNet DEF GapInv, Due
<1>17. CASE TearDel
  <2>1. io \in Job /\ io' = [io EXCEPT !.pc = "unobserve", !.status = io.status]
    BY <1>17, JobPc DEF TearDel, Goto
  <2>2. io.client \in Clients /\ io.idx \in Streams /\ io'.pc = "unobserve"
    BY <1>17, <2>1 DEF TearDel, Job, TypeOK, Streams
  <2>3. \A c \in Clients, s \in Streams :
          net'[c][s] = IF c = io.client /\ s = io.idx THEN NoNet ELSE net[c][s]
    BY <1>17, <2>2 DEF TearDel, TypeOK
  <2>4. UNCHANGED <<observers, got, api, seqno>>
    BY <1>17 DEF TearDel, hostVars
  <2> QED  BY <2>2, <2>3, <2>4 DEF GapInv, Due, HasNet
<1>18. CASE Unobserve
  <2>1. io \in Job /\ io' = [io EXCEPT !.pc = "tear", !.idx = io.idx + 1]
    BY <1>18, JobPc DEF Unobserve
  <2>2. io.client \in Clients /\ io.idx \in Streams /\ io'.pc = "tear"
    BY <1>18, <2>1 DEF Unobserve, Job, JobOK, TypeOK, Streams
  <2>3. \A c \in Clients, s \in Streams :
          observers'[s][c] = IF c = io.client /\ s = io.idx THEN 0 ELSE observers[s][c]
    BY <1>18, <2>2 DEF Unobserve, TypeOK, Counts
  <2>4. UNCHANGED <<net, got, api, seqno>>
    BY <1>18 DEF Unobserve, hostVars
  <2> QED  BY <2>2, <2>3, <2>4 DEF GapInv, Due, HasNet
<1>19. CASE Finish
  BY <1>19, GapFrame DEF Finish, Idle, sessionVars, hostVars
<1>20. CASE IoExit
  BY <1>20, GapFrame DEF IoExit, Exited, sessionVars, hostVars
<1>21. CASE StartPacket
  <2>1. api \in Delivery /\ api.stream \in Streams /\ observers[api.stream] \in Counts
    BY <1>21, DeliveryPc DEF StartPacket, Delivery, TypeOK
  <2>2. api'.pc = "deliver" /\ api'.stream = api.stream /\ api'.todo = observers[api.stream]
    BY <1>21, <2>1 DEF StartPacket, Delivery
  <2>3. UNCHANGED <<net, observers, got, io>>
    BY <1>21 DEF StartPacket, sessionVars
  <2>4. seqno' = [seqno EXCEPT ![api.stream] = (seqno[api.stream] + 1) % SeqMod]
    BY <1>21 DEF StartPacket
  \* who plays observes the stream, so that the packet is due to it
  <2>5. ASSUME NEW c \in Clients, HasNet(c, api.stream), net[c][api.stream].active
        PROVE  observers[api.stream][c] = 1
    <3>1. ~Halfway(c, api.stream)
      BY <2>5 DEF Halfway, LinkInv, GapInv
    <3> QED  BY <2>1, <2>5, <3>1 DEF LinkInv
  <2>6. \A c \in Clients, s \in Streams : ~Due(c, s)
    BY <1>21 DEF StartPacket, Due
  <2>7. \A c \in Clients, s \in Streams : Due(c, s)' <=> s = api.stream /\ observers[s][c] > 0
    BY <2>2 DEF Due
  <2>8. ASSUME NEW c \in Clients, NEW s \in Streams, HasNet(c, s), got[c][s] # NoSeq
        PROVE  /\ net[c][s].active
               /\ seqno'[s] = IF Due(c, s)' THEN (got[c][s] + 1) % SeqMod ELSE got[c][s]
    <3>1. net[c][s].active /\ seqno[s] = got[c][s]
      BY <2>6, <2>8 DEF GapInv
    <3>2. CASE s = api.stream
      BY <2>1, <2>4, <2>5, <2>7, <2>8, <3>1, <3>2 DEF TypeOK
    <3>3. CASE s # api.stream
      BY <2>1, <2>4, <2>7, <2>8, <3>1, <3>3 DEF TypeOK
    <3> QED  BY <3>2, <3>3
  <2> QED  BY <2>2, <2>3, <2>8 DEF GapInv, HasNet
<1>22. ASSUME NEW c \in Clients, OnPacket(c) PROVE GapInv'
  <2>1. api \in Delivery /\ api.stream \in Streams /\ api.todo \in Counts
    BY <1>22, DeliveryPc DEF OnPacket, Delivery
  <2>2. api.todo[c] = 1
    <3>1. observers[api.stream][c] \in Nat /\ observers[api.stream][c] <= 1
      BY <2>1 DEF GapInv, TypeOK, Counts
    <3>2. api.todo[c] \in Nat /\ api.todo[c] <= observers[api.stream][c] /\ api.todo[c] > 0
      BY <1>22, <2>1 DEF OnPacket, StableDelivery, Counts
    <3> QED  BY <3>1, <3>2
  <2>3. Visit(c) = [api.todo EXCEPT ![c] = 0]
    BY <2>1, <2>2 DEF Visit, Counts
  <2>4. UNCHANGED <<net, observers, got, io, seqno>>
    BY <1>22 DEF OnPacket, sessionVars
  <2>5. api'.stream = api.stream /\ api'.todo = [api.todo EXCEPT ![c] = 0]
    BY <1>22, <2>1, <2>3 DEF OnPacket, SendTo, Delivery
  <2>6. CASE Plays(c, api.stream)
    <3>1. api'.pc = "send" /\ api'.client = c
      BY <1>22, <2>6 DEF OnPacket, SendTo
    <3>2. \A d \in Clients, s \in Streams : Due(d, s)' <=> Due(d, s)
      BY <1>22, <2>1, <2>2, <2>5, <3>1 DEF OnPacket, Due, Counts
    <3>3. api'.todo[api'.client] = 0
      BY <2>1, <2>5, <3>1 DEF Counts
    <3> QED  BY <2>4, <3>2, <3>3 DEF GapInv, HasNet
  <2>7. CASE ~Plays(c, api.stream)
    <3>1. api'.pc = "deliver"
      BY <1>22, <2>1, <2>7 DEF OnPacket, Delivery
    <3>2. \A d \in Clients, s \in Streams : d # c \/ s # api.stream => (Due(d, s)' <=> Due(d, s))
      BY <1>22, <2>1, <2>5, <3>1 DEF OnPacket, Due, Counts
    <3>3. HasNet(c, api.stream) => got[c][api.stream] = NoSeq
      BY <2>1, <2>7 DEF Plays, GapInv
    <3> QED  BY <2>4, <3>1, <3>2, <3>3 DEF GapInv, HasNet
  <2> QED  BY <2>6, <2>7
<1>23. CASE Send
  <2>1. api \in Sending /\ api.client \in Clients /\ api.stream \in Streams /\ api.todo \in Counts
    BY <1>23, SendingPc DEF Send, Sending
  <2>2. api'.pc = "deliver" /\ api'.stream = api.stream /\ api'.todo = api.todo
    BY <1>23 DEF Send
  <2>3. UNCHANGED <<net, observers, io, seqno>>
    BY <1>23 DEF Send
  <2>4. \A c \in Clients, s \in Streams :
          got'[c][s] = IF c = api.client /\ s = api.stream THEN seqno[s] ELSE got[c][s]
    BY <1>23, SendGives
  <2>5. net[api.client][api.stream].active /\ api.todo[api.client] = 0
    BY <1>23 DEF Send, StableDelivery, Plays, GapInv
  <2>6. \A c \in Clients, s \in Streams : c = api.client /\ s = api.stream => ~Due(c, s)'
    BY <2>2, <2>5 DEF Due
  <2>7. \A c \in Clients, s \in Streams :
          c # api.client \/ s # api.stream => (Due(c, s)' <=> Due(c, s))
    BY <1>23, <2>2 DEF Send, Due
  <2> QED  BY <2>1, <2>2, <2>3, <2>4, <2>5, <2>6, <2>7 DEF GapInv, HasNet
<1>24. CASE EndPacket
  <2>1. api \in Delivery /\ api.todo \in Counts
    BY <1>24, DeliveryPc DEF EndPacket, Delivery
  <2>2. UNCHANGED <<net, observers, got, io, seqno>>
    BY <1>24 DEF EndPacket, sessionVars
  <2>3. api'.pc \notin {"deliver", "send"}
    BY <1>24, <2>1 DEF EndPacket, Idle, Delivery
  <2>4. \A c \in Clients, s \in Streams : ~Due(c, s) /\ ~Due(c, s)'
    BY <1>24, <2>1, <2>3 DEF EndPacket, Due, Counts
  <2> QED  BY <2>2, <2>3, <2>4 DEF GapInv, HasNet
<1>25. CASE DestroyEnd
  BY <1>25, GapFrame DEF DestroyEnd, Stopping, Destroyed, sessionVars, hostVars
<1>26. CASE Terminated
  BY <1>26, GapFrame DEF Terminated, vars, sessionVars, hostVars
<1> QED
  BY <1>1, <1>2, <1>3, <1>4, <1>5, <1>6, <1>7, <1>8, <1>9, <1>10,
     <1>11, <1>12, <1>13, <1>14, <1>15, <1>16, <1>17, <1>18, <1>19, <1>20,
     <1>21, <1>22, <1>23, <1>24, <1>25, <1>26
  DEF Next, IoStep, HostStep

\* The action of NoGap.
Consecutive ==
    \A c \in Clients, s \in Streams :
        got'[c][s] # got[c][s] /\ got[c][s] # NoSeq /\ got'[c][s] # NoSeq
           => got'[c][s] = (got[c][s] + 1) % SeqMod

LEMMA ConsecutiveStep ==
  Typed /\ StableDelivery /\ GapInv /\ [Next]_vars => Consecutive
<1> SUFFICES ASSUME Typed, StableDelivery, GapInv, [Next]_vars PROVE Consecutive
  OBVIOUS
<1>1. CASE Send
  <2>1. api.client \in Clients /\ api.stream \in Streams
    BY <1>1, SendGives
  <2>2. HasNet(api.client, api.stream) /\ Due(api.client, api.stream)
    BY <1>1, <2>1 DEF Send, StableDelivery, Plays, Due
  <2>3. got[api.client][api.stream] # NoSeq
          => seqno[api.stream] = (got[api.client][api.stream] + 1) % SeqMod
    BY <2>1, <2>2 DEF GapInv
  <2> QED  BY <1>1, <2>3, SendGives DEF Consecutive
<1>2. CASE SetupAdd
  BY <1>2, SetupForgets DEF Consecutive
<1>3. CASE got' = got
  BY <1>3 DEF Consecutive
<1> QED  BY <1>1, <1>2, <1>3, GotChanges
-----------------------------------------------------------------------------
(* The theorems.                                                                          *)

Inv == Typed /\ LinkInv /\ StableDelivery /\ TearInv /\ SetupInv

LEMMA InitInv == Init => Inv /\ GrantInv
<1> SUFFICES ASSUME Init PROVE Inv /\ GrantInv
  OBVIOUS
<1>1. Typed
  BY InitTyped
<1>2. LinkInv
  BY DEF Init, LinkInv, Halfway, HasNet, Job, Idle
<1>3. StableDelivery /\ TearInv /\ SetupInv
  BY DEF Init, StableDelivery, TearInv, SetupInv, Job, Idle
<1>4. GrantInv
  BY DEF Init, GrantInv, NoNet, Idle
<1> QED  BY <1>1, <1>2, <1>3, <1>4 DEF Inv

LEMMA SpecInv == Spec => []Inv
<1>1. Init => Inv  BY InitInv
<1>2. Inv /\ [Next]_vars => Inv'
  BY TypedStep, LinkStep, StableStep, TearStep, SetupStep DEF Inv
<1> QED  BY <1>1, <1>2, PTL DEF Spec

\* Between requests RTSPClient's netstreams and AVStream's observers agree, whatever requests,
\* valid or not, the clients send (on_rtsp_setup, on_rtsp_teardown): Linked in the runs.
THEOREM ListsAgree == Spec => []Linked
<1>1. Inv => Linked
  BY DEF Inv, LinkInv, Linked, Halfway, Job, Idle, Exited
<1> QED  BY <1>1, SpecInv, PTL

\* on_rtp_packet never reaches an observer that has been removed, nor sends by a netstream
\* that del_stream has deleted: StableDelivery in the runs.
THEOREM DeliveriesStable == Spec => []StableDelivery
<1>1. Inv => StableDelivery  BY DEF Inv
<1> QED  BY <1>1, SpecInv, PTL

\* A 200 is true when it is sent: after SETUP the client is linked to the stream, after TEARDOWN
\* to none it named (on_rtsp_setup, on_rtsp_teardown): AnswersTrue in the runs.
THEOREM AnswersAreTrue == Spec => []AnswersTrue
<1>1. ASSUME Inv, io.pc = "finish", io.status = "200" PROVE AnswersTrue
  <2> USE DEF Inv, Typed
  <2>1. io \in Job /\ io.client \in Clients
    BY <1>1, JobPc DEF Job
  <2>2. ASSUME NEW s \in Streams
        PROVE  observers[s][io.client] = IF HasNet(io.client, s) THEN 1 ELSE 0
    BY <1>1, <2>1 DEF LinkInv, Halfway
  <2>3. ASSUME io.req.method = "SETUP"
        PROVE  HasNet(io.client, io.req.stream) /\ observers[io.req.stream][io.client] > 0
    <3>1. io.req.stream \in 1..nstreams
      BY <1>1, <2>1, <2>3 DEF JobOK
    <3>2. io.req.stream \in Streams
      <4>1. nstreams \in Nat /\ MaxStreams \in Nat /\ nstreams <= MaxStreams
        BY <1>1, SessionAssumption DEF TypeOK
      <4> QED  BY <3>1, <4>1 DEF Streams
    <3>3. HasNet(io.client, io.req.stream)
      BY <1>1, <2>1, <2>3 DEF SetupInv
    <3> QED  BY <2>2, <3>2, <3>3
  <2>4. ASSUME io.req.method = "TEARDOWN", NEW s \in Streams, Covers(io.req, s)
        PROVE  ~HasNet(io.client, s) /\ observers[s][io.client] = 0
    <3>1. ~HasNet(io.client, s)
      BY <1>1, <2>1, <2>4 DEF TearInv
    <3> QED  BY <2>2, <3>1
  <2> QED  BY <2>3, <2>4 DEF AnswersTrue
<1>2. Inv => AnswersTrue
  BY <1>1 DEF AnswersTrue
<1> QED  BY <1>2, SpecInv, PTL

\* A connection the messager listens to has one read, or its request is being executed, for any
\* clients and requests (set_observer, on_read): OneReadWhileHeard in the runs.
THEOREM ReadsOnce == Spec => []OneReadWhileHeard
<1>1. Init => ReadsInv
  BY DEF Init, ReadsInv, OneReadWhileHeard
<1>2. Inv => Typed  BY DEF Inv
<1>3. Spec => []ReadsInv
  BY <1>1, <1>2, ReadsStep, SpecInv, PTL DEF Spec
<1>4. ReadsInv => OneReadWhileHeard  BY DEF ReadsInv
<1> QED  BY <1>3, <1>4, PTL

\* If every PLAY can be answered, media is handed to a client's transport only between the
\* answers to PLAY and TEARDOWN, for any number of clients and streams and any schedule of the
\* two threads: MediaOnlyWhenGranted in the runs.
THEOREM MediaGoverned == PlaysAnswered => (Spec => MediaOnlyWhenGranted)
<1> SUFFICES ASSUME PlaysAnswered PROVE Spec => MediaOnlyWhenGranted
  OBVIOUS
<1>1. Init => GrantInv  BY InitInv
<1>2. Inv /\ GrantInv /\ [Next]_vars => GrantInv'
  BY GrantStep DEF Inv
<1>3. Inv /\ GrantInv /\ [Next]_vars => [MediaStep]_vars
  BY MediaGranted DEF Inv
<1>4. Spec => [][MediaStep]_vars
  BY <1>1, <1>2, <1>3, SpecInv, PTL DEF Spec
<1> QED  BY <1>4 DEF MediaOnlyWhenGranted, MediaStep

\* A client that plays a stream is sent consecutive numbers across the wrap, whatever requests
\* of its own and of other clients are executed between and during the packets, for any number
\* of each (send_packet, on_rtp_packet, add_observer): NoGap in the runs.
THEOREM NumbersConsecutive == Spec => NoGap
<1>1. Init => GapInv
  BY DEF Init, GapInv, HasNet, Idle
<1>2. Inv /\ GapInv /\ [Next]_vars => GapInv'
  BY GapStep DEF Inv
<1>3. Inv /\ GapInv /\ [Next]_vars => [Consecutive]_vars
  BY ConsecutiveStep DEF Inv
<1>4. Spec => [][Consecutive]_vars
  BY <1>1, <1>2, <1>3, SpecInv, PTL DEF Spec
<1> QED  BY <1>4 DEF NoGap, Consecutive
============================================================================
