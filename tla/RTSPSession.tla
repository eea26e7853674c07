---------------------------- MODULE RTSPSession ----------------------------
(***************************************************************************)
(* The RTSP server as its clients and its host see it: RTSPMessager        *)
(* receives and answers requests, RTSPCore executes them on RTSPClient and *)
(* AVStream, and the host pushes media through the same objects.           *)
(*                                                                         *)
(* Two threads run.  The UTE service thread ("io") accepts connections and *)
(* executes requests one at a time; it never takes RTSPCore::m_lock.  The  *)
(* host's thread ("api") calls add_stream, push_stream and RTSPLiveDestroy *)
(* under RTSPCore::m_lock, which makes several host threads one.           *)
(* They meet in AVStream::m_lock (observers), RTSPClient::m_lock (streams) *)
(* and RTSPCore::m_streams, which the io thread reads without a lock.      *)
(*                                                                         *)
(* Delivery holds the stream's lock over all observers and, nested in it,  *)
(* a client's lock over one: it is several steps.  The io thread's         *)
(* critical sections nest no modelled lock: each is one step that waits    *)
(* for the lock to be free.                                                *)
(***************************************************************************)
EXTENDS Naturals

CONSTANTS
    Clients,      \* the connections that may be made; each gets an RTSPClient of its own
    MaxStreams,   \* bound on add_stream
    Requests,     \* the requests clients may send, a subset of Request
    MaxRequests,  \* bound on the requests of one connection
    MaxPushes,    \* bound on push_stream
    MaxPackets,   \* bound on the RTP packets of one frame
    SeqMod,       \* number of RTP sequence numbers (2^16 in the code)
    MaxInt        \* the largest stream id std::stoi takes (2^31 - 1 in the code)

Streams == 1..MaxStreams      \* stream ids; m_streams holds them in this order
Every   == 0                  \* get_stream_id's -1: the url names no stream
Method  == {"OPTIONS", "DESCRIBE", "SETUP", "PLAY", "TEARDOWN"}

\* What the handlers tell apart in a request.  valid: check_request accepts it; transport:
\* what parse_transport makes of the Transport field of a SETUP, "range" if stoi or substr
\* throws out_of_range there.  A stream id that is no number stands beyond MaxInt.
Request == {r \in [method : Method, stream : Nat,
                   transport : {"none", "udp", "tcp", "bad", "range"}, valid : BOOLEAN] :
              r.method = "SETUP" <=> r.transport # "none"}

ASSUME SessionAssumption ==
    /\ MaxStreams \in Nat /\ MaxRequests \in Nat /\ MaxPushes \in Nat /\ MaxPackets \in Nat
    /\ SeqMod \in Nat \ {0} /\ MaxInt \in Nat
    /\ \A r \in Requests : r \in Request

VARIABLES
    nstreams,   \* m_streams is 1..nstreams
    conn,       \* [Clients -> state of the RTSP connection]
    observer,   \* [Clients -> who m_observer of the RTSP transport points to]
    reads,      \* [Clients -> number of asynchronous reads in progress on the RTSP transport]
    net,        \* [Clients -> [Streams -> RTSPClient::m_streams]]: "none", or the transport's
                \* kind and m_active
    observers,  \* [Streams -> AVStream::m_observers]: how many nodes of the list hold a client
    seqno,      \* [Streams -> AVStream::m_seqno]
    io,         \* the io thread: idle, exited, or the request it executes, or has thrown at
    api,        \* the host's thread: idle, destroyed, or the call it executes
    heard,      \* [Clients -> number of requests sent]
    pushes,     \* number of calls of push_stream
    granted,    \* history: the streams the client has been told, by the answers sent to it,
                \* to expect media of
    got         \* history: the sequence number last sent to the client on its present set-up

vars == <<nstreams, conn, observer, reads, net, observers, seqno, io, api, heard, pushes,
          granted, got>>

NoSeq   == SeqMod
NoNet   == [kind |-> "none", active |-> FALSE]
Net     == [kind : {"udp", "tcp"}, active : BOOLEAN] \cup {NoNet}
Idle    == [pc |-> "idle"]
Exited  == [pc |-> "exited"]
Job     == [pc : {"setup", "observe", "reply", "activate", "tear", "unobserve", "finish", "thrown"},
            client : Clients, req : Requests, idx : 1..MaxStreams + 1,
            status : {"none", "200", "451", "503"}]
Stopping  == [pc |-> "stopping"]
Destroyed == [pc |-> "destroyed"]
Counts    == [Clients -> Nat]
Delivery  == [pc : {"packet", "deliver"}, stream : Streams, left : 0..MaxPackets, todo : Counts]
Sending   == [pc : {"send"}, stream : Streams, left : 0..MaxPackets, todo : Counts,
              client : Clients]

TypeOK ==
    /\ nstreams \in 0..MaxStreams
    /\ conn \in [Clients -> {"new", "open", "closed"}]
    /\ observer \in [Clients -> {"messager", "null"}]
    /\ reads \in [Clients -> Nat]
    /\ net \in [Clients -> [Streams -> Net]]
    /\ observers \in [Streams -> Counts]
    /\ seqno \in [Streams -> 0..SeqMod - 1]
    /\ io \in Job \cup {Idle, Exited}
    /\ api \in Delivery \cup Sending \cup {Idle, Stopping, Destroyed}
    /\ heard \in [Clients -> 0..MaxRequests]
    /\ pushes \in 0..MaxPushes
    /\ granted \in [Clients -> SUBSET Streams]
    /\ got \in [Clients -> [Streams -> 0..SeqMod]]

\* RTSPLiveCreate has returned: the acceptor listens, nobody is connected.  m_seqno is random.
Init ==
    /\ nstreams = 0
    /\ conn = [c \in Clients |-> "new"]
    /\ observer = [c \in Clients |-> "null"]
    /\ reads = [c \in Clients |-> 0]
    /\ net = [c \in Clients |-> [s \in Streams |-> NoNet]]
    /\ observers = [s \in Streams |-> [c \in Clients |-> 0]]
    /\ seqno \in [Streams -> 0..SeqMod - 1]
    /\ io = Idle
    /\ api = Idle
    /\ heard = [c \in Clients |-> 0]
    /\ pushes = 0
    /\ granted = [c \in Clients |-> {}]
    /\ got = [c \in Clients |-> [s \in Streams |-> NoSeq]]
-----------------------------------------------------------------------------
(* Locks.  The host's thread holds the stream's lock while it delivers a packet and, in   *)
(* "send", the lock of the client it sends to.                                            *)

StreamFree(s) == api.pc \in {"deliver", "send"} => api.stream # s
ClientFree(c) == api.pc = "send" => api.client # c

Covers(r, s)  == r.stream \in {Every, s}
HasNet(c, s)  == net[c][s] # NoNet

sessionVars == <<net, observers, granted, got>>
hostVars    == <<nstreams, seqno, api, pushes>>
linkVars    == <<conn, observer, reads, heard>>
-----------------------------------------------------------------------------
(* The io thread: connections.                                                            *)

\* RTSPMessager::on_accept: a client object is made, then set_observer starts the first read.
Accept(c) ==
    /\ io = Idle /\ api # Stopping
    /\ conn[c] = "new"
    /\ conn' = [conn EXCEPT ![c] = "open"]
    /\ observer' = [observer EXCEPT ![c] = "messager"]
    /\ reads' = [reads EXCEPT ![c] = @ + 1]
    /\ UNCHANGED <<io, heard, sessionVars, hostVars>>

\* The peer closes the connection: an event of the outside world, not of the io thread.
PeerClose(c) ==
    /\ conn[c] = "open" /\ api # Destroyed
    /\ conn' = [conn EXCEPT ![c] = "closed"]
    /\ UNCHANGED <<observer, reads, io, heard, sessionVars, hostVars>>

\* UTETcpTransport::on_read with an error: no observer is told and no read follows.
ReadError(c) ==
    /\ io = Idle /\ api # Stopping
    /\ conn[c] = "closed" /\ reads[c] > 0
    /\ reads' = [reads EXCEPT ![c] = @ - 1]
    /\ UNCHANGED <<conn, observer, io, heard, sessionVars, hostVars>>

\* The client sends r and a read of the transport completes with it.
Arrives(c, r) ==
    /\ io = Idle /\ api # Stopping
    /\ conn[c] = "open" /\ reads[c] > 0
    /\ heard[c] < MaxRequests
    /\ heard' = [heard EXCEPT ![c] = @ + 1]
    /\ UNCHANGED <<conn, observer, sessionVars, hostVars>>

\* UTETransport::on_read without an observer: the bytes are consumed and read again.
Drop(c, r) ==
    /\ Arrives(c, r)
    /\ observer[c] = "null"
    /\ UNCHANGED <<io, reads>>

\* Where the dispatch of on_recv takes a request.  Nothing catches what parse_transport throws
\* unless it is invalid_argument ("bad"), nor what get_stream_id throws, which OPTIONS and
\* DESCRIBE do not call: the exception leaves the io thread and ends the process.
StartOf(r) ==
    IF r.transport = "bad" THEN "finish"
    ELSE IF r.transport = "range" \/ (r.method \notin {"OPTIONS", "DESCRIBE"} /\ r.stream > MaxInt)
    THEN "thrown"
    ELSE IF r.method = "SETUP" THEN "setup"
    ELSE IF r.method = "TEARDOWN" THEN "tear"
    ELSE "reply"

\* RTSPMessager::on_recv: dispatch to RTSPCore.  OPTIONS, DESCRIBE and PLAY answer first; a
\* SETUP whose transport does not parse is dropped without an answer.
Receive(c, r) ==
    /\ Arrives(c, r)
    /\ observer[c] = "messager"
    /\ reads' = [reads EXCEPT ![c] = @ - 1]
    /\ io' = [pc |-> StartOf(r), client |-> c, req |-> r, idx |-> 1,
              status |-> IF StartOf(r) = "reply" THEN "200" ELSE "none"]
-----------------------------------------------------------------------------
(* The io thread: requests.                                                               *)

Goto(pc, status) == io' = [io EXCEPT !.pc = pc, !.status = status]

\* RTSPCore::on_rtsp_setup for a stream m_streams does not hold.
SetupUnknown ==
    /\ io.pc = "setup" /\ io.req.stream \notin 1..nstreams
    /\ Goto("reply", "451")
    /\ UNCHANGED <<linkVars, sessionVars, hostVars>>

\* RTSPClient::add_stream finds the stream already added, or the UDP transport cannot be made.
SetupRefused ==
    /\ io.pc = "setup" /\ io.req.stream \in 1..nstreams
    /\ ClientFree(io.client)
    /\ HasNet(io.client, io.req.stream) \/ io.req.transport = "udp"
    /\ Goto("reply", "503")
    /\ UNCHANGED <<linkVars, sessionVars, hostVars>>

\* RTSPClient::add_stream up to the return: a netstream, active or not.
AddNet(active) ==
    /\ net' = [net EXCEPT ![io.client][io.req.stream] =
                 [kind |-> io.req.transport, active |-> active]]
    /\ got' = [got EXCEPT ![io.client][io.req.stream] = NoSeq]
    /\ Goto("observe", "200")
    /\ UNCHANGED <<linkVars, observers, granted, hostVars>>

\* Mutants of SetupAdd: m_active is not initialised; a second set-up is not noticed.
SetupAddActive ==
    /\ io.pc = "setup" /\ io.req.stream \in 1..nstreams
    /\ ClientFree(io.client)
    /\ ~HasNet(io.client, io.req.stream)
    /\ AddNet(TRUE)

SetupAddTwice ==
    /\ io.pc = "setup" /\ io.req.stream \in 1..nstreams
    /\ ClientFree(io.client)
    /\ AddNet(FALSE)

\* RTSPClient::add_stream succeeds: an inactive netstream.
SetupAdd ==
    /\ io.pc = "setup" /\ io.req.stream \in 1..nstreams
    /\ ClientFree(io.client)
    /\ ~HasNet(io.client, io.req.stream)
    /\ AddNet(FALSE)

\* AVStream::add_observer: push_back, whether the client is in the list or not.
Observe ==
    /\ io.pc = "observe"
    /\ StreamFree(io.req.stream)
    /\ observers' = [observers EXCEPT ![io.req.stream][io.client] = @ + 1]
    /\ Goto("reply", io.status)
    /\ UNCHANGED <<linkVars, net, granted, got, hostVars>>

\* What an answer tells the client about the media to expect.
Told ==
    LET c == io.client
        covered == {s \in Streams : Covers(io.req, s)}
    IN  IF io.status # "200" \/ ~io.req.valid THEN granted[c]
        ELSE IF io.req.method = "PLAY" THEN granted[c] \cup {s \in covered : HasNet(c, s)}
        ELSE IF io.req.method = "TEARDOWN" THEN granted[c] \ covered
        ELSE granted[c]

\* RTSPMessager::send_response, which sends nothing if check_request rejects the request;
\* the handler goes on all the same.
Reply ==
    /\ io.pc = "reply"
    /\ granted' = [granted EXCEPT ![io.client] = Told]
    /\ Goto(IF io.req.method = "PLAY" THEN "activate" ELSE "finish", io.status)
    /\ UNCHANGED <<linkVars, net, observers, got, hostVars>>

\* Mutants of Advance: the loop ends one stream early; the iterator stands still.
AdvanceEndsEarly ==
    /\ io.pc \in {"activate", "tear"}
    /\ IF io.idx >= nstreams
       THEN IF io.pc = "activate" THEN Goto("finish", io.status) ELSE Goto("reply", "200")
       ELSE ~Covers(io.req, io.idx) /\ io' = [io EXCEPT !.idx = @ + 1]
    /\ UNCHANGED <<linkVars, sessionVars, hostVars>>

AdvanceStands ==
    /\ io.pc \in {"activate", "tear"}
    /\ IF io.idx > nstreams
       THEN IF io.pc = "activate" THEN Goto("finish", io.status) ELSE Goto("reply", "200")
       ELSE ~Covers(io.req, io.idx) /\ UNCHANGED io
    /\ UNCHANGED <<linkVars, sessionVars, hostVars>>

\* One round of the loops of on_rtsp_play and on_rtsp_teardown over m_streams passes a stream
\* the request does not name, or finds the end.
Advance ==
    /\ io.pc \in {"activate", "tear"}
    /\ IF io.idx > nstreams
       THEN IF io.pc = "activate" THEN Goto("finish", io.status) ELSE Goto("reply", "200")
       ELSE ~Covers(io.req, io.idx) /\ io' = [io EXCEPT !.idx = @ + 1]
    /\ UNCHANGED <<linkVars, sessionVars, hostVars>>

\* RTSPClient::active_stream, on a stream the client has set up or not.
Activate ==
    /\ io.pc = "activate" /\ io.idx <= nstreams /\ Covers(io.req, io.idx)
    /\ ClientFree(io.client)
    /\ net' = IF HasNet(io.client, io.idx)
              THEN [net EXCEPT ![io.client][io.idx].active = TRUE]
              ELSE net
    /\ io' = [io EXCEPT !.idx = @ + 1]
    /\ UNCHANGED <<linkVars, observers, granted, got, hostVars>>

\* Mutant of Detach: the messager stays, as if the netstream had a transport of its own.
DetachReads(c, n) ==
    /\ reads' = IF n.kind = "tcp" THEN [reads EXCEPT ![c] = @ + 1] ELSE reads
    /\ UNCHANGED observer

\* What del_stream does to a netstream's transport.
Detach(c, n) ==
    IF n.kind = "tcp"
    THEN /\ observer' = [observer EXCEPT ![c] = "null"]
         /\ reads' = [reads EXCEPT ![c] = @ + 1]
    ELSE UNCHANGED <<observer, reads>>

\* Mutants of TearDel and Unobserve: the lock is not taken.
TearDelUnlocked ==
    /\ io.pc = "tear" /\ io.idx <= nstreams /\ Covers(io.req, io.idx)
    /\ Detach(io.client, net[io.client][io.idx])
    /\ net' = [net EXCEPT ![io.client][io.idx] = NoNet]
    /\ Goto("unobserve", io.status)
    /\ UNCHANGED <<conn, heard, observers, granted, got, hostVars>>

UnobserveUnlocked ==
    /\ io.pc = "unobserve"
    /\ observers' = [observers EXCEPT ![io.idx][io.client] = 0]
    /\ io' = [io EXCEPT !.pc = "tear", !.idx = @ + 1]
    /\ UNCHANGED <<linkVars, net, granted, got, hostVars>>

\* RTSPClient::del_stream.  The transport of an interleaved stream is the RTSP transport
\* itself: set_observer(nullptr) takes the messager off it and starts one more read.
TearDel ==
    /\ io.pc = "tear" /\ io.idx <= nstreams /\ Covers(io.req, io.idx)
    /\ ClientFree(io.client)
    /\ Detach(io.client, net[io.client][io.idx])
    /\ net' = [net EXCEPT ![io.client][io.idx] = NoNet]
    /\ Goto("unobserve", io.status)
    /\ UNCHANGED <<conn, heard, observers, granted, got, hostVars>>

\* AVStream::remove_observer: every node of the client goes.  Then the loop goes on.
Unobserve ==
    /\ io.pc = "unobserve"
    /\ StreamFree(io.idx)
    /\ observers' = [observers EXCEPT ![io.idx][io.client] = 0]
    /\ io' = [io EXCEPT !.pc = "tear", !.idx = @ + 1]
    /\ UNCHANGED <<linkVars, net, granted, got, hostVars>>

\* The handler returns and UTETransport::on_read reads again.
Finish ==
    /\ io.pc = "finish"
    /\ io' = Idle
    /\ reads' = [reads EXCEPT ![io.client] = @ + 1]
    /\ UNCHANGED <<conn, observer, heard, sessionVars, hostVars>>

\* io_service::stop: the thread ends after the handler it is in.
IoExit ==
    /\ io = Idle /\ api = Stopping
    /\ io' = Exited
    /\ UNCHANGED <<linkVars, sessionVars, hostVars>>
-----------------------------------------------------------------------------
(* The host's thread.                                                                     *)

\* RTSPCore::add_stream.
AddStream ==
    /\ api = Idle
    /\ nstreams < MaxStreams
    /\ nstreams' = nstreams + 1
    /\ UNCHANGED <<io, linkVars, sessionVars, seqno, api, pushes>>

\* RTSPCore::push_stream of a known stream; the packetizer makes n packets of the frame.
Push(s, n) ==
    /\ api = Idle
    /\ s <= nstreams
    /\ pushes < MaxPushes
    /\ pushes' = pushes + 1
    /\ api' = [pc |-> "packet", stream |-> s, left |-> n, todo |-> [c \in Clients |-> 0]]
    /\ UNCHANGED <<io, linkVars, sessionVars, nstreams, seqno>>

\* AVCStream::send_packet takes the next sequence number, AVStream::on_rtp_packet the lock.
StartPacket ==
    /\ api.pc = "packet" /\ api.left > 0
    /\ seqno' = [seqno EXCEPT ![api.stream] = (@ + 1) % SeqMod]
    /\ api' = [api EXCEPT !.pc = "deliver", !.left = @ - 1, !.todo = observers[api.stream]]
    /\ UNCHANGED <<io, linkVars, sessionVars, nstreams, pushes>>

Visit(c) == [api.todo EXCEPT ![c] = @ - 1]

Plays(c, s) == HasNet(c, s) /\ net[c][s].active

SendTo(c) == [pc |-> "send", stream |-> api.stream, left |-> api.left, todo |-> Visit(c),
              client |-> c]

\* Mutant of OnPacket: an inactive observer ends the delivery for those after it.
OnPacketGivesUp(c) ==
    /\ api.pc = "deliver" /\ api.todo[c] > 0
    /\ api' = IF Plays(c, api.stream)
              THEN SendTo(c)
              ELSE [api EXCEPT !.todo = [d \in Clients |-> 0]]
    /\ UNCHANGED <<io, linkVars, sessionVars, nstreams, seqno, pushes>>

\* RTSPClient::on_packet for the next observer, in an order no property tells apart: it takes
\* the client's lock and looks for an active netstream.
OnPacket(c) ==
    /\ api.pc = "deliver" /\ api.todo[c] > 0
    /\ api' = IF Plays(c, api.stream) THEN SendTo(c) ELSE [api EXCEPT !.todo = Visit(c)]
    /\ UNCHANGED <<io, linkVars, sessionVars, nstreams, seqno, pushes>>

\* The packet is handed to the transport, and the client's lock released.
Send ==
    /\ api.pc = "send"
    /\ got' = [got EXCEPT ![api.client][api.stream] = seqno[api.stream]]
    /\ api' = [pc |-> "deliver", stream |-> api.stream, left |-> api.left, todo |-> api.todo]
    /\ UNCHANGED <<io, linkVars, net, observers, granted, nstreams, seqno, pushes>>

\* Every observer has been served: the stream's lock is released.
EndPacket ==
    /\ api.pc = "deliver" /\ \A c \in Clients : api.todo[c] = 0
    /\ api' = IF api.left > 0 THEN [api EXCEPT !.pc = "packet"] ELSE Idle
    /\ UNCHANGED <<io, linkVars, sessionVars, nstreams, seqno, pushes>>

\* RTSPLiveDestroy: RTSPCore::tear stops UTE and waits for its thread, holding m_lock.
Destroy ==
    /\ api = Idle
    /\ api' = Stopping
    /\ UNCHANGED <<io, linkVars, sessionVars, nstreams, seqno, pushes>>

\* The thread has been joined; messager, UTE and encoder are deleted.
DestroyEnd ==
    /\ api = Stopping /\ io = Exited
    /\ api' = Destroyed
    /\ UNCHANGED <<io, linkVars, sessionVars, nstreams, seqno, pushes>>

Thrown == io.pc = "thrown"

Terminated == (api = Destroyed \/ Thrown) /\ UNCHANGED vars
-----------------------------------------------------------------------------
IoStep == SetupUnknown \/ SetupRefused \/ SetupAdd \/ Observe \/ Reply \/ Advance
          \/ Activate \/ TearDel \/ Unobserve \/ Finish \/ IoExit
HostStep == StartPacket \/ (\E c \in Clients : OnPacket(c)) \/ Send \/ EndPacket \/ DestroyEnd

Next ==
    \/ /\ ~Thrown
       /\ \/ \E c \in Clients : Accept(c) \/ PeerClose(c) \/ ReadError(c)
          \/ \E c \in Clients, r \in Requests : Drop(c, r) \/ Receive(c, r)
          \/ AddStream
          \/ \E s \in Streams, n \in 1..MaxPackets : Push(s, n)
          \/ Destroy
          \/ IoStep
          \/ HostStep
    \/ Terminated

Spec == Init /\ [][Next]_vars

\* A thread that has begun a request or a call goes on with it, and a read that failed
\* completes, while there is a process; nobody has to begin a request or a call.
FairSpec ==
    /\ Spec
    /\ WF_vars(IoStep) /\ WF_vars(~Thrown /\ HostStep)
    /\ \A c \in Clients : WF_vars(ReadError(c))
-----------------------------------------------------------------------------
\* RTSPClient's netstreams and AVStream's observers are two lists kept in step without a
\* common lock: whenever no request is being executed, a client observes a stream exactly
\* once if it has set it up, and not at all otherwise.
Linked ==
    io \in {Idle, Exited} =>
        \A c \in Clients, s \in Streams : observers[s][c] = IF HasNet(c, s) THEN 1 ELSE 0

\* on_rtp_packet walks the observers while other threads' requests add and remove them: a
\* node it has yet to visit is in the list, and the netstream it sends by exists and is
\* active until it has sent.
StableDelivery ==
    /\ api.pc \in {"deliver", "send"} =>
         \A c \in Clients : api.todo[c] <= observers[api.stream][c]
    /\ api.pc = "send" => Plays(api.client, api.stream)

\* What on_rtsp_setup and on_rtsp_teardown answer is what they did: after a 200 to SETUP the
\* client is linked to the stream and after a 200 to TEARDOWN to no stream it named.
AnswersTrue ==
    LET c == io.client
    IN  io.pc = "finish" /\ io.status = "200" =>
          /\ io.req.method = "SETUP" =>
               HasNet(c, io.req.stream) /\ observers[io.req.stream][c] > 0
          /\ io.req.method = "TEARDOWN" =>
               \A s \in Streams : Covers(io.req, s) => ~HasNet(c, s) /\ observers[s][c] = 0

\* set_observer and on_read each start a read whether one is in progress or not: a connection
\* the messager listens to has exactly one, or none while the request it has brought is executed.
\* Two would share m_read_buf, and with none the client would not be heard.
OneReadWhileHeard ==
    \A c \in Clients : observer[c] = "messager" /\ conn[c] = "open" =>
        reads[c] = IF io \notin {Idle, Exited} /\ io.client = c THEN 0 ELSE 1

\* Media flows only between an answered PLAY and the answered TEARDOWN ("first, send the play
\* ok response and then, send the media data"), though packets are sent by another thread.
MediaOnlyWhenGranted ==
    [][\A c \in Clients, s \in Streams :
         got'[c][s] # got[c][s] /\ got'[c][s] # NoSeq => s \in granted[c]]_vars

\* A client that plays a stream gets every packet of it in order: the numbers it is sent are
\* consecutive, while other observers come and go and across the wrap (AVStream::on_rtp_packet).
NoGap ==
    [][\A c \in Clients, s \in Streams :
         got'[c][s] # got[c][s] /\ got[c][s] # NoSeq /\ got'[c][s] # NoSeq
            => got'[c][s] = (got[c][s] + 1) % SeqMod]_vars

\* RTSPLiveDestroy returns whatever the threads were doing, since the io thread never waits for
\* the lock that tear holds while it joins that thread; unless an exception ends the process.
DestroyReturns == api = Stopping ~> api = Destroyed \/ Thrown
-----------------------------------------------------------------------------
(* What the repository says and the code does not do.                                     *)

\* "An OPTIONS request may be issued at any time" (RTSPMessager::fill_response): a client
\* that issues one is heard.
OptionsAtAnyTime ==
    [][\A c \in Clients, r \in Requests : r.method = "OPTIONS" => ~Drop(c, r)]_vars
=============================================================================
