----------------------------- MODULE RTSPServer -----------------------------
(***************************************************************************)
(* The life of a server: RTSPLiveCreate and RTSPLiveDestroy (RTSPCore's    *)
(* build and tear, RTSPMessager's constructor and destructor), UTECore and *)
(* UTEAcceptor, and the reads and writes of its connections, on asio's     *)
(* scheduler and reactor.  What requests do to sessions is RTSPSession's   *)
(* subject, and how bytes are buffered UTETcpTransport's; here a request   *)
(* is read, answered by a write, and the next one is read.                 *)
(***************************************************************************)
EXTENDS EpollReactor

CONSTANTS
    Acceptor, Connections,  \* the descriptors: the listening socket, and one for each client
    Started                 \* the handler that UTECore::start dispatches

ASSUME ServerAssumption ==
    /\ Descriptors = {Acceptor} \cup Connections /\ Acceptor \notin Connections
    /\ Started \in Handlers

VARIABLES
    host,       \* where the host's thread is
    cond,       \* start()'s condition has been signalled
    m_messager, \* it has been assigned
    m_clients,  \* the messager's: connections whose transport it holds
    backlog,    \* connections made and not yet accepted
    peer,       \* the connection an accept has been performed for, or Nobody
    gone,       \* the clients that have closed or reset their connection
    active,     \* the connections whose m_active_request is being written
    called,     \* the completed operation's handler has been entered
    todo,       \* the operations the handler has yet to start
    dead        \* the process has been terminated

serverOnlyVars == <<host, cond, m_messager, m_clients, backlog, peer, gone, active, called, todo, dead>>
vars == <<schedulerVars, reactorOnlyVars, serverOnlyVars>>

\* none: before RTSPLiveCreate.  start()'s dispatched, spawned; the messager's create (the
\* acceptor), bind, listen, queue (the first accept), assign.  live, or threw.  RTSPLiveDestroy's
\* join, delete (the messager), shut; destroyed.
Creating   == {"dispatched", "spawned", "create", "bind", "listen", "queue", "assign"}
Destroying == {"join", "delete", "shut"}

Init ==
    /\ ReactorInit
    /\ host = "none" /\ cond = FALSE /\ m_messager = FALSE /\ m_clients = {}
    /\ backlog = {} /\ peer = Nobody /\ gone = {} /\ active = {}
    /\ called = FALSE /\ todo = <<>> /\ dead = FALSE

Made == backlog \cup m_clients \cup (IF peer = Nobody THEN {} ELSE {peer})

\* What may be left when an operation on d has been performed: data and room are used up or
\* not, the end of a connection stays, and so does a connection whose accept has failed.
Left(d, kinds) ==
    IF d \in gone \cup {Acceptor} THEN {can[d]} ELSE {can[d] \ some : some \in SUBSET kinds}
-----------------------------------------------------------------------------
\* The clients.

Connect(c) ==
    /\ host \in {"listen", "queue", "assign", "live"}
    /\ c \notin Made \cup gone
    /\ backlog' = backlog \cup {c}
    /\ Becomes(Acceptor, {"read"})
    /\ UNCHANGED <<host, cond, m_messager, m_clients, peer, gone, active, called, todo, dead>>

\* A request arrives, or the peer has taken what filled the socket's buffer.
Arrives(c, kind) ==
    /\ c \in Made \ gone
    /\ Becomes(c, {kind})
    /\ UNCHANGED serverOnlyVars

\* The client closes or resets: nothing blocks any more.
Goes(c) ==
    /\ c \in Made \ gone
    /\ gone' = gone \cup {c}
    /\ Becomes(c, Kinds)
    /\ UNCHANGED <<host, cond, m_messager, m_clients, backlog, peer, active, called, todo, dead>>
-----------------------------------------------------------------------------
\* RTSPLiveCreate.

Goto(place) ==
    /\ host' = place
    /\ UNCHANGED <<cond, m_messager, m_clients, backlog, peer, gone, active, called, todo, dead>>

\* UTECore::start, up to dispatch.
Build == host = "none" /\ Dispatch(Started) /\ Goto("dispatched") /\ UNCHANGED reactorOnlyVars

\* spawn.
Spawn == host = "dispatched" /\ Goto("spawned") /\ UNCHANGED <<schedulerVars, reactorOnlyVars>>

\* cond.wait returns.
StartEnds ==
    /\ host = "spawned" /\ cond
    /\ Goto("create")
    /\ UNCHANGED <<schedulerVars, reactorOnlyVars>>

\* UTEAcceptor::accept makes the first socket, and with it the reactor; the socket is opened,
CreateAcceptor == host = "create" /\ InitTask /\ Goto("bind") /\ UNCHANGED reactorOnlyVars
OpenAcceptor == host = "bind" /\ Acceptor \notin registered /\ Register(Acceptor) /\ UNCHANGED serverOnlyVars

\* reported as hung up until it listens,
HungUp == host = "bind" /\ Acceptor \in registered /\ Becomes(Acceptor, {"read"}) /\ UNCHANGED serverOnlyVars

\* and bound to the port, or not: an exception that nobody catches before the host does.
Bind ==
    /\ host = "bind" /\ Acceptor \in registered
    /\ Goto("listen") \/ Goto("threw")
    /\ Resets(Acceptor)

\* UTEAcceptor::listen.  The flags of the first accept reach start_op in the wrong order
\* (start_accept_op), so that it is queued without being tried.
Listen ==
    /\ host = "listen" /\ StartBlocks("host", Acceptor, "read", FALSE)
    /\ Goto("queue")
ListenQueues == host = "queue" /\ StartQueues("host") /\ Goto("assign")

BuildEnds ==
    /\ host = "assign" /\ host' = "live" /\ m_messager' = TRUE
    /\ UNCHANGED <<schedulerVars, reactorOnlyVars, cond, m_clients, backlog, peer, gone, active, called,
                   todo, dead>>
-----------------------------------------------------------------------------
\* push_stream writes to an interleaved client.

\* UTETcpTransport::write with nothing active: the attempt, by the host's thread.
HostWrites(c) ==
    /\ host = "live" /\ c \in m_clients \ active
    /\ active' = active \cup {c}
    /\ \/ \E left \in Left(c, {"write"}) : StartPerforms("host", c, "write", FALSE, left)
       \/ StartBlocks("host", c, "write", TRUE)
    /\ UNCHANGED <<host, cond, m_messager, m_clients, backlog, peer, gone, called, todo, dead>>

HostQueues == host = "live" /\ StartQueues("host") /\ UNCHANGED serverOnlyVars
-----------------------------------------------------------------------------
\* RTSPLiveDestroy.

\* Mutant of Destroy: the messager is deleted without waiting for the thread.
DestroyUnjoined ==
    /\ host = "live" /\ starting["host"] = Nobody
    /\ Stop
    /\ Goto("delete") /\ UNCHANGED reactorOnlyVars

\* tear: m_ute->stop().
Destroy ==
    /\ host = "live" /\ starting["host"] = Nobody
    /\ Stop
    /\ Goto("join") /\ UNCHANGED reactorOnlyVars

\* XUThreadBase::wait returns.
Join == host = "join" /\ thread = "ended" /\ Goto("delete") /\ UNCHANGED <<schedulerVars, reactorOnlyVars>>

\* ~RTSPMessager uses the iterator it has erased, when there is a client.
DeleteMessager ==
    /\ host = "delete"
    /\ \/ dead' = dead
       \/ m_clients # {} /\ dead' = TRUE
    /\ host' = "shut" /\ m_messager' = FALSE /\ m_clients' = {}
    /\ UNCHANGED <<schedulerVars, reactorOnlyVars, cond, backlog, peer, gone, active, called, todo>>

\* UTEDestroy: the io_service destroys what is queued.
UTEDestroy ==
    /\ host = "shut" /\ ShutdownService
    /\ Goto("destroyed")
-----------------------------------------------------------------------------
\* The service thread.  A new connection's descriptor is registered in the accept itself.

Running == host # "none" /\ host # "dispatched" /\ (peer = Nobody \/ peer \in registered)

RegisterPeer == peer # Nobody /\ Register(peer) /\ UNCHANGED serverOnlyVars

\* do_run_one, and epoll_wait.
Scheduled ==
    /\ Running
    /\ \/ /\ Enter \/ Leave \/ RunTask \/ RunHandler \/ Sleep \/ Awake \/ TaskCleanup
          /\ UNCHANGED reactorOnlyVars
       \/ Reported /\ Collect
    /\ UNCHANGED serverOnlyVars

\* pthread_cond_wait and epoll_wait return for nothing.
WakesForNothing ==
    /\ Running
    /\ \/ Spurious /\ UNCHANGED reactorOnlyVars
       \/ ~Reported /\ Collect
    /\ UNCHANGED serverOnlyVars

\* accept() takes a connection from the backlog.
Accepts(c) ==
    /\ c \in backlog /\ backlog' = backlog \ {c}
    /\ peer' = c
    /\ UNCHANGED <<host, cond, m_messager, m_clients, gone, active, called, dead>>

\* What an accept of c leaves the acceptor ready for.
LeftByAccept(c) == can[Acceptor] \ (IF backlog = {c} THEN {"read"} ELSE {})

\* The operations of a descriptor are tried.  accept() may fail (EMFILE, ENOBUFS): it is
\* completed with the error, and the connection stays in the backlog.
Performs ==
    /\ Running
    /\ \/ \E d \in Descriptors : \E left \in Left(d, Kinds) : Perform(d, left) /\ UNCHANGED serverOnlyVars
       \/ /\ "read" \in op_queue[Acceptor] \cap task_result_[Acceptor] \cap can[Acceptor]
          /\ \E c \in backlog : Perform(Acceptor, LeftByAccept(c)) /\ Accepts(c) /\ UNCHANGED todo

\* The handler of the completed operation begins.
Calls(op) ==
    /\ Running /\ thread = "complete" /\ completing = op /\ ~called
    /\ called' = TRUE
    /\ UNCHANGED <<schedulerVars, reactorOnlyVars>>

\* UTECore::on_service_started.
OnServiceStarted ==
    /\ Calls(Started)
    /\ cond' = TRUE
    /\ UNCHANGED <<host, m_messager, m_clients, backlog, peer, gone, active, todo, dead>>

ToStart(d, kind, continuation) == [d |-> d, kind |-> kind, continuation |-> continuation]

\* UTEAcceptor::on_accept, RTSPMessager::on_accept, set_observer: read, and accept the next.
\* Two strands may share their implementation, then the read counts as a continuation.
OnAccept ==
    /\ Calls(Op(Acceptor, "read")) /\ peer # Nobody
    /\ m_clients' = m_clients \cup {peer} /\ peer' = Nobody
    /\ \E shared \in BOOLEAN :
        todo' = <<ToStart(peer, "read", shared), ToStart(Acceptor, "read", TRUE)>>
    /\ UNCHANGED <<host, cond, m_messager, backlog, gone, active, dead>>

\* on_accept does not look at its error: when the accept has failed there is no socket and
\* local_endpoint() throws; when the peer has gone, remote_endpoint().  Out of run(), and of
\* the thread.
AcceptThrows ==
    /\ Calls(Op(Acceptor, "read")) /\ (peer = Nobody \/ peer \in gone)
    /\ dead' = TRUE
    /\ UNCHANGED <<host, cond, m_messager, m_clients, backlog, peer, gone, active, todo>>

\* RTSPMessager::on_recv: a request is answered, at once or behind what is active, or there is
\* none to be executed (a fragment, or what does not parse); and UTETransport::on_read: the
\* next read.
OnRead(c) ==
    /\ Calls(Op(c, "read"))
    /\ \/ /\ m_messager
          /\ c \notin active /\ active' = active \cup {c}
          /\ todo' = <<ToStart(c, "write", TRUE), ToStart(c, "read", TRUE)>>
       \/ UNCHANGED active /\ todo' = <<ToStart(c, "read", TRUE)>>
    /\ UNCHANGED <<host, cond, m_messager, m_clients, backlog, peer, gone, dead>>

\* A request that is executed before build has assigned the messager it is answered through.
OnReadEarly(c) ==
    /\ Calls(Op(c, "read")) /\ ~m_messager
    /\ dead' = TRUE
    /\ UNCHANGED <<host, cond, m_messager, m_clients, backlog, peer, gone, active, todo>>

\* A request whose Transport or url holds a number that std::stoi does not take
\* (parse_transport, get_stream_id): the exception leaves run().
OnReadThrows(c) ==
    /\ Calls(Op(c, "read"))
    /\ dead' = TRUE
    /\ UNCHANGED <<host, cond, m_messager, m_clients, backlog, peer, gone, active, todo>>

\* An error or the end of the connection: nothing.
OnReadError(c) ==
    /\ Calls(Op(c, "read")) /\ c \in gone
    /\ UNCHANGED <<host, cond, m_messager, m_clients, backlog, peer, gone, active, todo, dead>>

\* It has failed: nothing is written any more.
OnWriteError(c) ==
    /\ Calls(Op(c, "write")) /\ c \in gone
    /\ UNCHANGED <<host, cond, m_messager, m_clients, backlog, peer, gone, active, todo, dead>>

\* UTETcpTransport::on_write: what is pending, if anything, is written next.
OnWrite(c) ==
    /\ Calls(Op(c, "write"))
    /\ \/ active' = active \ {c} /\ UNCHANGED todo
       \/ UNCHANGED active /\ todo' = <<ToStart(c, "write", TRUE)>>
    /\ UNCHANGED <<host, cond, m_messager, m_clients, backlog, peer, gone, dead>>

\* The handler starts its next operation.
Starts ==
    /\ Running /\ todo # <<>> /\ starting["service"] = Nobody
    /\ LET s == Head(todo) IN
        \/ StartBlocks("service", s.d, s.kind, TRUE) /\ UNCHANGED serverOnlyVars
        \/ /\ todo' = Tail(todo)
           /\ \E left \in Left(s.d, {s.kind}) :
                StartPerforms("service", s.d, s.kind, s.continuation, left)
           /\ UNCHANGED <<host, cond, m_messager, m_clients, backlog, peer, gone, active, called, dead>>
        \/ /\ s.d = Acceptor
           /\ todo' = Tail(todo)
           /\ \E c \in backlog :
                /\ StartPerforms("service", Acceptor, "read", TRUE, LeftByAccept(c))
                /\ Accepts(c)

Queues ==
    /\ StartQueues("service") /\ todo' = Tail(todo)
    /\ UNCHANGED <<host, cond, m_messager, m_clients, backlog, peer, gone, active, called, dead>>

\* The handler returns.
Returns ==
    /\ Running /\ thread = "complete" /\ (called \/ completing = NoOp)
    /\ todo = <<>>
    /\ Completed
    /\ called' = FALSE
    /\ UNCHANGED <<reactorOnlyVars, host, cond, m_messager, m_clients, backlog, peer, gone, active, todo,
                   dead>>
-----------------------------------------------------------------------------
Service ==
    \/ RegisterPeer \/ Scheduled \/ Performs \/ Starts \/ Queues \/ Returns
    \/ OnServiceStarted \/ OnAccept \/ AcceptThrows
    \/ \E c \in Connections :
        \/ OnRead(c) \/ OnReadEarly(c) \/ OnReadThrows(c) \/ OnReadError(c)
        \/ OnWrite(c) \/ OnWriteError(c)

InCall ==
    \/ Spawn \/ StartEnds \/ CreateAcceptor \/ OpenAcceptor \/ Bind \/ Listen \/ ListenQueues \/ BuildEnds
    \/ HostQueues \/ Join \/ DeleteMessager \/ UTEDestroy

World ==
    \/ Build \/ Destroy \/ WakesForNothing \/ HungUp
    \/ \E c \in Connections :
        Connect(c) \/ Goes(c) \/ HostWrites(c) \/ \E kind \in Kinds : Arrives(c, kind)

\* Nothing more happens.
Terminated == (dead \/ host \in {"threw", "destroyed"}) /\ UNCHANGED vars

Next ==
    \/ ~dead /\ (Service \/ InCall \/ World)
    \/ Terminated

Spec == Init /\ [][Next]_vars

\* Threads inside a call or in run() go on; the clients do as they please, the host need not
\* create, write or destroy, and nobody wakes for nothing.
FairSpec == Spec /\ WF_vars(~dead /\ Service) /\ WF_vars(~dead /\ InCall)
-----------------------------------------------------------------------------
\* No handler runs while or after the objects it uses are deleted.
LivingObjects == host \in {"delete", "shut", "destroyed"} => thread = "ended"

\* run() does not return by itself, though the server may have nothing to wait for: svc's work
\* and the count of the operations that are queued or waiting keep it.  Once stopped it returns
\* before anything it uses is deleted.
RunsUntilStopped ==
    /\ thread = "ended" \/ stopped_ => host \in Destroying \cup {"destroyed"}
    /\ LivingObjects

\* RTSPLiveCreate returns or throws, RTSPLiveDestroy returns, unless the process is terminated.
CallsReturn ==
    /\ host \in Creating ~> host \in {"live", "threw"} \/ dead
    /\ host \in Destroying ~> host = "destroyed" \/ dead

\* What need not wait is not waited for: an operation on a descriptor that stays ready is
\* completed, unless the server is destroyed first.
OperationsComplete ==
    \A d \in Descriptors, kind \in Kinds :
        (kind \in op_queue[d] /\ kind \in can[d])
            ~> (kind \notin op_queue[d] \/ kind \notin can[d] \/ stopped_ \/ dead)
============================================================================
