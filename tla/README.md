# RTSPLive: a TLA+ model of the server

RTSPLive is a small RTSP/RTP server library. A host program creates a server,
adds H.264 streams and pushes frames; RTSP clients connect over TCP, set streams
up (RTP over UDP, or interleaved in the RTSP connection), play them and tear
them down. This directory models the server in TLA+, checks the models with TLC
and proves their main properties with TLAPS.

## 1. The system

Three threads matter. The **service thread** runs `asio::io_service::run`
(`UTECore::svc`): it accepts connections, receives requests, executes them and
runs the completions of writes. The **host's thread** calls the four functions of
`RTSPLive.h`; all but the creation take `RTSPCore::m_lock`, so several host
threads behave as one. The service thread never takes that lock. The **resolver's
thread** is asio's, and only turns a client's address into an endpoint for a UDP
transport. The first two meet in

- `AVStream::m_lock`, over the list of observers (held during a whole delivery),
- `RTSPClient::m_lock`, over the client's netstreams (nested in the former),
- `UTETcpTransport::m_lock`, over the two send buffers,
- `RTSPCore::m_streams` and the SDP text, which have no lock on the reading side,
- asio's scheduler and reactor: the host's thread dispatches, starts writes and
  stops, the service thread runs what is ready or sleeps.

### Inventory

| Component | State | Operations | Talks to | What makes it correct |
|---|---|---|---|---|
| `RTSPLive`, `RTSPCore` | streams, clients, session text, next payload type, next UDP port | build, tear, add_stream, push_stream; the handlers of SETUP, PLAY, TEARDOWN, DESCRIBE | owns all others; called by the host and, for requests, by `RTSPMessager` | an answer says what was done; destroying returns; media only between PLAY and TEARDOWN |
| `RTSPClient` | netstreams: stream, transport, active | add_stream (two forms), active_stream, del_stream, on_packet | called by `RTSPCore` and by `AVStream` | agrees with the observers of the streams; never sends by a deleted netstream |
| `AVStream` | observers, sequence number | add_observer, remove_observer, on_rtp_packet | calls `RTSPClient::on_packet` under its lock | each observer gets each packet once, whoever comes and goes |
| `AVCStream`, `RtpPacket` | parameter sets, first-frame flag, fragment buffer | push_frame, send_nalu, send_packet | `AVStream::on_rtp_packet` | a receiver rebuilds every NAL unit; marker and numbers are right; packets fit |
| `RTSPMessager`, `InterleavedFrame` | a client object per transport | on_accept, on_recv (parse, dispatch), send_response | `RTSPCore`, `UTETcpTransport` | each request is executed once with its own fields and answered once; answers have an end |
| `UTETcpTransport`, `UTETransport` | two send buffers, a read buffer, an observer | write, on_write, read, on_read, set_observer | asio; `RTSPMessager`, `RTSPClient` | messages leave whole and in order; one asynchronous operation of a kind at a time |
| `UTEUdpTransport` | socket, resolver | open, on_resolve, on_connect, send, read | asio; `RTSPClient` | packets reach the client's port; ports are released |
| `UTECore`, `UTEAcceptor` | io_service, acceptors, thread, started | start, stop, create_acceptor, create_transport, accept loop | `RTSPMessager` | `start` returns when the thread runs; nothing is deleted that is in use |
| `SDPEncoder` | the SDP text | add_media, base64 | `RTSPCore`, `AVCStream` | what is announced is what is sent |
| `XUMutexCondition`, `XURecursiveMutex`, `XUMutex` | a remembered signal, waiters; owner and nesting level | wait, signal; lock, unlock | everything that has a thread | a signal is not lost; one thread is in; a free lock is passed on |
| `XUThread` | number of threads, a condition for the join | spawn, svc, wait | `UTECore`, `XUFunctorCommandTask` | a join returns when the threads have ended |
| `XUFunctorCommandTask` | command queue, counted threads, exit flag | start, put, stop, svc | nobody in the server | a command taken is executed once; start and stop return |
| `AACStream`, `RtcpPacket` | none | `push_frame` is empty, `parse` returns an empty object | | |
| `XUStat`, `XULog`, `XUTime`, `XURefCount` | counters, text | | | |
| `RTSPRenderer`, `CLI` | example hosts | | `RTSPLive.h` | |
| `asio` (vendored): scheduler, epoll reactor | operation queues, work count, an event, descriptors with their queues | run, stop, dispatch, post, start an operation, perform it | called by both threads; the kernel | what becomes ready is executed once; no wake-up is lost; `run` ends when it is stopped |

Hard behaviour: deliveries on one thread through lists the other thread changes;
the completion of a write, which asio begins outside the transport's lock; a
transport shared by RTSP answers and interleaved media; requests that are
repeated, refused or malformed half-way, or cut and joined by TCP; a join while
holding a lock; conditions that remember one signal for any number of waiters; a scheduler
whose only thread sleeps in one of two places while others post and stop; a
reactor that is told of edges only; sockets that are opened by three threads;
and the arithmetic of fragments, base64 and sequence numbers. `PROJECT.json` lists each as a
hazard with its line, and the properties that cover it.

## 2. The modules

| Module | Models | Kind |
|---|---|---|
| `FifoChannel` | what a channel promises: messages accepted whole, units delivered in order | abstract specification |
| `UTETcpTransport` | the two send buffers and the completion of writes | component; implements `FifoChannel` |
| `UTETcpTransportProofs` | | theorems |
| `AVCStream`, `MCAVCStream` | the packetizer and an RFC 6184 receiver | component; with the receiver, implements `FifoChannel` |
| `AVCStreamProofs` | | theorems, of the description too |
| `SDPEncoder` | base64 and the parameters `add_media` announces of an `AVCStream` | pure operators over the component |
| `RTSPSession`, `MCRTSPSession` | `RTSPMessager`, `RTSPCore`, `RTSPClient` and `AVStream` together, on both threads | composition |
| `RTSPSessionProofs` | | theorems |
| `Executor` | what `io_service` promises with one thread: what is ready is executed once, in order, until it is stopped | abstract specification |
| `TaskIoService` | asio's scheduler: `task_io_service` and its event | component; implements `Executor` |
| `EpollReactor` | asio's `epoll_reactor`: operations on descriptors | component on `TaskIoService` |
| `RTSPServer` | `RTSPLiveCreate` and `RTSPLiveDestroy`, `UTECore`, `UTEAcceptor`, `RTSPMessager`'s life, reads and writes of connections | composition on `EpollReactor` |
| `RTSPServerProofs` | | theorems, of the reactor for any callers too |
| `DatagramLink` | what a UDP transport promises: from its connect on, packets in order and none twice | abstract specification |
| `UTEUdpTransport` | the port of a SETUP, the socket, the resolver, the read, the packets | component; implements `DatagramLink` |
| `UTEUdpTransportProofs` | | theorems |
| `RTSPFraming` | requests, frames and answers on a byte stream: `create_request`, `fill_response`, `InterleavedFrame::parse` | component |
| `RTSPFramingProofs` | | theorems |
| `RememberedSignal` | what a condition promises: one signal, kept until one wait uses it | abstract specification |
| `XUMutexCondition` | the condition on pthreads | component; implements `RememberedSignal` |
| `XURecursiveMutex` | the recursive lock | component over `RememberedSignal` |
| `XUMutex` | the lock on the condition it is built on | composition of the two; implements `XURecursiveMutex` and `RememberedSignal` |
| `XURecursiveMutexProofs` | | theorems, of the condition and of the composition too |
| `XUFunctorCommandTask` | the thread pool and `XUThread` | component over `RememberedSignal` |
| `XUFunctorCommandTaskProofs` | | theorems |

### UTETcpTransport

`buf` holds the two `streambuf`s, `active` says which one `m_active_request`
points to. A message is a payload cut into `MsgUnits` units, the granularity at
which a send can fail. `Write(t, p)` is `write()`, by the service thread or by
the host's. asio's side is `Transfer` (the socket takes a unit), `Consume` (the
composed operation ends and drops the sent bytes **without** the lock) and
`OnWrite` (the handler, with the lock): a `Write` of the host may come between
the last two. The service thread is not inside a completion while it answers a
request, so its writes may not.

`accepted` and `wire` are history variables, and the refinement mapping takes them
for `FifoChannel`'s two variables.

### AVCStream

`PushFrame(f)` is `push_frame` up to the list of units it will send: the frame is
turned into bytes in the announced packaging (`FrameBytes`) and scanned by
`AnnexB` or `Avcc`, which follow the source's offsets. `SendSingle` and
`SendFragment` are one packet each, i.e. `send_nalu`'s two branches and
`send_packet`; `left` is `data_len` of the loop. The receiver (`Unpack`) is what
RFC 6184 prescribes: it rebuilds the first octet of a fragmented unit from its
`nri` and `type`. `accepted` and `rebuilt` are histories of what the host gave and
what the receiver has; they are `FifoChannel`'s variables under the mapping.

### SDPEncoder

Extends `AVCStream`, whose `sps` and `pps` it reads as `add_media` does. A base64
character is its value. `Base64Decode` is the function the class has and never
calls; a client's decoder does the same, so it serves as the reader's side of
`AnnouncedIsSent`, which relates the description to the packets of the model.

### RTSPSession

Each thread has a program counter: `io` is idle, exited, or the request it is
executing (`pc`, client, request, position in `m_streams`, status so far); `api`
is idle, destroyed, or the call it is executing (a delivery with the nodes it has
yet to visit, or `tear` waiting for the thread).

| Code | Actions |
|---|---|
| `RTSPMessager::on_accept` | `Accept` |
| `RTSPMessager::on_recv`, `UTETransport::on_read` | `Receive`, `Drop` (no observer), `ReadError`, `Finish` (the next read) |
| `RTSPCore::on_rtsp_setup`, `RTSPClient::add_stream` | `SetupUnknown` (451), `SetupRefused` (503), `SetupAdd`, then `Observe` |
| `RTSPMessager::send_response` | `Reply` |
| `RTSPCore::on_rtsp_play` | `Reply`, then `Activate` / `Advance` per stream |
| `RTSPCore::on_rtsp_teardown` | `TearDel`, `Unobserve` / `Advance` per stream, then `Reply` |
| `UTECore::stop`, `svc` | `IoExit` |
| `RTSPCore::add_stream`, `push_stream`, `tear` | `AddStream`, `Push`, `Destroy`, `DestroyEnd` |
| `AVStream::on_rtp_packet`, `RTSPClient::on_packet` | `StartPacket`, `OnPacket`, `Send`, `EndPacket` |

A delivery holds the stream's lock throughout, and a client's lock from the test
of `m_active` to the end of `send()`; those locks are the predicates `StreamFree`
and `ClientFree`. The service thread's critical sections nest no modelled lock,
so each is one step that waits for its lock. `net[c][s]` is the client's
netstream, `observers[s][c]` how many nodes of the stream's list hold the
client (`add_observer` does not look whether it is there already); the order of
the list is left open. `granted` and `got` are histories: what the client has
been told, and the last sequence number it was sent.

What a request is to the handlers is a record: method, the stream the URL names
(0 for none), the transport `parse_transport` found, and whether `check_request`
lets an answer out. UDP transports may fail to be made at any SETUP. A number that
`std::stoi` does not take, in the URL or in Transport, throws out of the service
thread and ends the process: `StartOf` says `"thrown"`, and nothing follows
(`Thrown`). `MaxInt` is the largest stream id that `stoi` takes; one that is not a
number stands beyond it.

### RTSPFraming

Messages are sent one after the other into `coming`; `Read(n)` hands any number
of units of it to `on_recv`, which is all TCP promises. Text is not modelled
character by character: a line has two parts and its CR and LF, so that a chunk
may end inside a line, between CR and LF and between lines. A unit is named by its
message and its place in it; `Line` and `Part` say what stands there. `Lines` is where
`create_request` finds lines in a chunk, `Field` what `get_field` finds (`std::map`
keeps the first of a name), `Checked` is `check_request`, and `Fill` says which
lines each branch of `fill_response` writes. `executed` remembers for each field
of an executed request which message it came from.

### TaskIoService, EpollReactor

asio is vendored, so that the scheduler the server stands on is part of the
repository; it is modelled as it is built for Linux, with one thread in `run()`.
The scheduler's queue holds operations; the reactor itself is one of them
(`TaskOp`), and so is a descriptor that has an event. `thread` says where the thread
of `run()` is: about to look, asleep on the event, inside the reactor without or
with leave to block, behind it, or completing an operation. The reactor's
`interrupter` and the event's `signalled` are the two ways to wake it.

| Code | Definitions |
|---|---|
| `task_io_service::run`, `do_run_one` | `Enter`, `EnterIdle`, `RunTask`, `RunHandler`, `Sleep`, `Awake` (and `Spurious`), `Leave` |
| `task_cleanup`, `work_cleanup` | `TaskCleanup`, `WorkCleanup`, `Completed` |
| `post_immediate_completion`, `post_deferred_completions`, `dispatch` | `PostImmediate`, `Push`, `Dispatch` |
| `wake_one_thread_and_unlock`, `stop_all_threads`, `stop`, `init_task` | `WakeOne`, `InterruptTask`, `StopAllThreads`, `Stop`, `InitTask` |
| `epoll_reactor::register_descriptor` | `Register`, `Armed` |
| `start_op` | `StartPerforms`, `StartBlocks` then `StartQueues` |
| `run` | `Collect` |
| `descriptor_state::perform_io`, `do_complete` | `Perform`, `Completed` |
| `shutdown_service` | `ShutdownService` |

`start_op` is two steps when its first attempt fails: the kernel may report the edge
before the operation is queued, and only the descriptor's mutex, which
`starting` stands for, keeps `perform_io` from looking in between. The kernel is
`can` (what would not block) and `edges` (epoll's ready list): an edge is made when
something arrives or a descriptor is armed, and it is gone once it is reported.
`ReactorNext` is every step a program with two threads may ask of the reactor;
`RTSPServer` is one such program.

### RTSPServer

| Code | Actions |
|---|---|
| `UTECore::start`, `on_service_started` | `Build` (the dispatch), `Spawn`, `OnServiceStarted`, `StartEnds` |
| `UTECore::create_acceptor`, `UTEAcceptor::accept` | `CreateAcceptor`, `OpenAcceptor`, `HungUp`, `Bind` |
| `UTEAcceptor::listen`, `RTSPMessager`'s constructor | `Listen`, `ListenQueues`, `BuildEnds` (which assigns `m_messager`) |
| `UTEAcceptor::on_accept`, `RTSPMessager::on_accept`, `set_observer` | `Performs`, `Accepts`, `RegisterPeer`, `OnAccept`, `AcceptThrows` |
| `RTSPMessager::on_recv`, `UTETransport::on_read` | `OnRead`, `OnReadEarly`, `OnReadThrows`, `OnReadError` |
| `UTETcpTransport::write` by the host | `HostWrites`, `HostQueues` |
| `UTETcpTransport::on_write` | `OnWrite`, `OnWriteError` |
| what a handler starts | `Starts`, `Queues`, then `Returns` |
| `RTSPCore::tear`, `UTECore::stop` | `Destroy`, `Join` |
| `~RTSPMessager`, `UTEDestroy` | `DeleteMessager`, `UTEDestroy` |

What requests do is `RTSPSession`'s subject; here a request is read and answered or
not, or what was read is no whole request and the next read follows (`OnRead`, with
or without `m_messager`). `dead` is a process that has ended in an exception or in
undefined behaviour: a request executed before `m_messager` is assigned
(`OnReadEarly`), a number in it that `std::stoi` does not take (`OnReadThrows`), an
accept that has failed or a client gone before it was accepted (`AcceptThrows`),
`~RTSPMessager`'s use of an iterator it has erased. An accept may fail whenever a
connection is ready to be accepted, which then stays in the backlog.
`threw` is a port that is taken, which the host is told by an exception.

### UTEUdpTransport

`Setup` takes the next port from `m_portbase`, in a SETUP that succeeds (and opens
a socket) and in one that does not. `Resolve` is the resolver's thread; `OnResolve`,
`OnResolveError`, `OnConnect`, `OnConnectError` are `on_resolve` and `on_connect`, which
look at no error: a socket that could not be opened stays closed, one that could not be
connected stays open. `ReadFails` ends the read, and so does a datagram without data
(`ReadsNothing`). `OnPacket` is the host's `send()`: the
kernel takes the packet, or refuses it, or asio queues it (`Perform` sends it later).
`Fills` and `Refused` are the kernel and the peer. A transport is `Alive` as long as
a netstream, a pending operation or a queued packet refers to it, as its shared
pointers do.

### XUMutexCondition, XURecursiveMutex, XUMutex, XUFunctorCommandTask

Each stretch of code under the component's own mutex is one step. In
`XUMutexCondition` the threads asleep in `pthread_cond_wait` may be woken without
reason (`Spurious`), several by one signal, and a thread that comes later may
take the signal before the one it was meant for. `owed` is the history the
refinement mapping takes for `RememberedSignal`'s `signalled`. `XURecursiveMutex` and
the pool use `RememberedSignal` instead of the detail, by `INSTANCE` in the lock and
as a flag that is set and cleared in the pool. `XUMutex` puts lock and condition
together: each step of the lock that waits or signals is one with the condition's,
`InWait` is what happens inside `m_cond->wait`, and `SpuriousWakeup` is pthreads'.

| Code | Actions |
|---|---|
| `XURecursiveMutex::lock` | `Lock` up to `m_cond->wait`, `WaitEnds`, `Relock` |
| `XURecursiveMutex::unlock` | `Unlock` |
| `XUFunctorCommandTask::start` | `Start` (with `XUThreadBase::spawn`), then `CountWaitEnds`, `Count` until every thread has counted itself |
| `stop`, `stopMe`, `XUThreadBase::wait` | `Stop`, `Join`, `JoinWaitEnds`, `Reset` |
| `put` | `Put` |
| `svc`, `XUThreadBase::svcRun` | `Register`, `Look`, `WaitEnds`, `Execute`, `Leave`, `End` |

## 3. The runs

| Run | Configuration | Shows |
|---|---|---|
| `transport` | `UTETcpTransport.cfg` | one write at a time, nothing stalls, nothing follows a failure, everything is sent, `FifoChannel` is implemented |
| `packetizer` | `MCAVCStream.cfg` | packets fit, the receiver rebuilds everything in order, marker and numbers are right, the announced parameter sets are the ones sent |
| `session_wide` | `MCSessionWide.cfg` | the lists of netstreams and observers agree, answers are true, deliveries are not disturbed, a connection that is listened to has one read, media only when granted, `RTSPLiveDestroy` returns from every state, unless a request has ended the process |
| `session_deep` | `MCSessionDeep.cfg` | with two clients and five requests each: no gap in what a playing client gets |
| `server` | `RTSPServer.cfg` | from `RTSPLiveCreate` to `RTSPLiveDestroy`: no wake-up is lost (`NoLostWakeup`), no operation queued twice (`QueuedOnce`) or stranded behind an edge that is gone (`NothingStranded`), `run` ends when stopped, not before, and before anything it uses is deleted (`RunsUntilStopped`), `Executor` is implemented, ready operations complete, both calls return |
| `udp` | `UTEUdpTransport.cfg` | a socket has the port its client was told, `DatagramLink` is implemented, a refused packet releases the socket of a client that has gone |
| `framing` | `RTSPFraming.cfg` | however TCP cuts, what is executed was sent; what arrives by itself is understood; answers that are not refusals have an end |
| `lock` | `XUMutex.cfg` | on a condition that pthreads wakes for nothing: exclusion, a free lock is taken; `RememberedSignal`, its fairness included, is what the lock sees of its condition |
| `pool` | `Pool.cfg` | commands taken are executed once, `start` returns when `put` takes commands, `stop` of one thread returns |
| `session_options`, `session_play`, `framing_cut` | `MCSessionOptions.cfg`, `MCSessionPlay.cfg`, `FramingCut.cfg` | a disagreement each, section 6 |

Bounds. `transport`: two payloads distinguish an answer from a frame, two units
per message give a failure in the middle of one, four writes fill both buffers
and reuse the first. `packetizer`: packets of at most 4 octets make units of 1 to
6 octets single, exactly too large, two fragments and three; 4 sequence numbers
wrap within a frame; two frames of up to two units cover the first frame, with
the parameter sets, and one after it; 3- and 4-byte start codes and units with
00 00 and 00 01 inside meet the scanner; the parameter sets leave every rest
modulo 3. `session_wide`: two streams are the least that make a request for one
of several, and for all, different; two packets per frame let a request fall
between two deliveries. `session_deep`: two clients, because one must not disturb
the other; five requests are set up, play, tear down, set up, play. Sequence
numbers wrap at 3. `framing`: three messages of any of the six kinds, cut
anywhere: one before, one after and one across a cut. `server`: one client, whose
descriptor and the acceptor's are in the queues together, with any number of
requests, answers, arrivals and wake-ups, since the model counts nothing; with
two clients TLC saw over two million states without an error and without an end,
and the theorems of section 4 hold for any number. `udp`: three SETUPs and
six ports, three of them even, so that two clients are told different ports and the
counter then reaches 0; two packets, one sent or queued and one behind it; a fourth
SETUP, which returns to the first port, or two streams, take too long to keep. That the
counter goes round is the theorem's part (`OwnPortAlways`, any number of SETUPs). `lock`: four
threads, so that a signal may wake several, one be overtaken and one arrive;
nested two deep. `pool`: one to three threads, since the code signals once for
several; two lives of the pool; three commands, one more than a worker and the
queue's head. The disagreements need one client or two messages.

Where a bound on calls ends the behaviours (`transport`, `packetizer`, `framing`,
`udp`, `pool`) the configuration switches the deadlock check off; in `RTSPSession`
and `RTSPServer` the only state without a successor but stuttering is the server that
has ended, `Terminated`, and deadlock is checked: no interleaving leaves both threads waiting
for a lock. `session_deep` uses symmetry over the clients and has no liveness
property.

Fairness. `UTETcpTransport`: `WF` on `Transfer`, on a successful `Consume` and on
`OnWrite`, because `io_service::run` executes what is ready and a live peer takes
bytes; nobody has to call `write`, nothing has to fail. `RTSPSession`
(`session_wide`): `WF` on the steps of a request or call that has begun, and on
the completion of a read whose connection is closed, as long as there is a process; no client has to send
anything, and the host need not push, add or destroy. `RTSPServer`: `WF` on
`Service` and on `InCall`, the steps of the two threads inside `run()` and inside a call;
the kernel reports what is ready, but nobody has to connect, to send, to create,
write or destroy, and no wake-up for nothing is counted on. `UTEUdpTransport`: `WF` on
the resolver's and the service thread's steps of each transport, and on the read
of a socket with an error. `XUMutex`: `WF` on `InWait(t)` and `BuiltRelock(t)`, a
thread that is awake inside `lock()` runs on; nobody has to unlock. The pool: `WF` on
the steps of threads inside a call, and on `WaitEnds` of some thread, not of each:
that is what `RememberedSignal` promises and `lock` checks.
Nobody has to lock, to put, to start or to stop, but commands end.

## 4. The proofs

Each theorem is for all values of the constants under the assumption named in
its component's module: `TransportAssumption`, `PacketizerAssumption`,
`SessionAssumption` (sizes are natural numbers, requests are requests, frames are
non-empty sequences of non-empty units, a packet has room for four octets),
`ReactorAssumption` and `ServerAssumption` (finitely many descriptors; operations,
descriptors and handlers are different things), `UdpAssumption` (sizes are natural
numbers, the number of ports is even and positive, the first is even and one of them),
`FramingAssumption` (what is sent is a request of a known method or a frame),
`MutexAssumption` and `PoolAssumption` (finitely many threads or workers).

**UTETcpTransportProofs**: `OneWrite`, `NothingStalls`, `FailureSilences`,
`ImplementsChannel`. `OneWriteInFlight` is not inductive: that `on_write` may not
start a second operation when a `write` has come before it depends on the active
buffer being non-empty exactly while an operation runs, except after a failure,
and that on the completion state. The invariant says which of the four phases
(idle, sending, completing, failed) the transport is in and what the buffers hold
in it; for the refinement it adds that `accepted` is `wire`, the unsent part of the
active buffer and the pending one in a row.

**AVCStreamProofs**: `TypeCorrect`, `PacketsFit`, `EverythingRebuilt`,
`NumbersFollow`, `MarkerLast`, `ImplementsChannel`. Five parts are inductive
together: `TypeOK`; `Queue` (only the last unit waiting is marked, and none is
waiting when the packetizer is idle); `Fragments` (the octets left are never 0
between two fragments, and always fewer than the unit's); `Kept` (`accepted` is
`rebuilt`, then the present unit, then the waiting ones; `partial` is the part of
the present one that has been sent); `Numbers`. All of them assume `ParseExact`,
that the scanner finds the units the host put into the frame: the scanner is
recursive over the bytes, and facts about recursive definitions for every input
are out of the prover's reach. Run `packetizer` checks it for its frames: the units a
receiver gets (`AllRebuilt`) and the marker (`MarksFrameEnd`) are the scanner's.
`SetsAnnouncedAreSent` (`AnnouncedIsSent`) joins the description to it: `Base64Inverse` says that
base64, in groups of three octets with any rest, is undone by decoding, for parameter sets of any
length (`Base64Group` gives the four characters of a group, `Base64Padding` where they end), and
`SetsFirst` that they are the first two units given, whence, by `Kept`, the first two received.

**RTSPSessionProofs**: `TypeCorrect`, `ListsAgree` (`Linked`),
`DeliveriesStable` (`StableDelivery`), `ReadsOnce` (`OneReadWhileHeard`),
`AnswersAreTrue` (`AnswersTrue`), `MediaGoverned` (`MediaOnlyWhenGranted`).
`Linked` speaks of the moments when no request is in progress; the invariant
extends it to every program counter of the service thread (between `SetupAdd` and
`Observe`, one list has the pair that the other lacks; between `TearDel` and
`Unobserve` the other way round). `StableDelivery` rests on the locks: what is
yet to be visited was in the list when the delivery took the lock, and whoever
changes the list needs it. `ReadsInv` adds to `OneReadWhileHeard`
that a connection has no read before it is accepted, and that no request comes from
one that is not. `AnswersTrue` speaks of the end of a request; `TearInv`
and `SetupInv` say what has been done at each point before. `MediaGoverned` assumes `PlaysAnswered`, that every
PLAY passes `check_request`; without it the property is false, and run
`session_play` shows how. `NumbersConsecutive` (`NoGap`) is an action property that
compares two packets of one client, with anything between them. `GapInv` ties what the
client has to the stream's own counter: it is the number of the last packet, or the one before
while the client is still due in the delivery of it; and nobody is due twice, because
no list has a client twice.

**RTSPServerProofs** has the reactor first: `QueuedOnceAlways`, `NoLostWakeupAlways`,
`NothingStrandedAlways`,
for `ReactorSpec`, i.e. for every program that uses the reactor as its interface
allows. Five parts carry them beside `Types`. `Order`: what is in the queues occurs once, and a
descriptor in a queue has the reactor behind it or is the one being completed,
so that `run()`, which alone reports descriptors, never reports one that is queued.
`Wake`: what the event and `task_interrupted_` say of the place where the thread is;
an operation that arrives meets a thread that is awake, or sets the one that
matters. `Held`: between a failed attempt and its queueing the descriptor's mutex
is held, and nobody has performed anything there. With them `NothingStranded` is
inductive: an operation that waits for what is there already has an edge, a report
or a descriptor in the queue coming to it. The fifth, `Work`, is about numbers: the scheduler's count of
outstanding work and the thread's own together are at least the operations that are queued,
wait in a descriptor or are in the thread's hand, and `svc`'s own. The reactor and the descriptors in
the queues count for nothing, and a descriptor whose turn performs no operation adds the one that is taken off.

Then the server: `ServerUsesReactor` (`Spec => ReactorSpec`), and from it
`ServerWakes`, `ServerQueuesOnce`, `ServerStrandsNothing` for any number of clients;
`ServerObjectsLive` (`LivingObjects`) and `ServerRunsUntilStopped` (`RunsUntilStopped`). The first shows of each of the server's actions
that it is a step of the reactor, with the guards the reactor asks of its callers:
one operation of a kind on a descriptor, and the `host` starts none while `starting`
is its own. That needs no more than the type of the list of operations a handler
still has to start (`STypes`). For the last, `Work` shows that the piece of work `svc` keeps for itself
is always there beside what the completions take off the counts, so that they do not come to 0 and only
`RTSPLiveDestroy` stops the service (`Stopping`).

Last, `ServerImplementsExecutor` (`ExecutorSpec`): every step of the server is one of `Executor`'s or is not
seen by it. The mapping takes the reactor out of the queue (`Queued`), so the first lemmas say what that does
to a queue that is appended to, joined to another or shortened at its head. What is hard is `Executor!Once`,
that an operation is never ready twice: asio's queue does not look, and would link the object a second time.
The reason lies with who starts operations when, and with the reactor, and is an invariant of both
(`OneEach`). `Lone`: an operation of a kind on a descriptor is in one place at most of six, the queue, the
thread's own, the descriptor, the thread's hands, between the host's failed attempt and its queueing, or the
list a handler still has to start; `Sole` adds that it is there once. `Turn` says what the thread and its
handler hold when, and `Allowed` which operations may be pending: a connection is read only while a messager
holds it, written only while its request is active, and accepted on by one operation. So a handler, or the
host, that starts an operation starts one that is nowhere. TLC finds `OneEach` true with one client in every state.

**UTEUdpTransportProofs**: `OwnPortAlways` (`OwnPort`), `LinksImplemented` (`LinkSpec`),
for any number of transports, ports and packets. `Numbered` says that the counter and every port given
out are the n-th even number from the first, taken round at `PortSpan`: two transports
have one port only if as many SETUPs lie between them as there are even ports, and it is 0
only after the counter has gone round. `Opening` says which operations of
`open()` precede a connected socket, so that no packet is on the link's account before its connect.

**RTSPFramingProofs**: `FramingInvariant`, `ExecutedWasSentAlways` (`ExecutedWasSent`),
`UnderstoodIfWholeAlways` (`UnderstoodIfWhole`), `AnswersAlwaysDelimited` (`AnswersDelimited`),
for any number of messages, cut anywhere. None of the properties is inductive: they speak of what
was executed, and say nothing of what is still coming. `Stream` does: the connection
holds the rest of one message and, behind it, whole messages up to the last one
sent, unit by unit. `Ahead` adds that what has begun to be executed precedes every message that is still
to begin, and `Whole` what has been understood of the messages that are gone, while no chunk
was other than a message. The heart of the proof is what `create_request` finds in
a chunk of such a stream: if the first line is a request, the chunk starts with that
message's first unit, its lines stand in order behind it, and so the first line of a
name, which `std::map` keeps, is the request's own or, if the chunk ends before it,
there is none. That a set of places has a least one is induction over the natural numbers, which the
library's `WFMin` allows without an operator parameter. TLC finds `IInv` true with two messages of any kinds.

**XURecursiveMutexProofs**: of the condition by itself `CondWaitersCounted`, `CondWakeupsKept`
(its `NoLostWakeup`), `CondImplementsSignal`; of the lock `Excludes` (`MutualExclusion`), `Recursive`
(`OwnerNeverWaits`), `WakeupsKept` (`NoLostWakeup`), `BuiltImplements`, `BuiltExcludes`, `BuiltKeepsSignals`.
`signal()` wakes somebody only if `m_waiters` is positive, so the condition's
invariant first counts: `m_waiters` is the number of threads asleep or woken and
not yet run, for any finite set of threads. With it, a signal that is owed is
`m_signal`, and not everybody waiting is asleep. `CondImplementsSignal` is the safety
part of `ConditionSpec`: each step is one of `RememberedSignal`'s or a stutter.
The lock's invariant ties the owner and its level to `depth`, the threads of `m_cond` to the
program counters, and `m_waiters` to the number of threads in the loop: a lock
that becomes free while somebody waits is therefore signalled. `BuiltImplements`
is the composition: `XUMutex`, the lock on the condition in all its detail, only does
what `XURecursiveMutex` does on a remembered signal, from the condition's own
invariant (a wait that returns takes a signal that is owed); so what is proved of
the one holds of the other, which `BuiltExcludes` says for exclusion.

**XUFunctorCommandTaskProofs**: `TypeCorrect`, `OnePlaceAlways`, `StopFinishesAlways`,
`StartReadyAlways`, `NoLostWakeupAlways`, for any number of workers, lives and
commands. `Phase` says for each place of the controlling thread how many workers
are alive and how many have counted themselves, as cardinalities; `Placed` that a
command is in the queue, with one worker, or executed, once. `NoLostWakeup`
is inductive with them: the condition keeps one signal for several commands, which
is enough because a worker that has executed one looks at the queue again.

Only model-checked: liveness (`EverythingSent`, `DestroyReturns`, `CallsReturn`,
`OperationsComplete`, `RefusalReleases`, the fairness of `ConditionSpec`,
`SomebodyGetsIn`, the pool's three), which the prover cannot do; the scanner
(`ParseExact`), which is recursive. Every invariant the runs check has its theorem.

## 5. What is not modelled

`PROJECT.json` lists every component with its status. Left out for good:
logging, statistics, clocks (`XULog`, `XUStat`, `XUTime`), the text of answers
and of the SDP, timestamps, the two example hosts (`RTSPSession` lets a host do
anything `RTSPLive.h` allows), `RTCP` and AAC, which are empty in the code.
pthreads, epoll and sockets are external: only what the code relies on is
modelled, from how it is used.

Of asio, which is nine tenths of the repository's lines, the scheduler, the reactor
and the composed write are modelled: the parts whose order of steps the server's
behaviour depends on. The rest is types and adapters (handlers, allocation,
buffers, address classes, `basic_*` facades), wrappers of one system call each
(`socket_ops.ipp`), platforms the Linux build does not compile (IOCP, kqueue,
`/dev/poll`, `select`), and facilities the server never calls (timers, TLS, serial
ports, signals, `read_until`, coroutines). None has state a property of this server
could be about; modelling it line by line would restate it. Strands are left out
because one thread in `run()` already orders what they order. Errors and hang-ups are
reported as readiness, as epoll does; `epoll_wait` returning for nothing is
`WakesForNothing`. An accept that fails while no connection waits is not told from one
that finds none.

`RTSPSession` takes `XUMutex` for a lock and the service thread as started. Memory
is modelled as far as `StableDelivery` and `LivingObjects` say: what a delivery or a
handler uses exists. The data races on `m_streams` and on the description while
`add_stream` changes them are undefined behaviour that the session does not follow.
`XUMutexCondition::waitr` (unlocking a recursive lock of any depth) is not used by
the server. `build`'s failure path needs a failing `start()` or `new` and is left out.
`pthread_create` always succeeds in the pool and in `start`: the code compares its
result with -1, which it never returns, so a thread that could not be made would
leave `start()` waiting.

## 6. Where the repository disagrees with itself

Each is a run that TLC refutes; `PROJECT.json` quotes the lines.

- `OptionsAtAnyTime` (`session_options`): the transport of an interleaved stream is
  the RTSP connection, and `del_stream` takes the observer off it. After TEARDOWN
  the client is not heard any more.
- `MediaOnlyWhenGranted` with a PLAY that lacks CSeq (`session_play`): it is not
  answered, but the media is started.
- `AllUnderstood` (`framing_cut`): a request cut in two is executed without the
  fields that come later, or not at all; the second of two in a chunk is lost.

Met while modelling, without a run of their own:

- The 503 of a SETUP has no empty line at its end, so that the client takes the next
  answer for a part of it; `AnswersDelimited` excepts refusals.
- The same `set_observer(nullptr)` starts a second read on the connection.
- A SETUP of a stream that plays is answered 503; the comment at
  `RTSPMessager.cpp:384` asks for 455.
- The announced session timeout does not exist: `on_time_out` is never called.
- `XUFunctorCommandTask::stop` of a pool in which two threads wait for commands
  never returns: `stopMe` signals once, and the first to wake passes nothing on.
  `LoneStopReturns` is therefore stated for one thread; TLC refutes it without
  that hypothesis.
- `add_stream` writes a stream into the description before `m_streams` holds it.
- A request that arrives while `RTSPLiveCreate` has not assigned `m_messager` yet is
  executed through a null pointer (`OnReadEarly`).
- An accept that fails, a client that resets before it is accepted, a UDP socket that
  cannot connect, a name that does not resolve: `local_endpoint()`, `remote_endpoint()`
  or the end iterator end the process (`AcceptThrows`, `OnConnectError`,
  `OnResolveError`).
- A request may end the process: `get_stream_id` (`RTSPMessager.cpp:512`) lets what
  `std::stoi` throws at `streamid=abc` or a number too large pass, and `parse_transport`
  (`:263`-`304`) catches `std::invalid_argument` only, not the `std::out_of_range` of
  `stoi`, nor that of `substr` for a port without its pair (`StartOf`, `OnReadThrows`).
- `~RTSPMessager` uses an iterator it has erased (`DeleteMessager`).
- The port counter reaches 0 and goes round (`Open`, `OwnPort`): the client is told
  port 0 while the kernel has chosen another. The code says so itself, "TODO: port wraps".
- asio passes the two flags of `start_accept_op` in the wrong order; the first accept is
  queued without being tried (`Listen`), which does no harm.

## 7. Plan

Done: the transports, the packetizer and the description, the session, the framing,
the scheduler, the reactor and the server's life on them, the conditions, the lock
and the pool. Next, in order, each with the hazards it is for:

1. `RTSPSession`: `AddStream` in its two steps (description, list), and what DESCRIBE has
   announced.
2. An abstract specification of a session (granted, sent) that `RTSPSession`
   implements.
