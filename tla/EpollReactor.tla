---------------------------- MODULE EpollReactor ----------------------------
(***************************************************************************)
(* asio's epoll_reactor on its scheduler: operations on descriptors.       *)
(* start_op tries an operation at once, and queues it in the descriptor if *)
(* it would block; epoll reports edges, run() hands the descriptors that   *)
(* have one to the scheduler, and perform_io, when their turn comes, tries *)
(* the queued operations again.  The service thread and the host's start   *)
(* operations; a descriptor's mutex is held from a failed attempt until    *)
(* the operation is queued.  Errors and hang-ups are reported as ready.    *)
(***************************************************************************)
EXTENDS TaskIoService, FiniteSets

CONSTANTS
    Descriptors,
    Handlers,  \* what is executed without a descriptor
    Nobody     \* nobody holds a descriptor's mutex

ASSUME ReactorAssumption ==
    /\ IsFiniteSet(Descriptors)
    /\ TaskOp # NoOp /\ {TaskOp, NoOp} \cap (Descriptors \cup Handlers) = {}
    /\ Descriptors \cap Handlers = {}
    /\ \A op \in {TaskOp, NoOp} \cup Descriptors \cup Handlers :
            op \notin Descriptors \X {"read", "write"}

VARIABLES
    registered,          \* the descriptors that have been given to epoll
    registered_out,      \* those whose registered_events_ have EPOLLOUT
    op_queue,            \* [Descriptors -> the kinds of the operations queued there]
    task_result_,        \* [Descriptors -> the events of the last report]
    can,                 \* [Descriptors -> the kinds that would not block], the kernel's
    edges,               \* the descriptors on epoll's ready list
    starting             \* [Threads -> the operation the thread is queueing, or Nobody]

reactorOnlyVars == <<registered, registered_out, op_queue, task_result_, can, edges, starting>>

Kinds   == {"read", "write"}
Threads == {"service", "host"}

\* The operation of a kind on a descriptor: there is at most one at a time.
Op(d, kind) == <<d, kind>>
DescriptorOps == Descriptors \X Kinds

ReactorInit ==
    /\ SchedulerInit
    /\ registered = {} /\ registered_out = {} /\ edges = {}
    /\ op_queue = [d \in Descriptors |-> {}]
    /\ task_result_ = [d \in Descriptors |-> {}]
    /\ can = [d \in Descriptors |-> {}]
    /\ starting = [t \in Threads |-> Nobody]

\* Whether a thread holds the mutex of d.
Locked(d) == \E t \in Threads : starting[t] # Nobody /\ starting[t].d = d

\* What epoll would report of d.
Events(d) == can[d] \cap ({"read"} \cup IF d \in registered_out THEN {"write"} ELSE {})
-----------------------------------------------------------------------------
\* The kernel.

\* Something arrives at d, or room for it, or its end: an edge, if epoll watches for it.
Becomes(d, kinds) ==
    /\ can' = [can EXCEPT ![d] = @ \cup kinds]
    /\ edges' = IF d \in registered /\ ("read" \in kinds \/ d \in registered_out)
                THEN edges \cup {d} ELSE edges
    /\ UNCHANGED <<schedulerVars, registered, registered_out, op_queue, task_result_, starting>>

\* Nothing is there any more, though nobody has tried.
Resets(d) ==
    /\ can' = [can EXCEPT ![d] = {}]
    /\ UNCHANGED <<schedulerVars, registered, registered_out, op_queue, task_result_, edges, starting>>

\* epoll_ctl(EPOLL_CTL_ADD or EPOLL_CTL_MOD): an edge, if something is ready already.
Armed(d, out) ==
    edges' = IF can[d] \cap ({"read"} \cup IF d \in out THEN {"write"} ELSE {}) # {}
             THEN edges \cup {d} ELSE edges

\* register_descriptor.
Register(d) ==
    /\ d \notin registered /\ registered' = registered \cup {d}
    /\ Armed(d, registered_out)
    /\ UNCHANGED <<schedulerVars, registered_out, op_queue, task_result_, can, starting>>
-----------------------------------------------------------------------------
\* start_op.

\* The first attempt succeeds and leaves d ready for `left'.
StartPerforms(t, d, kind, continuation, left) ==
    /\ ~Locked(d) /\ starting[t] = Nobody
    /\ kind \in can[d] /\ left \in {can[d], can[d] \ {kind}}
    /\ kind \notin op_queue[d]
    /\ can' = [can EXCEPT ![d] = left]
    /\ PostImmediate(Op(d, kind), continuation, t = "service")
    /\ UNCHANGED <<registered, registered_out, op_queue, task_result_, edges, starting>>

\* It would block, or is not made (allow_speculative).
StartBlocks(t, d, kind, speculative) ==
    /\ d \in registered /\ ~Locked(d) /\ starting[t] = Nobody
    /\ kind \notin can[d] \/ ~speculative
    /\ kind \notin op_queue[d]
    /\ starting' = [starting EXCEPT ![t] = [d |-> d, kind |-> kind, speculative |-> speculative]]
    /\ UNCHANGED <<schedulerVars, registered, registered_out, op_queue, task_result_, can, edges>>

\* Mutant of StartQueues: a descriptor that epoll knows is not armed again.
StartQueuesUnarmed(t) ==
    LET s == starting[t]
        writes == IF s.kind = "write" THEN {s.d} ELSE {} IN
    /\ s # Nobody
    /\ registered_out' = registered_out \cup writes
    /\ op_queue' = [op_queue EXCEPT ![s.d] = @ \cup {s.kind}]
    /\ starting' = [starting EXCEPT ![t] = Nobody]
    /\ WorkStarted
    /\ UNCHANGED <<registered, task_result_, can, edges>>

\* The rest: watch for EPOLLOUT from the first write on, arm again if there was no attempt.
StartQueues(t) ==
    LET s == starting[t]
        writes == IF s.kind = "write" THEN {s.d} ELSE {} IN
    /\ s # Nobody
    /\ registered_out' = registered_out \cup writes
    /\ IF ~s.speculative \/ ~(writes \subseteq registered_out)
       THEN Armed(s.d, registered_out')
       ELSE UNCHANGED edges
    /\ op_queue' = [op_queue EXCEPT ![s.d] = @ \cup {s.kind}]
    /\ starting' = [starting EXCEPT ![t] = Nobody]
    /\ WorkStarted
    /\ UNCHANGED <<registered, task_result_, can>>
-----------------------------------------------------------------------------
\* The reactor in the scheduler.

\* run: epoll_wait, and the descriptors it reports, in any order.  It may return for nothing.
Collect ==
    LET found == {d \in edges : Events(d) # {}} IN
    /\ edges' = {}
    /\ task_result_' = [d \in Descriptors |-> IF d \in found THEN Events(d) ELSE task_result_[d]]
    /\ \E order \in [1..Cardinality(found) -> found] :
        /\ \A i, j \in DOMAIN order : order[i] = order[j] => i = j
        /\ TaskReturns(order)
    /\ UNCHANGED <<registered, registered_out, op_queue, can, starting>>

\* Whether epoll_wait has a reason to return.
Reported == thread = "poll" \/ interrupter \/ \E d \in edges : Events(d) # {}

\* descriptor_state::do_complete: perform_io tries what is queued and leaves d ready for
\* `left'.  The first operation performed (writes before reads) is completed in place, others
\* are posted; with none, the work that the scheduler will count as done is added first.
Perform(d, left) ==
    LET done == op_queue[d] \cap task_result_[d] \cap can[d]
        first == IF "write" \in done THEN "write" ELSE "read" IN
    /\ thread = "complete" /\ completing = d /\ ~Locked(d)
    /\ left \subseteq can[d] /\ can[d] \ left \subseteq done
    /\ op_queue' = [op_queue EXCEPT ![d] = @ \ done]
    /\ can' = [can EXCEPT ![d] = left]
    /\ completing' = IF done = {} THEN NoOp ELSE Op(d, first)
    /\ IF done = Kinds
       THEN /\ op_queue_' = Append(op_queue_, Op(d, "read"))
            /\ WakeOne
       ELSE UNCHANGED <<op_queue_, signalled, task_interrupted_, interrupter>>
    /\ outstanding_work_' = outstanding_work_ + IF done = {} THEN 1 ELSE 0
    /\ UNCHANGED <<task_, stopped_, thread, private_op_queue, private_outstanding_work, registered,
                   registered_out, task_result_, edges, starting>>

\* The operation has been completed.
Completed == completing \notin Descriptors /\ WorkCleanup

\* ~io_service, with no thread inside: shutdown_service of the reactor and of the scheduler
\* destroy the operations.
ShutdownService ==
    /\ thread = "ended" /\ \A t \in Threads : starting[t] = Nobody
    /\ op_queue_' = <<>> /\ task_' = FALSE
    /\ op_queue' = [d \in Descriptors |-> {}]
    /\ registered' = {} /\ registered_out' = {} /\ edges' = {}
    /\ UNCHANGED <<task_interrupted_, outstanding_work_, stopped_, signalled, thread, completing,
                   private_op_queue, private_outstanding_work, interrupter, task_result_, can, starting>>
-----------------------------------------------------------------------------
\* The scheduler and the reactor for any callers, who keep to one operation of a kind.
ReactorNext ==
    \/ /\ \/ Enter \/ Leave \/ RunTask \/ RunHandler \/ Sleep \/ Spurious \/ Awake \/ TaskCleanup
          \/ Completed \/ InitTask \/ Stop \/ \E h \in Handlers : Dispatch(h)
       /\ UNCHANGED reactorOnlyVars
    \/ \E d \in Descriptors :
        \/ Register(d) \/ Resets(d) \/ \E kind \in Kinds : Becomes(d, {kind}) \/ Becomes(d, Kinds)
        \/ \E left \in SUBSET Kinds : Perform(d, left)
        \/ \E t \in Threads, kind \in Kinds :
            \/ \E continuation \in BOOLEAN, left \in SUBSET Kinds :
                StartPerforms(t, d, kind, continuation, left)
            \/ \E speculative \in BOOLEAN : StartBlocks(t, d, kind, speculative)
    \/ \E t \in Threads : StartQueues(t)
    \/ Collect \/ ShutdownService

reactorVars == <<schedulerVars, reactorOnlyVars>>
ReactorSpec == ReactorInit /\ [][ReactorNext]_reactorVars
-----------------------------------------------------------------------------
\* run() relies on it that the descriptors it has reported are dequeued before it is called
\* again: the queues are linked by the operations themselves, and a descriptor or the reactor
\* that were in them twice would tear them.
QueuedOnce ==
    LET all == op_queue_ \o private_op_queue IN
    /\ \A i, j \in DOMAIN all : all[i] = all[j] /\ all[i] \in Descriptors \cup {TaskOp} => i = j
    /\ completing \in Descriptors => \A i \in DOMAIN all : all[i] # completing

\* The events of d are on their way to its operations: epoll will report them, or d waits for
\* its turn with them.
Coming(d, kind) ==
    \/ d \in edges
    \/ /\ kind \in task_result_[d]
       /\ \/ completing = d
          \/ \E i \in DOMAIN op_queue_ : op_queue_[i] = d
          \/ \E i \in DOMAIN private_op_queue : private_op_queue[i] = d

\* No operation is stranded: one that waits in a descriptor though it need not, or is about
\* to, will be tried again without the descriptor's getting ready once more.  epoll reports
\* edges only, an event may be reported before the operation it is for is queued, and two
\* threads start operations while the reactor runs.
NothingStranded ==
    /\ \A d \in Descriptors : \A kind \in op_queue[d] \cap can[d] : Coming(d, kind)
    /\ \A t \in Threads : starting[t] # Nobody =>
        LET s == starting[t] IN
        s.speculative /\ s.kind \in can[s.d] /\ (s.kind = "read" \/ s.d \in registered_out)
            => Coming(s.d, s.kind)
===========================================================================
