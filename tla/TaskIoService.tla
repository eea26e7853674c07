--------------------------- MODULE TaskIoService ---------------------------
(***************************************************************************)
(* asio's scheduler as the server uses it: task_io_service, with one       *)
(* thread in run() and any thread posting, and the posix_event that thread *)
(* sleeps on as long as there is no reactor.  The reactor is an operation  *)
(* of the queue like any other (task_operation_); a thread that runs it    *)
(* can be interrupted.  A stretch of code under mutex_ is one step.        *)
(* The operations are those of the environment, which is EpollReactor.     *)
(***************************************************************************)
EXTENDS Naturals, Sequences

CONSTANTS
    TaskOp,   \* task_operation_
    NoOp      \* no operation: what the thread completes when it completes nothing

VARIABLES
    op_queue_,
    task_,                    \* whether there is a reactor
    task_interrupted_,
    outstanding_work_,
    stopped_,
    signalled,                \* wakeup_event_'s state_ & 1
    thread,                   \* where the thread of run() is
    completing,               \* the operation it completes
    private_op_queue,         \* its thread_info
    private_outstanding_work,
    interrupter               \* the reactor's interrupter is on epoll's ready list

schedulerVars == <<op_queue_, task_, task_interrupted_, outstanding_work_, stopped_, signalled,
                   thread, completing, private_op_queue, private_outstanding_work, interrupter>>

\* outside run(); about to test stopped_ with mutex_; in or just out of pthread_cond_wait; in
\* task_->run, without and with leave to block, and behind it; completing an operation; behind run().
Places == {"out", "loop", "asleep", "woken", "poll", "block", "collected", "complete", "ended"}

SchedulerInit ==
    /\ op_queue_ = <<>> /\ private_op_queue = <<>>
    /\ task_ = FALSE /\ task_interrupted_ = TRUE /\ interrupter = FALSE
    /\ outstanding_work_ = 0 /\ private_outstanding_work = 0
    /\ stopped_ = FALSE /\ signalled = FALSE
    /\ thread = "out" /\ completing = NoOp

\* Whether wakeup_event_'s state_ counts a waiter.
Waiter == thread \in {"asleep", "woken"}

\* pthread_cond_signal and pthread_cond_broadcast, with one thread to wake.
Woken == IF thread = "asleep" THEN "woken" ELSE thread

InterruptTask ==
    IF task_interrupted_ \/ ~task_
    THEN UNCHANGED <<task_interrupted_, interrupter>>
    ELSE task_interrupted_' = TRUE /\ interrupter' = TRUE

\* Mutant of WakeOne: the sleeping thread is told, the one in the reactor is not.
WakeSleeper == signalled' = TRUE /\ UNCHANGED <<task_interrupted_, interrupter>>

\* wake_one_thread_and_unlock.
WakeOne ==
    /\ signalled' = TRUE
    /\ IF Waiter THEN UNCHANGED <<task_interrupted_, interrupter>> ELSE InterruptTask

\* stop_all_threads.
StopAllThreads ==
    /\ stopped_' = TRUE /\ signalled' = TRUE
    /\ thread' = Woken
    /\ InterruptTask
-----------------------------------------------------------------------------
\* Called by any thread.

\* op_queue_.push of the operations s, which are `work' more pieces of work.
Push(s, work) ==
    /\ op_queue_' = op_queue_ \o s
    /\ outstanding_work_' = outstanding_work_ + work
    /\ WakeOne
    /\ thread' = Woken
    /\ UNCHANGED <<task_, stopped_, completing, private_op_queue, private_outstanding_work>>

\* post_immediate_completion; only the thread of run() is inside.
PostImmediate(op, continuation, inside) ==
    IF continuation /\ inside
    THEN /\ private_op_queue' = Append(private_op_queue, op)
         /\ private_outstanding_work' = private_outstanding_work + 1
         /\ UNCHANGED <<op_queue_, task_, task_interrupted_, outstanding_work_, stopped_, signalled,
                        thread, completing, interrupter>>
    ELSE Push(<<op>>, 1)

\* dispatch by a thread that is not in run().
Dispatch(op) == Push(<<op>>, 1)

\* The reactor's construction, with its interrupter signalled, and init_task.
InitTask ==
    /\ ~task_ /\ task_' = TRUE
    /\ op_queue_' = Append(op_queue_, TaskOp)
    /\ signalled' = TRUE /\ interrupter' = TRUE
    /\ thread' = Woken
    /\ UNCHANGED <<task_interrupted_, outstanding_work_, stopped_, completing, private_op_queue,
                   private_outstanding_work>>

WorkStarted ==
    /\ outstanding_work_' = outstanding_work_ + 1
    /\ UNCHANGED <<op_queue_, task_, task_interrupted_, stopped_, signalled, thread, completing,
                   private_op_queue, private_outstanding_work, interrupter>>

\* Mutant of Stop: the flag alone.
StopSilently ==
    /\ stopped_' = TRUE
    /\ UNCHANGED <<op_queue_, task_, task_interrupted_, outstanding_work_, signalled, thread, completing,
                   private_op_queue, private_outstanding_work, interrupter>>

Stop ==
    /\ StopAllThreads
    /\ UNCHANGED <<op_queue_, task_, outstanding_work_, completing, private_op_queue,
                   private_outstanding_work>>
-----------------------------------------------------------------------------
\* The thread of run().

\* Mutant of Enter: svc has no work.
EnterIdle ==
    /\ thread = "out" /\ thread' = "loop"
    /\ UNCHANGED <<op_queue_, task_, task_interrupted_, outstanding_work_, stopped_, signalled, completing,
                   private_op_queue, private_outstanding_work, interrupter>>

\* The work of UTECore::svc, and run() up to its loop.
Enter ==
    /\ thread = "out" /\ thread' = "loop"
    /\ outstanding_work_' = outstanding_work_ + 1
    /\ UNCHANGED <<op_queue_, task_, task_interrupted_, stopped_, signalled, completing,
                   private_op_queue, private_outstanding_work, interrupter>>

\* do_run_one returns 0, run() too, and svc gives its work back.
Leave ==
    /\ thread = "loop" /\ stopped_
    /\ thread' = "ended"
    /\ outstanding_work_' = outstanding_work_ - 1
    /\ UNCHANGED <<op_queue_, task_, task_interrupted_, stopped_, signalled, completing,
                   private_op_queue, private_outstanding_work, interrupter>>

MoreHandlers == Len(op_queue_) > 1

\* do_run_one finds the reactor at the head of the queue.
RunTask ==
    /\ thread = "loop" /\ ~stopped_ /\ op_queue_ # <<>> /\ Head(op_queue_) = TaskOp
    /\ op_queue_' = Tail(op_queue_)
    /\ task_interrupted_' = MoreHandlers
    /\ signalled' = (signalled \/ MoreHandlers)
    /\ thread' = IF MoreHandlers THEN "poll" ELSE "block"
    /\ UNCHANGED <<task_, outstanding_work_, stopped_, completing, private_op_queue,
                   private_outstanding_work, interrupter>>

\* It finds another operation.
RunHandler ==
    /\ thread = "loop" /\ ~stopped_ /\ op_queue_ # <<>> /\ Head(op_queue_) # TaskOp
    /\ op_queue_' = Tail(op_queue_)
    /\ completing' = Head(op_queue_)
    /\ thread' = "complete"
    /\ IF MoreHandlers THEN WakeOne ELSE UNCHANGED <<signalled, task_interrupted_, interrupter>>
    /\ UNCHANGED <<task_, outstanding_work_, stopped_, private_op_queue, private_outstanding_work>>

\* It finds none: clear and wait.
Sleep ==
    /\ thread = "loop" /\ ~stopped_ /\ op_queue_ = <<>>
    /\ signalled' = FALSE
    /\ thread' = "asleep"
    /\ UNCHANGED <<op_queue_, task_, task_interrupted_, outstanding_work_, stopped_, completing,
                   private_op_queue, private_outstanding_work, interrupter>>

\* pthread_cond_wait returns without a reason.
Spurious ==
    /\ thread = "asleep" /\ thread' = "woken"
    /\ UNCHANGED <<op_queue_, task_, task_interrupted_, outstanding_work_, stopped_, signalled, completing,
                   private_op_queue, private_outstanding_work, interrupter>>

\* posix_event::wait tests again.
Awake ==
    /\ thread = "woken"
    /\ thread' = IF signalled THEN "loop" ELSE "asleep"
    /\ UNCHANGED <<op_queue_, task_, task_interrupted_, outstanding_work_, stopped_, signalled, completing,
                   private_op_queue, private_outstanding_work, interrupter>>

\* task_->run returns with the operations ops.
TaskReturns(ops) ==
    /\ thread \in {"poll", "block"} /\ thread' = "collected"
    /\ private_op_queue' = ops
    /\ interrupter' = FALSE
    /\ UNCHANGED <<op_queue_, task_, task_interrupted_, outstanding_work_, stopped_, signalled, completing,
                   private_outstanding_work>>

\* Mutant of TaskCleanup: the reactor goes before what it has found.
TaskCleanupFirst ==
    /\ thread = "collected" /\ thread' = "loop"
    /\ task_interrupted_' = TRUE
    /\ op_queue_' = <<TaskOp>> \o op_queue_ \o private_op_queue
    /\ private_op_queue' = <<>>
    /\ UNCHANGED <<task_, outstanding_work_, stopped_, signalled, completing, private_outstanding_work,
                   interrupter>>

\* ~task_cleanup.  The thread's private work is 0 outside a handler.
TaskCleanup ==
    /\ thread = "collected" /\ thread' = "loop"
    /\ task_interrupted_' = TRUE
    /\ op_queue_' = Append(op_queue_ \o private_op_queue, TaskOp)
    /\ private_op_queue' = <<>>
    /\ UNCHANGED <<task_, outstanding_work_, stopped_, signalled, completing, private_outstanding_work,
                   interrupter>>

\* ~work_cleanup, when the operation has been completed: one piece of work is done, those the
\* thread has kept for itself are added; work_finished stops the service when none is left.
WorkCleanup ==
    LET left == (outstanding_work_ + private_outstanding_work) - 1 IN
    /\ thread = "complete"
    /\ outstanding_work_' = left
    /\ private_outstanding_work' = 0
    /\ op_queue_' = op_queue_ \o private_op_queue
    /\ private_op_queue' = <<>>
    /\ completing' = NoOp
    /\ thread' = "loop"
    /\ IF private_outstanding_work = 0 /\ left = 0
       THEN stopped_' = TRUE /\ signalled' = TRUE /\ InterruptTask
       ELSE UNCHANGED <<stopped_, signalled, task_interrupted_, interrupter>>
    /\ UNCHANGED task_
-----------------------------------------------------------------------------
\* What is queued, in the order in which it will run, without the reactor, which is there once
\* or not at all.
Queued ==
    LET behind(i) == \E j \in 1..i : op_queue_[j] = TaskOp
        n         == Len(op_queue_)
    IN  [i \in 1..IF n > 0 /\ behind(n) THEN n - 1 ELSE n |->
            IF behind(i) THEN op_queue_[i + 1] ELSE op_queue_[i]]

\* The scheduler is an executor: who waits, who sleeps, how a thread in epoll_wait is
\* interrupted and which of two queues an operation is put into cannot be seen from outside.
Executed == INSTANCE Executor WITH
    ready <- Queued, fresh <- private_op_queue, running <- completing, stopped <- stopped_
ExecutorSpec == Executed!Spec

\* No wake-up is lost, whether the thread sleeps on the event or in epoll_wait, and whether an
\* operation or a stop is what it should wake for.
NoLostWakeup ==
    (op_queue_ # <<>> \/ stopped_) =>
        /\ thread # "asleep"
        /\ thread = "woken" => signalled
        /\ thread = "block" => interrupter
===========================================================================
