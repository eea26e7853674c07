----------------------- MODULE XUFunctorCommandTask -----------------------
(***************************************************************************)
(* The thread pool (XUtil/XUFunctorCommandTask.cpp) with the threads it is *)
(* derived from (XUtil/XUThread.cpp).  Any thread may put commands; one at *)
(* a time starts or stops the pool (m_lockInit).  The workers take one     *)
(* command after the other until they are told to exit; the first to see   *)
(* it takes the rest.                                                      *)
(*                                                                         *)
(* Three XUMutexConditions are waited for, each taken for what it promises *)
(* (RememberedSignal): a flag that signal() sets and one wait() clears.  A *)
(* stretch of code under m_lock, or under the lock of XUThreadBase, is one *)
(* step; a wait ends one and begins another.                               *)
(***************************************************************************)
EXTENDS Naturals, Sequences, FiniteSets

CONSTANTS
    Workers,     \* the threads there may be at a time
    MaxStarts,   \* bound on the calls of start()
    MaxPuts      \* bound on the commands; they are 1..MaxPuts in the order put() takes them

ASSUME PoolAssumption ==
    /\ IsFiniteSet(Workers) /\ Workers # {}
    /\ MaxStarts \in Nat /\ MaxPuts \in Nat

Command == 1..MaxPuts

VARIABLES
    m_threadCountSum, m_threadCountNow, m_wantExit, m_commands,
    m_threadCount,   \* XUThreadBase's: threads spawned and not ended
    counted,         \* m_countCond
    commanded,       \* m_commandCond
    ended,           \* XUThreadBase::m_cond
    ctl,             \* what the thread that holds m_lockInit does; "idle" if nobody holds it
    pc,              \* [Workers -> what the worker does]
    hand,            \* [Workers -> the commands it has taken and not executed]
    starts,          \* number of calls of start()
    puts,            \* number of commands put() has taken
    executed         \* history: the commands in the order of execution

pool == <<m_threadCountSum, m_threadCountNow, m_wantExit>>
work == <<m_commands, hand, puts, executed>>
vars == <<pool, m_threadCount, counted, commanded, ended, ctl, pc, starts, work>>

TypeOK ==
    /\ m_threadCountSum \in 0..Cardinality(Workers)
    /\ m_threadCountNow \in 0..Cardinality(Workers)
    /\ m_threadCount \in 0..Cardinality(Workers)
    /\ m_wantExit \in BOOLEAN
    /\ m_commands \in Seq(Command) /\ executed \in Seq(Command)
    /\ counted \in BOOLEAN /\ commanded \in BOOLEAN /\ ended \in BOOLEAN
    /\ ctl \in {"idle", "countwait", "count", "join", "joinwait", "reset"}
    /\ pc \in [Workers -> {"none", "born", "look", "wait", "execute", "drain", "end"}]
    /\ hand \in [Workers -> Seq(Command)]
    /\ starts \in 0..MaxStarts /\ puts \in 0..MaxPuts

Init ==
    /\ m_threadCountSum = 0 /\ m_threadCountNow = 0 /\ m_threadCount = 0
    /\ m_wantExit = FALSE
    /\ m_commands = <<>> /\ executed = <<>>
    /\ counted = FALSE /\ commanded = FALSE /\ ended = FALSE
    /\ ctl = "idle"
    /\ pc = [w \in Workers |-> "none"]
    /\ hand = [w \in Workers |-> <<>>]
    /\ starts = 0 /\ puts = 0

Goto(w, there) == pc' = [pc EXCEPT ![w] = there]
-----------------------------------------------------------------------------
(* start() and stop().                                                     *)

\* XUThreadBase::spawn, once for each thread.
Spawn(team) ==
    /\ m_threadCount' = m_threadCount + Cardinality(team)
    /\ pc' = [w \in Workers |-> IF w \in team THEN "born" ELSE pc[w]]

\* start() of a pool that is not running, with as many threads as team, up to m_countCond.wait:
\* m_lock is held from the first thread spawned, so none has counted itself yet.
Start(team) ==
    /\ ctl = "idle" /\ starts < MaxStarts
    /\ m_threadCountSum = 0
    /\ m_threadCountSum' = Cardinality(team)
    /\ Spawn(team)
    /\ ctl' = "countwait"
    /\ starts' = starts + 1
    /\ UNCHANGED <<m_threadCountNow, m_wantExit, counted, commanded, ended, work>>

CountWaitEnds ==
    /\ ctl = "countwait" /\ counted
    /\ counted' = FALSE
    /\ ctl' = "count"
    /\ UNCHANGED <<pool, m_threadCount, commanded, ended, pc, starts, work>>

\* Mutant of Count: the number of threads is not tested again.
CountOnce ==
    /\ ctl = "count"
    /\ ctl' = "idle"
    /\ UNCHANGED <<pool, m_threadCount, counted, commanded, ended, pc, starts, work>>

Count ==
    /\ ctl = "count"
    /\ ctl' = IF m_threadCountNow < m_threadCountSum THEN "countwait" ELSE "idle"
    /\ UNCHANGED <<pool, m_threadCount, counted, commanded, ended, pc, starts, work>>

\* Mutant of Stop: the workers are not woken.
StopQuietly ==
    /\ ctl = "idle"
    /\ m_threadCountSum > 0 /\ ~m_wantExit
    /\ m_wantExit' = TRUE
    /\ ctl' = "join"
    /\ UNCHANGED <<m_threadCountSum, m_threadCountNow, m_threadCount, counted, commanded, ended,
                   pc, starts, work>>

\* stop() of a running pool, by a thread that is none of its workers, up to wait().
Stop ==
    /\ ctl = "idle"
    /\ m_threadCountSum > 0 /\ ~m_wantExit
    /\ m_wantExit' = TRUE
    /\ commanded' = TRUE
    /\ ctl' = "join"
    /\ UNCHANGED <<m_threadCountSum, m_threadCountNow, m_threadCount, counted, ended, pc, starts,
                   work>>

\* XUThreadBase::wait: the test of its loop.
Join ==
    /\ ctl = "join"
    /\ ctl' = IF m_threadCount > 0 THEN "joinwait" ELSE "reset"
    /\ UNCHANGED <<pool, m_threadCount, counted, commanded, ended, pc, starts, work>>

\* Mutant of JoinWaitEnds: the first thread to end ends the wait.
JoinFirst ==
    /\ ctl = "joinwait" /\ ended
    /\ ended' = FALSE
    /\ ctl' = "reset"
    /\ UNCHANGED <<pool, m_threadCount, counted, commanded, pc, starts, work>>

JoinWaitEnds ==
    /\ ctl = "joinwait" /\ ended
    /\ ended' = FALSE
    /\ ctl' = "join"
    /\ UNCHANGED <<pool, m_threadCount, counted, commanded, pc, starts, work>>

\* The rest of stopMe().
Reset ==
    /\ ctl = "reset"
    /\ m_threadCountSum' = 0 /\ m_threadCountNow' = 0
    /\ m_wantExit' = FALSE
    /\ ctl' = "idle"
    /\ UNCHANGED <<m_threadCount, counted, commanded, ended, pc, starts, work>>
-----------------------------------------------------------------------------
(* put().                                                                  *)

\* put() takes a command when all threads of a start() run and nobody stops them.
Put ==
    /\ m_threadCountSum > 0 /\ m_threadCountNow = m_threadCountSum /\ ~m_wantExit
    /\ puts < MaxPuts
    /\ puts' = puts + 1
    /\ m_commands' = Append(m_commands, puts + 1)
    /\ commanded' = TRUE
    /\ UNCHANGED <<pool, m_threadCount, counted, ended, ctl, pc, starts, hand, executed>>
-----------------------------------------------------------------------------
(* The workers: svc(), and the end of svcRun().                            *)

\* Mutant of Register: start() is not told.
RegisterQuietly(w) ==
    /\ pc[w] = "born"
    /\ m_threadCountNow' = m_threadCountNow + 1
    /\ Goto(w, "look")
    /\ UNCHANGED <<m_threadCountSum, m_wantExit, m_threadCount, counted, commanded, ended, ctl,
                   starts, work>>

Register(w) ==
    /\ pc[w] = "born"
    /\ m_threadCountNow' = m_threadCountNow + 1
    /\ counted' = TRUE
    /\ Goto(w, "look")
    /\ UNCHANGED <<m_threadCountSum, m_wantExit, m_threadCount, commanded, ended, ctl, starts, work>>

\* Mutants of TakeRest: the queue is left, or copied and not cleared.
TakeRestLeaves(w) == Goto(w, "drain") /\ UNCHANGED <<hand, m_commands>>

TakeRestCopies(w) ==
    /\ Goto(w, "drain")
    /\ hand' = [hand EXCEPT ![w] = m_commands]
    /\ UNCHANGED m_commands

\* m_wantExit: everything left is taken along.
TakeRest(w) ==
    /\ Goto(w, "drain")
    /\ hand' = [hand EXCEPT ![w] = m_commands]
    /\ m_commands' = <<>>

TakeOne(w) ==
    /\ Goto(w, "execute")
    /\ hand' = [hand EXCEPT ![w] = <<Head(m_commands)>>]
    /\ m_commands' = Tail(m_commands)

\* The worker holds m_lock: exit, a command, or m_commandCond.wait.
Look(w) ==
    /\ pc[w] = "look"
    /\ IF m_wantExit THEN TakeRest(w)
       ELSE IF m_commands # <<>> THEN TakeOne(w)
       ELSE Goto(w, "wait") /\ UNCHANGED <<hand, m_commands>>
    /\ UNCHANGED <<pool, m_threadCount, counted, commanded, ended, ctl, starts, puts, executed>>

WaitEnds(w) ==
    /\ pc[w] = "wait" /\ commanded
    /\ commanded' = FALSE
    /\ Goto(w, "look")
    /\ UNCHANGED <<pool, m_threadCount, counted, ended, ctl, starts, work>>

Execute(w) ==
    /\ pc[w] \in {"execute", "drain"} /\ hand[w] # <<>>
    /\ executed' = Append(executed, Head(hand[w]))
    /\ hand' = [hand EXCEPT ![w] = Tail(@)]
    /\ Goto(w, IF pc[w] = "drain" THEN "drain" ELSE "look")
    /\ UNCHANGED <<pool, m_threadCount, counted, commanded, ended, ctl, starts, m_commands, puts>>

\* svc() returns.
Leave(w) ==
    /\ pc[w] = "drain" /\ hand[w] = <<>>
    /\ Goto(w, "end")
    /\ UNCHANGED <<pool, m_threadCount, counted, commanded, ended, ctl, starts, work>>

End(w) ==
    /\ pc[w] = "end"
    /\ m_threadCount' = m_threadCount - 1
    /\ ended' = TRUE
    /\ Goto(w, "none")
    /\ UNCHANGED <<pool, counted, commanded, ctl, starts, work>>
-----------------------------------------------------------------------------
Control == CountWaitEnds \/ Count \/ Join \/ JoinWaitEnds \/ Reset

WorkOf(w) == Register(w) \/ Look(w) \/ Execute(w) \/ Leave(w) \/ End(w)

Next ==
    \/ \E team \in SUBSET Workers \ {{}} : Start(team)
    \/ Stop \/ Put \/ Control
    \/ \E w \in Workers : WorkOf(w) \/ WaitEnds(w)

Spec == Init /\ [][Next]_vars

\* Threads go on, commands end, and the conditions let somebody through who waits; nobody has
\* to start, to stop or to put.
FairSpec ==
    /\ Spec
    /\ WF_vars(Control)
    /\ \A w \in Workers : WF_vars(WorkOf(w))
    /\ WF_vars(\E w \in Workers : WaitEnds(w))
-----------------------------------------------------------------------------
Ran(s) == {s[i] : i \in DOMAIN s}

\* A command put() has taken is executed once and by one worker: it is in the queue, in one
\* worker's hands or executed, and never in two of these.
OnePlace ==
    /\ \A c \in 1..puts :
         \/ c \in Ran(m_commands) \/ c \in Ran(executed)
         \/ \E w \in Workers : c \in Ran(hand[w])
    /\ \A i, j \in DOMAIN executed : executed[i] = executed[j] => i = j
    /\ \A w \in Workers : Ran(hand[w]) \cap (Ran(m_commands) \cup Ran(executed)) = {}
    /\ \A w, u \in Workers : w # u => Ran(hand[w]) \cap Ran(hand[u]) = {}

\* When stop() has seen the threads end, every command put() has taken is executed, those put
\* at the last moment included, and no worker of this pool is left to be confused with one of
\* the next start().
StopFinishes ==
    ctl = "reset" => /\ Ran(executed) = 1..puts
                     /\ \A w \in Workers : pc[w] = "none"

\* start() returns when all its threads are ready, so that put() never refuses a command
\* between start() and stop().
StartReady == ctl = "idle" /\ m_threadCountSum > 0 => m_threadCountNow = m_threadCountSum

\* No wake-up is lost, although m_commandCond remembers one signal however many commands are
\* put: while commands are queued a worker is signalled or will look at the queue.
NoLostWakeup == m_commands # <<>> => commanded \/ \E w \in Workers : pc[w] \in {"look", "execute"}

\* Every command taken is executed in the end, whatever else happens to the pool.
CommandsExecuted == \A c \in Command : puts >= c ~> c \in Ran(executed)

\* start() returns.
StartReturns == ctl \in {"countwait", "count"} ~> ctl = "idle"

\* stop() returns if the pool has one thread.  If it has more and two of them wait for
\* commands it does not: the one signal of stopMe() wakes one of them.
LoneStopReturns ==
    (m_threadCountSum = 1 /\ ctl \in {"join", "joinwait", "reset"}) ~> ctl = "idle"
===========================================================================
