------------------------- MODULE XURecursiveMutex -------------------------
(***************************************************************************)
(* XURecursiveMutex (XUtil/XUMutex.cpp), built from an XUMutex, held for a *)
(* few lines at a time, and an XUMutexCondition, taken here for what it    *)
(* promises (RememberedSignal).  A thread may take the lock again while it *)
(* has it.  A stretch of code under m_mutex is one step; m_cond->wait ends *)
(* one and begins another.                                                 *)
(***************************************************************************)
EXTENDS Naturals, FiniteSets

CONSTANTS
    Threads,
    NoThread,   \* m_ownerThreadId's 0
    MaxNesting  \* bound on the calls of lock() a thread nests

ASSUME MutexAssumption ==
    /\ IsFiniteSet(Threads) /\ NoThread \notin Threads
    /\ MaxNesting \in Nat

VARIABLES
    m_ownerNestingLevel,
    m_ownerThreadId,
    m_waiters,
    signalled, waiting,  \* m_cond
    pc,                  \* [Threads -> "run", or where it is in lock(): in m_cond->wait, or about
                         \* to take m_mutex again]
    depth                \* history: [Threads -> how many calls of lock() are to be undone]

cond == <<signalled, waiting>>
vars == <<m_ownerNestingLevel, m_ownerThreadId, m_waiters, cond, pc, depth>>

Condition == INSTANCE RememberedSignal

TypeOK ==
    /\ m_ownerNestingLevel \in Nat
    /\ m_ownerThreadId \in Threads \cup {NoThread}
    /\ m_waiters \in Nat
    /\ signalled \in BOOLEAN /\ waiting \in SUBSET Threads
    /\ pc \in [Threads -> {"run", "wait", "relock"}]
    /\ depth \in [Threads -> 0..MaxNesting]

Init ==
    /\ m_ownerNestingLevel = 0
    /\ m_ownerThreadId = NoThread
    /\ m_waiters = 0
    /\ Condition!Init
    /\ pc = [t \in Threads |-> "run"]
    /\ depth = [t \in Threads |-> 0]

\* The condition of lock()'s loop.
Busy(t) == m_ownerNestingLevel > 0 /\ m_ownerThreadId # t

Take(t) ==
    /\ m_ownerNestingLevel' = m_ownerNestingLevel + 1
    /\ m_ownerThreadId' = t
    /\ pc' = [pc EXCEPT ![t] = "run"]
    /\ depth' = [depth EXCEPT ![t] = @ + 1]

Await(t) ==
    /\ pc' = [pc EXCEPT ![t] = "wait"]
    /\ Condition!Arrive(t)
    /\ UNCHANGED <<m_ownerNestingLevel, m_ownerThreadId, depth>>

\* lock(), up to its end or to m_cond->wait.
Lock(t) ==
    /\ pc[t] = "run" /\ depth[t] < MaxNesting
    /\ IF Busy(t)
       THEN Await(t) /\ m_waiters' = m_waiters + 1
       ELSE Take(t) /\ UNCHANGED <<m_waiters, cond>>

\* m_cond->wait lets t go on: it will take m_mutex again.
WaitEnds(t) ==
    /\ pc[t] = "wait"
    /\ Condition!Pass(t)
    /\ pc' = [pc EXCEPT ![t] = "relock"]
    /\ UNCHANGED <<m_ownerNestingLevel, m_ownerThreadId, m_waiters, depth>>

\* Behind m_cond->wait: --m_waiters, and the loop once more.
Relock(t) ==
    /\ pc[t] = "relock"
    /\ IF Busy(t)
       THEN Await(t) /\ UNCHANGED m_waiters
       ELSE Take(t) /\ m_waiters' = m_waiters - 1 /\ UNCHANGED cond

\* Mutant of Unlock: any thread may give the lock back.
UnlockByAnyone(t) ==
    /\ pc[t] = "run" /\ m_ownerNestingLevel > 0
    /\ m_ownerNestingLevel' = m_ownerNestingLevel - 1
    /\ depth' = [depth EXCEPT ![t] = IF @ = 0 THEN 0 ELSE @ - 1]
    /\ IF m_ownerNestingLevel' = 0
       THEN /\ m_ownerThreadId' = NoThread
            /\ IF m_waiters > 0 THEN Condition!Signal ELSE UNCHANGED cond
       ELSE UNCHANGED <<m_ownerThreadId, cond>>
    /\ UNCHANGED <<m_waiters, pc>>

\* unlock(), which does nothing for a thread that has not got the lock.
Unlock(t) ==
    /\ pc[t] = "run" /\ m_ownerNestingLevel > 0 /\ m_ownerThreadId = t
    /\ m_ownerNestingLevel' = m_ownerNestingLevel - 1
    /\ depth' = [depth EXCEPT ![t] = @ - 1]
    /\ IF m_ownerNestingLevel' = 0
       THEN /\ m_ownerThreadId' = NoThread
            /\ IF m_waiters > 0 THEN Condition!Signal ELSE UNCHANGED cond
       ELSE UNCHANGED <<m_ownerThreadId, cond>>
    /\ UNCHANGED <<m_waiters, pc>>

Next == \E t \in Threads : Lock(t) \/ WaitEnds(t) \/ Relock(t) \/ Unlock(t)

Spec == Init /\ [][Next]_vars
-----------------------------------------------------------------------------
\* Between its calls of lock() and the unlock() that undoes the first of them, a thread is
\* alone: no other has the lock, however often it is nested, and the owner's level is the
\* number of calls to be undone.
MutualExclusion ==
    /\ \A t, u \in Threads : depth[t] > 0 /\ depth[u] > 0 => t = u
    /\ \A t \in Threads : depth[t] > 0 => m_ownerThreadId = t /\ m_ownerNestingLevel = depth[t]

\* A thread never waits for itself, which is what the lock is recursive for.
OwnerNeverWaits == \A t \in Threads : pc[t] # "run" => m_ownerThreadId # t /\ depth[t] = 0

\* No wake-up is lost: when the lock is free and threads wait for it, one of them has been
\* signalled or is about to look, although m_cond remembers one signal however many wait,
\* and although a thread that comes along may be faster and use the lock in between.
NoLostWakeup ==
    m_ownerNestingLevel = 0 /\ waiting # {} => signalled \/ \E t \in Threads : pc[t] = "relock"

\* m_waiters, on which it depends whether unlock() signals, counts the threads in the loop.
WaitersCounted == m_waiters = Cardinality({t \in Threads : pc[t] # "run"})

\* A lock that threads wait for does not stay free: somebody gets it.  (Not each of them:
\* faster threads may overtake one for ever.)
SomebodyGetsIn ==
    (m_ownerNestingLevel = 0 /\ \E t \in Threads : pc[t] # "run") ~> m_ownerNestingLevel > 0
===========================================================================
