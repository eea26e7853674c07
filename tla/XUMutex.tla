------------------------------ MODULE XUMutex ------------------------------
(***************************************************************************)
(* The recursive lock on the condition it is really built on: where        *)
(* XURecursiveMutex takes m_cond for what it promises, here m_cond is an   *)
(* XUMutexCondition with its own mutex, its flag and its count, and with   *)
(* threads that pthreads wakes for nothing.  signalled and waiting say     *)
(* what has been asked of the condition, whatever it makes of it.          *)
(***************************************************************************)
EXTENDS XURecursiveMutex

VARIABLES
    m_signal, cond_waiters,  \* m_cond's m_signal and m_waiters
    at                       \* [Threads -> where the thread is in m_cond->wait]

condVars  == <<m_signal, cond_waiters, at>>
builtVars == <<vars, condVars>>

Cond == INSTANCE XUMutexCondition WITH m_waiters <- cond_waiters, pc <- at, owed <- signalled

BuiltInit == Init /\ Cond!Init

\* m_cond->wait(m_mutex), if the lock is busy.
CallsWait(t) == IF Busy(t) THEN Cond!Enter(t) ELSE UNCHANGED condVars

BuiltLock(t) == Lock(t) /\ CallsWait(t)

BuiltRelock(t) == Relock(t) /\ CallsWait(t)

\* m_cond->wait with the condition's mutex: it sleeps, or returns to lock().
InWait(t) ==
    /\ at[t] \in {"enter", "woken"}
    /\ IF m_signal
       THEN /\ Cond!Leave(t)
            /\ pc' = [pc EXCEPT ![t] = "relock"]
            /\ waiting' = waiting \ {t}
       ELSE Cond!Sleep(t) /\ UNCHANGED <<pc, waiting>>
    /\ UNCHANGED <<m_ownerNestingLevel, m_ownerThreadId, m_waiters, depth>>

SpuriousWakeup(t) == Cond!Spurious(t) /\ UNCHANGED vars

BuiltUnlock(t) ==
    /\ Unlock(t)
    /\ IF m_ownerNestingLevel = 1 /\ m_waiters > 0 THEN Cond!Signal ELSE UNCHANGED condVars

BuiltNext ==
    \E t \in Threads :
        BuiltLock(t) \/ BuiltRelock(t) \/ InWait(t) \/ SpuriousWakeup(t) \/ BuiltUnlock(t)

BuiltSpec == BuiltInit /\ [][BuiltNext]_builtVars

\* Threads inside lock() that pthreads lets run go on.
BuiltFairSpec ==
    /\ BuiltSpec
    /\ \A t \in Threads : WF_builtVars(InWait(t)) /\ WF_builtVars(BuiltRelock(t))
-----------------------------------------------------------------------------
\* What lock() and unlock() see of their condition is one remembered signal that lets somebody
\* through, whatever threads overtake each other and however often they wake for nothing.
ConditionSpec == Cond!ConditionSpec
============================================================================
