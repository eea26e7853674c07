------------------------- MODULE XUMutexCondition -------------------------
(***************************************************************************)
(* XUMutexCondition as built on pthreads (XUtil/XUMutex.cpp).  wait() and  *)
(* signal() take the condition's own mutex; a wait that finds no signal    *)
(* sleeps in pthread_cond_wait, which may also end for no reason, and      *)
(* which must take the mutex again: another wait may be faster.            *)
(* A stretch of code under the mutex is one step.                          *)
(***************************************************************************)
EXTENDS Naturals, FiniteSets

CONSTANT Threads   \* those that may wait; anybody may signal

VARIABLES
    m_signal,
    m_waiters,
    pc,     \* [Threads -> where the thread is]: outside, about to test, asleep in
            \* pthread_cond_wait, or woken and about to test again
    owed    \* history: signal() has been called since a wait() last returned

vars == <<m_signal, m_waiters, pc, owed>>

Sleepers == {t \in Threads : pc[t] = "asleep"}
Awake    == {t \in Threads : pc[t] \in {"enter", "woken"}}
Waiting  == Sleepers \cup Awake

TypeOK ==
    /\ m_signal \in BOOLEAN
    /\ m_waiters \in Nat
    /\ pc \in [Threads -> {"out", "enter", "asleep", "woken"}]
    /\ owed \in BOOLEAN

Init ==
    /\ m_signal = FALSE
    /\ m_waiters = 0
    /\ pc = [t \in Threads |-> "out"]
    /\ owed = FALSE

\* wait(mutex) up to the return of mutex->unlock().
Enter(t) ==
    /\ pc[t] = "out"
    /\ pc' = [pc EXCEPT ![t] = "enter"]
    /\ UNCHANGED <<m_signal, m_waiters, owed>>

\* Mutant of Sleep: the sleeper is not counted.
SleepUncounted(t) ==
    /\ m_waiters' = m_waiters - (IF pc[t] = "woken" THEN 1 ELSE 0)
    /\ pc' = [pc EXCEPT ![t] = "asleep"]
    /\ UNCHANGED <<m_signal, owed>>

\* The body of the while loop: a woken thread is counted off and on again.
Sleep(t) ==
    /\ m_waiters' = IF pc[t] = "woken" THEN m_waiters ELSE m_waiters + 1
    /\ pc' = [pc EXCEPT ![t] = "asleep"]
    /\ UNCHANGED <<m_signal, owed>>

\* Behind the loop.
Leave(t) ==
    /\ m_signal' = FALSE
    /\ m_waiters' = IF pc[t] = "woken" THEN m_waiters - 1 ELSE m_waiters
    /\ pc' = [pc EXCEPT ![t] = "out"]
    /\ owed' = FALSE

\* wait() while it holds the condition's mutex.
Test(t) ==
    /\ pc[t] \in {"enter", "woken"}
    /\ IF m_signal THEN Leave(t) ELSE Sleep(t)

\* pthread_cond_signal: some of those asleep, at least one if there is any, wake up.
Wake(some) == pc' = [t \in Threads |-> IF t \in some THEN "woken" ELSE pc[t]]

Signal ==
    /\ m_signal' = TRUE
    /\ IF m_waiters > 0
       THEN \E some \in SUBSET Sleepers : (some = {} => Sleepers = {}) /\ Wake(some)
       ELSE UNCHANGED pc
    /\ owed' = TRUE
    /\ UNCHANGED m_waiters

\* pthread_cond_wait returns though nobody has signalled.
Spurious(t) ==
    /\ pc[t] = "asleep"
    /\ Wake({t})
    /\ UNCHANGED <<m_signal, m_waiters, owed>>

Next == (\E t \in Threads : Enter(t) \/ Test(t) \/ Spurious(t)) \/ Signal

Spec == Init /\ [][Next]_vars
-----------------------------------------------------------------------------
\* m_waiters, on which it depends whether signal() wakes anybody, counts the threads in
\* pthread_cond_wait, those included that have been woken but not yet run.
WaitersCounted == m_waiters = Cardinality({t \in Threads : pc[t] \in {"asleep", "woken"}})

\* No wake-up is lost: while a signal is there to be used, not everybody who waits sleeps.
NoLostWakeup == owed /\ Waiting # {} => Awake # {}

\* wait() and signal() remember one signal until one wait has used it, and let somebody
\* through as long as there is one, spurious wake-ups and overtaking threads notwithstanding.
Condition == INSTANCE RememberedSignal WITH signalled <- owed, waiting <- Waiting
ConditionSpec == Condition!FairSpec
===========================================================================
