------------------------- MODULE RememberedSignal -------------------------
(***************************************************************************)
(* What XUMutexCondition promises, whichever system it is built for: a     *)
(* signal is remembered until one wait returns, each return uses one up,   *)
(* and signals nobody has used are one.  It is a binary semaphore and not  *)
(* a condition variable: whoever waits must test its condition again, and  *)
(* whoever signals for several must see to it that the signal is passed on.*)
(***************************************************************************)
CONSTANT Threads

VARIABLES signalled,  \* a signal nobody has used yet
          waiting     \* the threads inside wait()

vars == <<signalled, waiting>>

Init == signalled = FALSE /\ waiting = {}

\* wait() has given its caller's mutex back.
Arrive(t) == waiting' = waiting \cup {t} /\ UNCHANGED signalled

Signal == signalled' = TRUE /\ UNCHANGED waiting

\* wait() goes on to take its caller's mutex again.
Pass(t) ==
    /\ t \in waiting /\ signalled
    /\ signalled' = FALSE
    /\ waiting' = waiting \ {t}

Next == (\E t \in Threads : Arrive(t) \/ Pass(t)) \/ Signal

Spec == Init /\ [][Next]_vars

\* A remembered signal lets somebody through who waits.
FairSpec == Spec /\ WF_vars(\E t \in Threads : Pass(t))
===========================================================================
