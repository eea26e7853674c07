----------------------------- MODULE Executor -----------------------------
(***************************************************************************)
(* What asio's io_service promises with one thread in run(): operations    *)
(* are executed one at a time, each once for every time it is posted, in   *)
(* the order in which they became ready, until the service is stopped.     *)
(* What a running operation keeps for itself is ready when it has ended.   *)
(***************************************************************************)
EXTENDS Sequences, Naturals

CONSTANT NoOp

VARIABLES
    ready,     \* the operations to be executed
    fresh,     \* those that will be ready behind the running one
    running,   \* the operation being executed, or NoOp
    stopped

vars == <<ready, fresh, running, stopped>>

Init == ready = <<>> /\ fresh = <<>> /\ running = NoOp /\ stopped = FALSE

Distinct(s) == \A i, j \in DOMAIN s : s[i] = s[j] => i = j

\* No operation is ready twice: it would be executed once too often.
Once == Distinct(ready' \o fresh')

Starts(old, new) == Len(old) <= Len(new) /\ SubSeq(new, 1, Len(old)) = old

Post == Starts(ready, ready') /\ Once /\ UNCHANGED <<fresh, running, stopped>>

Keep == Starts(fresh, fresh') /\ Once /\ UNCHANGED <<ready, running, stopped>>

Begin ==
    /\ ~stopped /\ running = NoOp /\ ready # <<>>
    /\ running' = Head(ready) /\ ready' = Tail(ready)
    /\ UNCHANGED <<fresh, stopped>>

\* An operation has found others to be executed: the first in its place, the rest later.
HandOver == running # NoOp /\ running' # NoOp /\ Starts(ready, ready') /\ Once /\ UNCHANGED <<fresh, stopped>>

\* The service stops by itself when nothing is left to wait for.
End ==
    /\ running' = NoOp
    /\ ready' = ready \o fresh /\ fresh' = <<>>
    /\ stopped' \in {stopped, TRUE}

Stop == stopped' = TRUE /\ UNCHANGED <<ready, fresh, running>>

\* What has not been executed when the service is destroyed is dropped.
Destroy == stopped /\ running = NoOp /\ ready' = <<>> /\ UNCHANGED <<fresh, running, stopped>>

Next == Post \/ Keep \/ Begin \/ HandOver \/ End \/ Stop \/ Destroy

Spec == Init /\ [][Next]_vars
===========================================================================
