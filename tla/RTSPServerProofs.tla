-------------------------- MODULE RTSPServerProofs --------------------------
(***************************************************************************)
(* Theorems about asio's scheduler and reactor, for any descriptors and    *)
(* handlers and whoever starts operations when (ReactorSpec), and about    *)
(* the server, for any number of clients.                                  *)
(*                                                                         *)
(* QueuedOnce rests on where the reactor stands in the queue: behind every *)
(* descriptor (Order).  With that, NoLostWakeup needs what                 *)
(* task_interrupted_ and the event say of the thread (Wake), and           *)
(* NothingStranded that the descriptor's mutex is held while an operation  *)
(* is queued (Held).  That run() does not return by itself rests on what   *)
(* the counts of outstanding work cover (Work).                            *)
(*                                                                         *)
(* The server uses the reactor as the reactor allows, so that what is      *)
(* proved of the reactor for any callers holds of the server; and no       *)
(* handler runs while the objects it uses are deleted.                     *)
(*                                                                         *)
(* The server's scheduler is an executor.  That it executes nothing twice  *)
(* rests on where the operation of a kind on a descriptor is: in one of    *)
(* six places at most (OneEach).                                           *)
(***************************************************************************)
EXTENDS RTSPServer, FiniteSetTheorems, SequenceTheorems, TLAPS

-----------------------------------------------------------------------------
(* The scheduler and the reactor.                                          *)

Ops     == {TaskOp} \cup Descriptors \cup Handlers \cup DescriptorOps
Private == Ops \ {TaskOp}
Unique  == Descriptors \cup {TaskOp}

Starting == [d : Descriptors, kind : Kinds, speculative : BOOLEAN]

Types ==
    /\ op_queue_ \in Seq(Ops) /\ private_op_queue \in Seq(Private)
    /\ thread \in Places
    /\ completing \in Private \cup {NoOp}
    /\ registered \in SUBSET Descriptors /\ registered_out \in SUBSET Descriptors
    /\ edges \in SUBSET Descriptors
    /\ op_queue \in [Descriptors -> SUBSET Kinds]
    /\ task_result_ \in [Descriptors -> SUBSET Kinds]
    /\ can \in [Descriptors -> SUBSET Kinds]
    /\ starting \in [Threads -> {Nobody} \cup Starting]

\* What a sequence of operations holds.
In(s, x) == \E i \in DOMAIN s : s[i] = x
Plain(s) == \A i \in DOMAIN s : s[i] \notin Unique

\* Every descriptor and the reactor stand in it once, the reactor behind the descriptors.
Ordered(s) ==
    /\ \A i, j \in DOMAIN s : s[i] = s[j] /\ s[i] \in Unique => i = j
    /\ \A i, j \in DOMAIN s : s[i] = TaskOp /\ s[j] \in Descriptors => j < i

\* Descriptors are queued by the reactor alone, and the reactor again only behind them; so
\* there are none in the queues while it runs.
Order ==
    /\ Ordered(op_queue_) /\ Ordered(private_op_queue)
    /\ thread \in {"poll", "block", "collected"} => Plain(op_queue_) /\ task_
    /\ ~task_ => Plain(op_queue_)
    /\ thread # "collected" => Plain(private_op_queue)
    /\ completing \in Descriptors => thread = "complete" /\ ~In(op_queue_, completing)

\* Whoever posts or stops finds in the event and in task_interrupted_ whom to wake.
Wake ==
    /\ thread = "asleep" => op_queue_ = <<>> /\ ~stopped_
    /\ thread = "woken" /\ (op_queue_ # <<>> \/ stopped_) => signalled
    /\ thread = "block" /\ ~task_interrupted_ => op_queue_ = <<>> /\ ~stopped_
    /\ thread = "block" /\ task_interrupted_ => interrupter

\* Operations are queued in descriptors epoll watches, and by one thread at a time.
Held ==
    /\ \A d \in Descriptors : op_queue[d] # {} => d \in registered
    /\ \A d \in Descriptors : "write" \in op_queue[d] => d \in registered_out
    /\ \A t \in Threads : starting[t] # Nobody => starting[t].d \in registered
    /\ \A t, u \in Threads :
         starting[t] # Nobody /\ starting[u] # Nobody /\ starting[t].d = starting[u].d => t = u
-----------------------------------------------------------------------------
(* Sequences of operations.                                                *)

\* The reactor, descriptors and their operations are told apart.
LEMMA Apart ==
  /\ Descriptors \subseteq Private /\ Private \subseteq Ops /\ TaskOp \in Ops \ Private
  /\ NoOp \notin Ops
  /\ \A d \in Descriptors, kind \in Kinds : Op(d, kind) \in Private \ Unique
  /\ \A h \in Handlers : h \in Private \ Unique
  BY ReactorAssumption DEF Ops, Private, Unique, DescriptorOps, Kinds, Op

\* What a queue appended to another holds, and when the order is kept.
LEMMA Joined ==
  ASSUME NEW s \in Seq(Ops), NEW t \in Seq(Ops)
  PROVE  /\ s \o t \in Seq(Ops)
         /\ \A x : In(s \o t, x) <=> In(s, x) \/ In(t, x)
         /\ Plain(s) /\ Plain(t) => Plain(s \o t)
         /\ Ordered(s) /\ Plain(t) => Ordered(s \o t)
         /\ Plain(s) /\ Ordered(t) => Ordered(s \o t)
<1> DEFINE c == s \o t
           m == Len(s)
           n == Len(t)
<1>1. /\ c \in Seq(Ops) /\ m \in Nat /\ n \in Nat
      /\ DOMAIN s = 1..m /\ DOMAIN t = 1..n /\ DOMAIN c = 1..m + n
      /\ \A i \in 1..m : c[i] = s[i]
      /\ \A i \in m + 1..m + n : c[i] = t[i - m]
  BY ConcatProperties, LenProperties
<1>2. \A i \in 1..m + n : i \in 1..m \/ (i \in m + 1..m + n /\ i - m \in 1..n)
  BY <1>1
<1>3. \A j \in 1..n : j + m \in 1..m + n /\ c[j + m] = t[j]
  <2> SUFFICES ASSUME NEW j \in 1..n PROVE j + m \in 1..m + n /\ c[j + m] = t[j]
    OBVIOUS
  <2>1. j + m \in m + 1..m + n /\ j + m \in 1..m + n /\ (j + m) - m = j  BY <1>1
  <2> QED  BY <2>1, <1>1
<1> HIDE DEF c, m, n
<1>4. \A x : In(c, x) <=> In(s, x) \/ In(t, x)
  <2> SUFFICES ASSUME NEW x PROVE In(c, x) <=> In(s, x) \/ In(t, x)
    OBVIOUS
  <2>1. In(c, x) => In(s, x) \/ In(t, x)  BY <1>1, <1>2 DEF In
  <2>2. In(s, x) => In(c, x)
    <3>1. \A i \in 1..m : i \in 1..m + n  BY <1>1
    <3> QED  BY <3>1, <1>1 DEF In
  <2>3. In(t, x) => In(c, x)  BY <1>1, <1>3 DEF In
  <2> QED  BY <2>1, <2>2, <2>3
<1>5. Plain(s) /\ Plain(t) => Plain(c)  BY <1>1, <1>2 DEF Plain
<1>6. Ordered(s) /\ Plain(t) => Ordered(c)
  <2> SUFFICES ASSUME Ordered(s), Plain(t) PROVE Ordered(c)
    OBVIOUS
  <2>1. \A i \in 1..m + n : c[i] \in Unique => i \in 1..m  BY <1>1, <1>2 DEF Plain
  <2>2. ASSUME NEW i \in DOMAIN c, NEW j \in DOMAIN c, c[i] = c[j], c[i] \in Unique PROVE i = j
    BY <2>1, <2>2, <1>1 DEF Ordered
  <2>3. ASSUME NEW i \in DOMAIN c, NEW j \in DOMAIN c, c[i] = TaskOp, c[j] \in Descriptors PROVE j < i
    <3>1. c[i] \in Unique /\ c[j] \in Unique  BY <2>3 DEF Unique
    <3> QED  BY <3>1, <2>1, <2>3, <1>1 DEF Ordered
  <2> QED  BY <2>2, <2>3 DEF Ordered
<1>7. Plain(s) /\ Ordered(t) => Ordered(c)
  <2> SUFFICES ASSUME Plain(s), Ordered(t) PROVE Ordered(c)
    OBVIOUS
  <2>1. \A i \in 1..m + n : c[i] \in Unique => i \in m + 1..m + n /\ i - m \in 1..n /\ c[i] = t[i - m]
    BY <1>1, <1>2 DEF Plain
  <2>2. ASSUME NEW i \in DOMAIN c, NEW j \in DOMAIN c, c[i] = c[j], c[i] \in Unique PROVE i = j
    <3>1. i \in 1..m + n /\ j \in 1..m + n /\ i - m \in 1..n /\ j - m \in 1..n /\ t[i - m] = t[j - m]
      BY <2>1, <2>2, <1>1
    <3>2. t[i - m] \in Unique  BY <2>1, <2>2, <1>1
    <3>3. i - m = j - m  BY <3>1, <3>2, <1>1 DEF Ordered
    <3> QED  BY <3>1, <3>3, <1>1
  <2>3. ASSUME NEW i \in DOMAIN c, NEW j \in DOMAIN c, c[i] = TaskOp, c[j] \in Descriptors PROVE j < i
    <3>1. c[i] \in Unique /\ c[j] \in Unique  BY <2>3 DEF Unique
    <3>2. /\ i \in 1..m + n /\ j \in 1..m + n /\ i - m \in 1..n /\ j - m \in 1..n
          /\ t[i - m] = TaskOp /\ t[j - m] \in Descriptors
      BY <3>1, <2>1, <2>3, <1>1
    <3>3. j - m < i - m  BY <3>2, <1>1 DEF Ordered
    <3> QED  BY <3>2, <3>3, <1>1
  <2> QED  BY <2>2, <2>3 DEF Ordered
<1> QED  BY <1>1, <1>4, <1>5, <1>6, <1>7 DEF c

\* A queue of one operation.
LEMMA Single ==
  ASSUME NEW op \in Ops
  PROVE  /\ <<op>> \in Seq(Ops) /\ Ordered(<<op>>)
         /\ \A x : In(<<op>>, x) <=> x = op
         /\ op \notin Unique => Plain(<<op>>)
<1>1. <<op>> \in Seq(Ops) /\ DOMAIN <<op>> = {1} /\ <<op>>[1] = op  OBVIOUS
<1>2. \A i, j \in DOMAIN <<op>> : i = j  BY <1>1
<1>3. TaskOp \notin Descriptors  BY ReactorAssumption
<1>4. Ordered(<<op>>)  BY <1>1, <1>2, <1>3 DEF Ordered
<1> QED  BY <1>1, <1>4 DEF In, Plain

\* One operation more at the end, and the reactor behind everything.
LEMMA Appended ==
  ASSUME NEW s \in Seq(Ops), NEW op \in Ops
  PROVE  /\ Append(s, op) = s \o <<op>> /\ Append(s, op) \in Seq(Ops)
         /\ Append(s, op) # <<>>
         /\ \A x : In(Append(s, op), x) <=> In(s, x) \/ x = op
         /\ op \notin Unique /\ Ordered(s) => Ordered(Append(s, op))
         /\ op \notin Unique /\ Plain(s) => Plain(Append(s, op))
         /\ Ordered(s) /\ ~In(s, TaskOp) => Ordered(Append(s, TaskOp))
<1>1. Append(s, op) = s \o <<op>> /\ Append(s, op) \in Seq(Ops) /\ Append(s, op) # <<>>
  BY AppendProperties, AppendIsConcat
<1>2. Ordered(s) /\ ~In(s, TaskOp) => Ordered(Append(s, TaskOp))
  <2> SUFFICES ASSUME Ordered(s), ~In(s, TaskOp) PROVE Ordered(Append(s, TaskOp))
    OBVIOUS
  <2> DEFINE c == Append(s, TaskOp)
             m == Len(s)
  <2>1. /\ m \in Nat /\ DOMAIN s = 1..m /\ DOMAIN c = 1..m + 1
        /\ \A i \in 1..m : c[i] = s[i]
        /\ c[m + 1] = TaskOp
    BY Apart, AppendProperties, LenProperties
  <2>2. \A i \in 1..m + 1 : i \in 1..m \/ i = m + 1  BY <2>1
  <2> HIDE DEF c, m
  <2>3. TaskOp \notin Descriptors  BY ReactorAssumption
  <2>4. \A i \in 1..m : c[i] # TaskOp  BY <2>1 DEF In
  <2>5. \A i, j \in DOMAIN c : c[i] = c[j] /\ c[i] \in Unique => i = j
    BY <2>1, <2>2, <2>4 DEF Ordered
  <2>6. ASSUME NEW i \in DOMAIN c, NEW j \in DOMAIN c, c[i] = TaskOp, c[j] \in Descriptors PROVE j < i
    <3>1. i = m + 1 /\ j \in 1..m  BY <2>1, <2>2, <2>3, <2>4, <2>6
    <3> QED  BY <3>1, <2>1
  <2> QED  BY <2>5, <2>6 DEF Ordered, c
<1>3. <<op>> \in Seq(Ops) /\ \A x : In(<<op>>, x) <=> x = op  BY Single
<1>4. op \notin Unique => Plain(<<op>>)  BY Single
<1>5. \A x : In(s \o <<op>>, x) <=> In(s, x) \/ x = op  BY <1>3, Joined
<1>6. op \notin Unique => (Ordered(s) => Ordered(s \o <<op>>)) /\ (Plain(s) => Plain(s \o <<op>>))
  BY <1>3, <1>4, Joined
<1> QED  BY <1>1, <1>2, <1>5, <1>6

\* What is left when the first operation is taken.
LEMMA Taken ==
  ASSUME NEW s \in Seq(Ops), s # <<>>
  PROVE  /\ Tail(s) \in Seq(Ops) /\ Head(s) \in Ops
         /\ Len(s) > 1 <=> Tail(s) # <<>>
         /\ \A x : In(s, x) <=> x = Head(s) \/ In(Tail(s), x)
         /\ Plain(s) => Plain(Tail(s)) /\ Head(s) \notin Unique
         /\ Ordered(s) => Ordered(Tail(s))
         /\ Ordered(s) /\ Head(s) \in Unique => ~In(Tail(s), Head(s))
         /\ Ordered(s) /\ Head(s) = TaskOp => Plain(Tail(s))
<1> DEFINE c == Tail(s)
           m == Len(s)
<1>1. /\ c \in Seq(Ops) /\ m \in Nat /\ m > 0 /\ Len(c) = m - 1
      /\ DOMAIN s = 1..m /\ DOMAIN c = 1..m - 1
      /\ \A i \in 1..m - 1 : c[i] = s[i + 1]
      /\ Head(s) = s[1] /\ Head(s) \in Ops
  BY HeadTailProperties, LenProperties
<1>2. m > 1 <=> c # <<>>  BY <1>1
<1>3. \A i \in 1..m - 1 : i + 1 \in 1..m /\ i + 1 # 1  BY <1>1
<1>4. \A i \in 1..m : i = 1 \/ (i - 1 \in 1..m - 1 /\ c[i - 1] = s[i])
  <2> SUFFICES ASSUME NEW i \in 1..m, i # 1 PROVE i - 1 \in 1..m - 1 /\ c[i - 1] = s[i]
    OBVIOUS
  <2>1. i - 1 \in 1..m - 1 /\ (i - 1) + 1 = i  BY <1>1
  <2> QED  BY <2>1, <1>1
<1>5. 1 \in 1..m  BY <1>1
<1> HIDE DEF c, m
<1>6. \A x : In(s, x) <=> x = Head(s) \/ In(c, x)
  <2> SUFFICES ASSUME NEW x PROVE In(s, x) <=> x = Head(s) \/ In(c, x)
    OBVIOUS
  <2>1. In(s, x) => x = Head(s) \/ In(c, x)  BY <1>1, <1>4 DEF In
  <2>2. x = Head(s) => In(s, x)  BY <1>1, <1>5 DEF In
  <2>3. In(c, x) => In(s, x)  BY <1>1, <1>3 DEF In
  <2> QED  BY <2>1, <2>2, <2>3
<1>7. Plain(s) => Plain(c) /\ Head(s) \notin Unique  BY <1>1, <1>3, <1>5 DEF Plain
<1>8. Ordered(s) => Ordered(c)
  <2> SUFFICES ASSUME Ordered(s) PROVE Ordered(c)
    OBVIOUS
  <2>1. ASSUME NEW i \in DOMAIN c, NEW j \in DOMAIN c, c[i] = c[j], c[i] \in Unique PROVE i = j
    <3>1. i + 1 = j + 1  BY <2>1, <1>1, <1>3 DEF Ordered
    <3> QED  BY <3>1, <1>1
  <2>2. ASSUME NEW i \in DOMAIN c, NEW j \in DOMAIN c, c[i] = TaskOp, c[j] \in Descriptors PROVE j < i
    <3>1. j + 1 < i + 1  BY <2>2, <1>1, <1>3 DEF Ordered
    <3> QED  BY <3>1, <1>1
  <2> QED  BY <2>1, <2>2 DEF Ordered
<1>9. Ordered(s) /\ Head(s) \in Unique => ~In(c, Head(s))
  <2> SUFFICES ASSUME Ordered(s), Head(s) \in Unique, NEW i \in DOMAIN c, c[i] = Head(s) PROVE FALSE
    BY DEF In
  <2>1. i + 1 \in DOMAIN s /\ 1 \in DOMAIN s /\ s[i + 1] = s[1] /\ s[1] \in Unique /\ i + 1 # 1
    BY <1>1, <1>3, <1>5
  <2> QED  BY <2>1 DEF Ordered
<1>10. Ordered(s) /\ Head(s) = TaskOp => Plain(c)
  <2> SUFFICES ASSUME Ordered(s), Head(s) = TaskOp, NEW i \in DOMAIN c PROVE c[i] \notin Unique
    BY DEF Plain
  <2>1. i + 1 \in DOMAIN s /\ 1 \in DOMAIN s /\ c[i] = s[i + 1] /\ i + 1 # 1 /\ ~(i + 1 < 1)
    BY <1>1, <1>3, <1>5
  <2>2. s[1] = TaskOp  BY <1>1
  <2>3. s[i + 1] \notin Descriptors  BY <2>1, <2>2 DEF Ordered
  <2>4. s[i + 1] # TaskOp  BY <2>1, <2>2 DEF Ordered, Unique
  <2> QED  BY <2>1, <2>3, <2>4 DEF Unique
<1> QED  BY <1>1, <1>2, <1>6, <1>7, <1>8, <1>9, <1>10 DEF c, m

\* An operation that is neither a descriptor nor the reactor changes nothing about those.
LEMMA Pushed ==
  ASSUME NEW s \in Seq(Ops), NEW op \in Ops, op \notin Unique
  PROVE  /\ Append(s, op) = s \o <<op>> /\ Append(s, op) # <<>>
         /\ Ordered(s) => Ordered(Append(s, op))
         /\ Plain(s) => Plain(Append(s, op))
         /\ \A d \in Descriptors : In(Append(s, op), d) <=> In(s, d)
<1>1. Append(s, op) = s \o <<op>> /\ Append(s, op) # <<>>  BY Appended
<1>2. (Ordered(s) => Ordered(Append(s, op))) /\ (Plain(s) => Plain(Append(s, op)))  BY Appended
<1>3. \A x : In(Append(s, op), x) <=> In(s, x) \/ x = op  BY Appended
<1>4. \A d \in Descriptors : d # op  BY DEF Unique
<1> QED  BY <1>1, <1>2, <1>3, <1>4
-----------------------------------------------------------------------------
(* Types.                                                                  *)

\* What a thread keeps for itself is a queue of operations.
LEMMA PrivateSeq == ASSUME NEW s \in Seq(Private) PROVE s \in Seq(Ops)
  BY Apart, SeqMonotonic

\* run() returns every descriptor it has found, once.
LEMMA Reports ==
  ASSUME edges \in SUBSET Descriptors,
         NEW found, found = {d \in edges : Events(d) # {}},
         NEW order \in [1..Cardinality(found) -> found]
  PROVE  /\ order \in Seq(Private) /\ Ordered(<<>>)
         /\ \A i \in DOMAIN order : order[i] \in Descriptors
         /\ (\A i, j \in DOMAIN order : order[i] = order[j] => i = j) =>
              Ordered(order) /\ \A d \in found : In(order, d)
<1> DEFINE n == Cardinality(found)
<1>1. found \in SUBSET Descriptors /\ IsFiniteSet(found)  BY ReactorAssumption, FS_Subset
<1>2. n \in Nat  BY <1>1, FS_CardinalityType
<1>3. order \in Seq(Private)
  <2>1. order \in [1..n -> Private]  BY <1>1, Apart
  <2>2. order \in UNION {[1..k -> Private] : k \in Nat}  BY <1>2, <2>1
  <2> QED  BY <2>2, SeqDef
<1>4. \A i \in DOMAIN order : order[i] \in Descriptors  BY <1>1
<1>5. ASSUME \A i, j \in DOMAIN order : order[i] = order[j] => i = j
      PROVE  Ordered(order) /\ \A d \in found : In(order, d)
  <2>1. Ordered(order)
    <3>1. TaskOp \notin Descriptors  BY ReactorAssumption
    <3> QED  BY <3>1, <1>4, <1>5 DEF Ordered
  <2>2. order \in Injection(1..n, found)  BY <1>5 DEF Injection, IsInjective
  <2>3. Cardinality(1..n) = n  BY <1>2, FS_Interval
  <2>4. order \in Surjection(1..n, found)  BY <1>1, <2>2, <2>3, FS_Injection
  <2>5. \A d \in found : \E i \in 1..n : order[i] = d  BY <2>4 DEF Surjection
  <2> QED  BY <2>1, <2>5 DEF In
<1>6. Ordered(<<>>)  BY DEF Ordered
<1> QED  BY <1>3, <1>4, <1>5, <1>6

\* Every step keeps the types.
LEMMA TypesStep ==
  ASSUME Types, [ReactorNext]_reactorVars
  PROVE  Types'
<1>1. CASE Enter /\ UNCHANGED reactorOnlyVars
  BY <1>1 DEF Types, Enter, schedulerVars, reactorOnlyVars, Places
<1>2. CASE Leave /\ UNCHANGED reactorOnlyVars
  BY <1>2 DEF Types, Leave, schedulerVars, reactorOnlyVars, Places
<1>3. CASE RunTask /\ UNCHANGED reactorOnlyVars
  BY <1>3, Taken DEF Types, RunTask, reactorOnlyVars, Places
<1>4. CASE RunHandler /\ UNCHANGED reactorOnlyVars
  <2>1. Tail(op_queue_) \in Seq(Ops) /\ Head(op_queue_) \in Ops  BY <1>4, Taken DEF Types, RunHandler
  <2>2. Head(op_queue_) \in Private  BY <2>1, <1>4 DEF Private, RunHandler
  <2> QED  BY <2>1, <2>2, <1>4 DEF Types, RunHandler, reactorOnlyVars, Places
<1>5. CASE Sleep /\ UNCHANGED reactorOnlyVars
  BY <1>5 DEF Types, Sleep, schedulerVars, reactorOnlyVars, Places
<1>6. CASE Spurious /\ UNCHANGED reactorOnlyVars
  BY <1>6 DEF Types, Spurious, schedulerVars, reactorOnlyVars, Places
<1>7. CASE Awake /\ UNCHANGED reactorOnlyVars
  BY <1>7 DEF Types, Awake, reactorOnlyVars, Places
<1>8. CASE TaskCleanup /\ UNCHANGED reactorOnlyVars
  <2>1. private_op_queue \in Seq(Ops)  BY PrivateSeq DEF Types
  <2>2. op_queue_ \o private_op_queue \in Seq(Ops)  BY <2>1, Joined DEF Types
  <2>3. Append(op_queue_ \o private_op_queue, TaskOp) \in Seq(Ops)  BY <2>2, Appended, Apart
  <2> QED  BY <2>3, <1>8 DEF Types, TaskCleanup, reactorOnlyVars, Places
<1>9. CASE Completed /\ UNCHANGED reactorOnlyVars
  <2>1. private_op_queue \in Seq(Ops)  BY PrivateSeq DEF Types
  <2>2. op_queue_ \o private_op_queue \in Seq(Ops)  BY <2>1, Joined DEF Types
  <2> QED  BY <2>2, <1>9 DEF Types, Completed, WorkCleanup, reactorOnlyVars, Places
<1>10. CASE InitTask /\ UNCHANGED reactorOnlyVars
  <2>1. Append(op_queue_, TaskOp) \in Seq(Ops)  BY Appended, Apart DEF Types
  <2> QED  BY <2>1, <1>10 DEF Types, InitTask, Woken, reactorOnlyVars, Places
<1>11. CASE Stop /\ UNCHANGED reactorOnlyVars
  BY <1>11 DEF Types, Stop, StopAllThreads, Woken, reactorOnlyVars, Places
<1>12. ASSUME NEW h \in Handlers, Dispatch(h), UNCHANGED reactorOnlyVars
      PROVE  Types'
  <2>1. op_queue_ \o <<h>> \in Seq(Ops)
    <3>1. h \in Ops  BY Apart
    <3> QED  BY <3>1, Appended DEF Types
  <2> QED  BY <2>1, <1>12 DEF Types, Dispatch, Push, Woken, reactorOnlyVars, Places
<1>13. ASSUME NEW d \in Descriptors, Register(d)
      PROVE  Types'
  BY <1>13 DEF Types, Register, Armed, schedulerVars
<1>14. ASSUME NEW d \in Descriptors, Resets(d)
      PROVE  Types'
  BY <1>14 DEF Types, Resets, schedulerVars
<1>15. ASSUME NEW d \in Descriptors, NEW kinds \in SUBSET Kinds, Becomes(d, kinds)
      PROVE  Types'
  <2>1. can' \in [Descriptors -> SUBSET Kinds]  BY <1>15 DEF Types, Becomes
  <2> QED  BY <2>1, <1>15 DEF Types, Becomes, schedulerVars
<1>16. ASSUME NEW d \in Descriptors, NEW left \in SUBSET Kinds, Perform(d, left)
      PROVE  Types'
  <2> DEFINE done == op_queue[d] \cap task_result_[d] \cap can[d]
  <2>1. op_queue' = [op_queue EXCEPT ![d] = @ \ done] /\ can' = [can EXCEPT ![d] = left]
    BY <1>16 DEF Perform
  <2>2. op_queue' \in [Descriptors -> SUBSET Kinds] /\ can' \in [Descriptors -> SUBSET Kinds]
    BY <2>1 DEF Types
  <2>3. Op(d, "read") \in Private /\ Op(d, "write") \in Private /\ Op(d, "read") \in Ops
    BY Apart DEF Kinds
  <2>4. op_queue_' \in Seq(Ops)  BY <2>3, <1>16, Appended DEF Types, Perform
  <2>5. completing' \in Private \cup {NoOp}  BY <2>3, <1>16 DEF Perform
  <2> QED  BY <2>2, <2>4, <2>5, <1>16 DEF Types, Perform, Places
<1>17. ASSUME NEW t \in Threads, NEW d \in Descriptors, NEW kind \in Kinds, NEW continuation \in BOOLEAN,
         NEW left \in SUBSET Kinds, StartPerforms(t, d, kind, continuation, left)
      PROVE  Types'
  <2>1. can' \in [Descriptors -> SUBSET Kinds]  BY <1>17 DEF Types, StartPerforms
  <2>2. Op(d, kind) \in Private /\ Op(d, kind) \in Ops  BY Apart
  <2>3. Append(private_op_queue, Op(d, kind)) \in Seq(Private)
    BY <2>2, AppendProperties DEF Types
  <2>4. op_queue_ \o <<Op(d, kind)>> \in Seq(Ops)  BY <2>2, Appended DEF Types
  <2> QED  BY <2>1, <2>3, <2>4, <1>17 DEF Types, StartPerforms, PostImmediate, Push, Woken, Places
<1>18. ASSUME NEW t \in Threads, NEW d \in Descriptors, NEW kind \in Kinds, NEW speculative \in BOOLEAN,
         StartBlocks(t, d, kind, speculative)
      PROVE  Types'
  <2>1. [d |-> d, kind |-> kind, speculative |-> speculative] \in Starting  BY DEF Starting
  <2> QED  BY <2>1, <1>18 DEF Types, StartBlocks, schedulerVars
<1>19. ASSUME NEW t \in Threads, StartQueues(t)
      PROVE  Types'
  <2>1. starting[t] \in Starting  BY <1>19 DEF Types, StartQueues
  <2>2. starting[t].d \in Descriptors /\ starting[t].kind \in Kinds  BY <2>1 DEF Starting
  <2>3. op_queue' = [op_queue EXCEPT ![starting[t].d] = @ \cup {starting[t].kind}]  BY <1>19 DEF StartQueues
  <2>4. op_queue' \in [Descriptors -> SUBSET Kinds]  BY <2>2, <2>3 DEF Types
  <2>5. starting' \in [Threads -> {Nobody} \cup Starting]  BY <1>19 DEF Types, StartQueues
  <2>6. registered_out' \in SUBSET Descriptors  BY <2>2, <1>19 DEF Types, StartQueues
  <2>7. edges' \in SUBSET Descriptors  BY <2>2, <1>19 DEF Types, StartQueues, Armed
  <2> QED  BY <2>4, <2>5, <2>6, <2>7, <1>19 DEF Types, StartQueues, WorkStarted
<1>20. CASE Collect
  <2> DEFINE found == {d \in edges : Events(d) # {}}
  <2>1. PICK order \in [1..Cardinality(found) -> found] : TaskReturns(order)  BY <1>20 DEF Collect
  <2>2. order \in Seq(Private)  BY <2>1, Reports DEF Types
  <2>3. task_result_' \in [Descriptors -> SUBSET Kinds]
    <3>1. \A d \in Descriptors : Events(d) \in SUBSET Kinds  BY DEF Types, Events, Kinds
    <3> QED  BY <3>1, <1>20 DEF Types, Collect
  <2> QED  BY <2>1, <2>2, <2>3, <1>20 DEF Types, Collect, TaskReturns, Places
<1>21. CASE ShutdownService
  <2>1. <<>> \in Seq(Ops)  OBVIOUS
  <2> QED  BY <2>1, <1>21 DEF Types, ShutdownService, Places
<1>22. CASE UNCHANGED reactorVars
  BY <1>22 DEF Types, reactorVars, schedulerVars, reactorOnlyVars, Places
<1>23. \A kind \in Kinds : {kind} \in SUBSET Kinds  OBVIOUS
<1>24. Kinds \in SUBSET Kinds  OBVIOUS
<1> QED
  BY <1>1, <1>2, <1>3, <1>4, <1>5, <1>6, <1>7, <1>8, <1>9, <1>10, <1>11, <1>12,
     <1>13, <1>14, <1>15, <1>16, <1>17, <1>18, <1>19, <1>20, <1>21, <1>22, <1>23, <1>24 DEF ReactorNext
-----------------------------------------------------------------------------
(* QueuedOnce.                                                             *)

\* Every step keeps the order of the queues.
LEMMA OrderStep ==
  ASSUME Types, Order, [ReactorNext]_reactorVars
  PROVE  Order'
<1>1. CASE Enter /\ UNCHANGED reactorOnlyVars
  BY <1>1 DEF Order, Enter, schedulerVars, reactorOnlyVars
<1>2. CASE Leave /\ UNCHANGED reactorOnlyVars
  BY <1>2 DEF Order, Leave, schedulerVars, reactorOnlyVars
<1>3. CASE RunTask /\ UNCHANGED reactorOnlyVars
  <2>1. op_queue_ # <<>> /\ Head(op_queue_) = TaskOp /\ op_queue_' = Tail(op_queue_)  BY <1>3 DEF RunTask
  <2>2. Plain(op_queue_') /\ Ordered(op_queue_')  BY <2>1, Taken DEF Types, Order
  <2>3. task_  BY <2>1, Taken DEF Types, Order, Unique
  <2> QED  BY <2>2, <2>3, <1>3 DEF Order, RunTask
<1>4. CASE RunHandler /\ UNCHANGED reactorOnlyVars
  <2>1. op_queue_ # <<>> /\ completing' = Head(op_queue_) /\ op_queue_' = Tail(op_queue_)  BY <1>4 DEF RunHandler
  <2>2. Ordered(op_queue_') /\ (~task_ => Plain(op_queue_'))  BY <2>1, Taken DEF Types, Order
  <2>3. completing' \in Descriptors => ~In(op_queue_', completing')  BY <2>1, Taken DEF Types, Order, Unique
  <2> QED  BY <2>2, <2>3, <1>4 DEF Order, RunHandler
<1>5. CASE Sleep /\ UNCHANGED reactorOnlyVars
  BY <1>5 DEF Order, Sleep, schedulerVars, reactorOnlyVars
<1>6. CASE Spurious /\ UNCHANGED reactorOnlyVars
  BY <1>6 DEF Order, Spurious, schedulerVars, reactorOnlyVars
<1>7. CASE Awake /\ UNCHANGED reactorOnlyVars
  BY <1>7 DEF Order, Awake, schedulerVars, reactorOnlyVars
<1>8. CASE TaskCleanup /\ UNCHANGED reactorOnlyVars
  <2>1. Plain(op_queue_) /\ Ordered(private_op_queue) /\ task_  BY <1>8 DEF Order, TaskCleanup
  <2>2. private_op_queue \in Seq(Ops)  BY PrivateSeq DEF Types
  <2> DEFINE c == op_queue_ \o private_op_queue
  <2>3. c \in Seq(Ops) /\ Ordered(c)  BY <2>1, <2>2, Joined DEF Types
  <2>4. ~In(c, TaskOp)
    <3>1. ~In(op_queue_, TaskOp)  BY <2>1 DEF Plain, In, Unique
    <3>2. ~In(private_op_queue, TaskOp)
      <4>1. \A i \in DOMAIN private_op_queue : private_op_queue[i] \in Private
        BY LenProperties, ElementOfSeq DEF Types
      <4> QED  BY <4>1, Apart DEF In
    <3> QED  BY <3>1, <3>2, <2>2, Joined DEF Types
  <2>5. op_queue_' = Append(c, TaskOp) /\ private_op_queue' = <<>> /\ thread' = "loop" /\ completing' = completing
        /\ task_' = task_ /\ completing \notin Descriptors
    BY <1>8 DEF TaskCleanup, Order
  <2>6. Ordered(op_queue_')  BY <2>3, <2>4, <2>5, Appended, Apart
  <2>7. Plain(<<>>) /\ Ordered(<<>>)  BY DEF Plain, Ordered
  <2> QED  BY <2>1, <2>5, <2>6, <2>7 DEF Order
<1>9. CASE Completed /\ UNCHANGED reactorOnlyVars
  <2>1. thread = "complete" /\ Plain(private_op_queue) /\ Ordered(op_queue_)
    BY <1>9 DEF Order, Completed, WorkCleanup
  <2>2. private_op_queue \in Seq(Ops)  BY PrivateSeq DEF Types
  <2>3. op_queue_' = op_queue_ \o private_op_queue  BY <1>9 DEF Completed, WorkCleanup
  <2>4. Ordered(op_queue_') /\ (Plain(op_queue_) => Plain(op_queue_'))  BY <2>1, <2>2, <2>3, Joined DEF Types
  <2>5. Plain(<<>>) /\ Ordered(<<>>)  BY DEF Plain, Ordered
  <2>6. NoOp \notin Descriptors  BY ReactorAssumption
  <2> QED  BY <2>4, <2>5, <2>6, <1>9 DEF Order, Completed, WorkCleanup
<1>10. CASE InitTask /\ UNCHANGED reactorOnlyVars
  <2>1. ~task_ /\ Plain(op_queue_) /\ Ordered(op_queue_)  BY <1>10 DEF Order, InitTask
  <2>2. ~In(op_queue_, TaskOp)  BY <2>1 DEF Plain, In, Unique
  <2>3. op_queue_' = Append(op_queue_, TaskOp)  BY <1>10 DEF InitTask
  <2>4. Ordered(op_queue_')  BY <2>1, <2>2, <2>3, Appended, Apart DEF Types
  <2>5. \A d \in Descriptors : In(op_queue_', d) => In(op_queue_, d)
    BY <2>3, Appended, Apart, ReactorAssumption DEF Types
  <2> QED  BY <2>1, <2>4, <2>5, <1>10 DEF Order, InitTask, Woken
<1>11. CASE Stop /\ UNCHANGED reactorOnlyVars
  BY <1>11 DEF Order, Stop, StopAllThreads, Woken, reactorOnlyVars
<1>12. ASSUME NEW h \in Handlers, Dispatch(h), UNCHANGED reactorOnlyVars
      PROVE  Order'
  <2>1. op_queue_' = op_queue_ \o <<h>> /\ thread' = Woken  BY <1>12 DEF Dispatch, Push
  <2>2. h \in Ops /\ h \notin Unique  BY Apart
  <2>3. /\ Ordered(op_queue_') /\ (Plain(op_queue_) => Plain(op_queue_'))
        /\ \A x \in Descriptors : In(op_queue_', x) => In(op_queue_, x)
    BY <2>1, <2>2, Pushed DEF Types, Order
  <2> QED  BY <2>3, <1>12 DEF Order, Dispatch, Push, Woken, reactorOnlyVars
<1>13. ASSUME NEW d \in Descriptors, Register(d)
      PROVE  Order'
  BY <1>13 DEF Order, Register, schedulerVars, reactorOnlyVars
<1>14. ASSUME NEW d \in Descriptors, Resets(d)
      PROVE  Order'
  BY <1>14 DEF Order, Resets, schedulerVars, reactorOnlyVars
<1>15. ASSUME NEW d \in Descriptors, NEW kinds \in SUBSET Kinds, Becomes(d, kinds)
      PROVE  Order'
  BY <1>15 DEF Order, Becomes, schedulerVars, reactorOnlyVars
<1>16. ASSUME NEW d \in Descriptors, NEW left \in SUBSET Kinds, Perform(d, left)
      PROVE  Order'
  <2>1. Op(d, "read") \in Ops \ Unique /\ Op(d, "write") \notin Descriptors /\ NoOp \notin Descriptors
    BY Apart, ReactorAssumption DEF Kinds, Unique
  <2>2. Ordered(op_queue_') /\ (Plain(op_queue_) => Plain(op_queue_'))
    <3>1. op_queue_' = op_queue_ \/ op_queue_' = Append(op_queue_, Op(d, "read"))  BY <1>16 DEF Perform
    <3>2. Op(d, "read") \in Ops /\ Op(d, "read") \notin Unique  BY <2>1
    <3> QED  BY <3>1, <3>2, Pushed DEF Types, Order
  <2>3. completing' \notin Descriptors  BY <2>1, <1>16 DEF Perform, Unique
  <2> QED  BY <2>2, <2>3, <1>16 DEF Order, Perform
<1>17. ASSUME NEW t \in Threads, NEW d \in Descriptors, NEW kind \in Kinds, NEW continuation \in BOOLEAN,
         NEW left \in SUBSET Kinds, StartPerforms(t, d, kind, continuation, left)
      PROVE  Order'
  <2>1. Op(d, kind) \in Private /\ Op(d, kind) \in Ops /\ Op(d, kind) \notin Unique  BY Apart
  <2>2. CASE continuation /\ t = "service"
    <3>1. private_op_queue \in Seq(Ops)  BY PrivateSeq DEF Types
    <3>2. private_op_queue' = Append(private_op_queue, Op(d, kind))
      BY <2>2, <1>17 DEF StartPerforms, PostImmediate
    <3>3. Ordered(private_op_queue') /\ (Plain(private_op_queue) => Plain(private_op_queue'))
      BY <3>1, <3>2, <2>1, Appended DEF Order
    <3> QED  BY <3>3, <2>2, <1>17 DEF Order, StartPerforms, PostImmediate
  <2>3. CASE ~(continuation /\ t = "service")
    <3>1. op_queue_' = op_queue_ \o <<Op(d, kind)>> /\ thread' = Woken
      BY <2>3, <1>17 DEF StartPerforms, PostImmediate, Push
    <3>2. /\ Ordered(op_queue_') /\ (Plain(op_queue_) => Plain(op_queue_'))
          /\ \A x \in Descriptors : In(op_queue_', x) => In(op_queue_, x)
      BY <3>1, <2>1, Pushed DEF Types, Order
    <3> QED  BY <3>2, <2>3, <1>17 DEF Order, StartPerforms, PostImmediate, Push, Woken
  <2> QED  BY <2>2, <2>3
<1>18. ASSUME NEW t \in Threads, NEW d \in Descriptors, NEW kind \in Kinds, NEW speculative \in BOOLEAN,
         StartBlocks(t, d, kind, speculative)
      PROVE  Order'
  BY <1>18 DEF Order, StartBlocks, schedulerVars, reactorOnlyVars
<1>19. ASSUME NEW t \in Threads, StartQueues(t)
      PROVE  Order'
  BY <1>19 DEF Order, StartQueues, WorkStarted
<1>20. CASE Collect
  <2> DEFINE found == {d \in edges : Events(d) # {}}
  <2>1. PICK order \in [1..Cardinality(found) -> found] :
          /\ \A i, j \in DOMAIN order : order[i] = order[j] => i = j
          /\ TaskReturns(order)
    BY <1>20 DEF Collect
  <2>2. Ordered(order)  BY <2>1, Reports DEF Types
  <2> QED  BY <2>1, <2>2 DEF Order, TaskReturns
<1>21. CASE ShutdownService
  <2>1. Plain(<<>>) /\ Ordered(<<>>)  BY DEF Plain, Ordered
  <2> QED  BY <2>1, <1>21 DEF Order, ShutdownService
<1>22. CASE UNCHANGED reactorVars
  BY <1>22 DEF Order, reactorVars, schedulerVars, reactorOnlyVars
<1>23. \A kind \in Kinds : {kind} \in SUBSET Kinds  OBVIOUS
<1>24. Kinds \in SUBSET Kinds  OBVIOUS
<1> QED
  BY <1>1, <1>2, <1>3, <1>4, <1>5, <1>6, <1>7, <1>8, <1>9, <1>10, <1>11, <1>12,
     <1>13, <1>14, <1>15, <1>16, <1>17, <1>18, <1>19, <1>20, <1>21, <1>22, <1>23, <1>24 DEF ReactorNext

\* The order of the queues is what QueuedOnce asks for.
LEMMA OrderIsEnough == ASSUME Types, Order PROVE QueuedOnce
<1>1. private_op_queue \in Seq(Ops)  BY PrivateSeq DEF Types
<1>2. Ordered(op_queue_ \o private_op_queue)  BY <1>1, Joined DEF Types, Order
<1>3. completing \in Descriptors => ~In(op_queue_ \o private_op_queue, completing)
  <2>1. completing \in Descriptors => ~In(op_queue_, completing) /\ ~In(private_op_queue, completing)
    BY DEF Order, Plain, In, Unique
  <2> QED  BY <2>1, <1>1, Joined DEF Types
<1> QED  BY <1>2, <1>3 DEF QueuedOnce, Ordered, In, Unique
-----------------------------------------------------------------------------
(* NoLostWakeup.                                                           *)

\* Whoever wakes one thread wakes the thread.
LEMMA WakeOneWakes == ASSUME Order, Wake, WakeOne, thread' = Woken PROVE Wake'
<1>1. signalled' = TRUE  BY DEF WakeOne
<1>2. thread' # "asleep"  BY DEF Woken
<1>3. thread' = "block" => task_interrupted_' /\ interrupter'
  <2> SUFFICES ASSUME thread = "block" PROVE task_interrupted_' /\ interrupter'
    BY DEF Woken
  <2>1. task_ /\ InterruptTask  BY DEF Order, WakeOne, Waiter
  <2> QED  BY <2>1 DEF InterruptTask, Wake
<1> QED  BY <1>1, <1>2, <1>3 DEF Wake

\* Every step keeps what the event and task_interrupted_ say of the thread.
LEMMA WakeStep ==
  ASSUME Types, Order, Wake, [ReactorNext]_reactorVars
  PROVE  Wake'
<1>1. CASE Enter /\ UNCHANGED reactorOnlyVars
  BY <1>1 DEF Wake, Enter
<1>2. CASE Leave /\ UNCHANGED reactorOnlyVars
  BY <1>2 DEF Wake, Leave
<1>3. CASE RunTask /\ UNCHANGED reactorOnlyVars
  <2>1. CASE MoreHandlers  BY <2>1, <1>3 DEF Wake, RunTask
  <2>2. CASE ~MoreHandlers
    <3>1. op_queue_' = <<>>  BY <2>2, <1>3, Taken DEF Types, RunTask, MoreHandlers
    <3>2. ~stopped_' /\ ~task_interrupted_' /\ thread' = "block"  BY <2>2, <1>3 DEF RunTask
    <3> QED  BY <3>1, <3>2 DEF Wake
  <2> QED  BY <2>1, <2>2
<1>4. CASE RunHandler /\ UNCHANGED reactorOnlyVars
  BY <1>4 DEF Wake, RunHandler
<1>5. CASE Sleep /\ UNCHANGED reactorOnlyVars
  BY <1>5 DEF Wake, Sleep
<1>6. CASE Spurious /\ UNCHANGED reactorOnlyVars
  BY <1>6 DEF Wake, Spurious
<1>7. CASE Awake /\ UNCHANGED reactorOnlyVars
  BY <1>7 DEF Wake, Awake
<1>8. CASE TaskCleanup /\ UNCHANGED reactorOnlyVars
  BY <1>8 DEF Wake, TaskCleanup
<1>9. CASE Completed /\ UNCHANGED reactorOnlyVars
  BY <1>9 DEF Wake, Completed, WorkCleanup
<1>10. CASE InitTask /\ UNCHANGED reactorOnlyVars
  <2>1. thread # "block"  BY <1>10 DEF Order, InitTask
  <2> QED  BY <2>1, <1>10 DEF Wake, InitTask, Woken
<1>11. CASE Stop /\ UNCHANGED reactorOnlyVars
  <2>1. thread' = Woken /\ signalled' /\ InterruptTask  BY <1>11 DEF Stop, StopAllThreads
  <2>2. thread' = "block" => task_interrupted_' /\ interrupter'
    BY <2>1 DEF Woken, InterruptTask, Order, Wake
  <2> QED  BY <2>1, <2>2 DEF Wake, Woken
<1>12. ASSUME NEW h \in Handlers, Dispatch(h), UNCHANGED reactorOnlyVars
      PROVE  Wake'
  BY <1>12, WakeOneWakes DEF Dispatch, Push
<1>13. ASSUME NEW d \in Descriptors, Register(d)
      PROVE  Wake'
  BY <1>13 DEF Wake, Register, schedulerVars
<1>14. ASSUME NEW d \in Descriptors, Resets(d)
      PROVE  Wake'
  BY <1>14 DEF Wake, Resets, schedulerVars
<1>15. ASSUME NEW d \in Descriptors, NEW kinds \in SUBSET Kinds, Becomes(d, kinds)
      PROVE  Wake'
  BY <1>15 DEF Wake, Becomes, schedulerVars
<1>16. ASSUME NEW d \in Descriptors, NEW left \in SUBSET Kinds, Perform(d, left)
      PROVE  Wake'
  BY <1>16 DEF Wake, Perform
<1>17. ASSUME NEW t \in Threads, NEW d \in Descriptors, NEW kind \in Kinds, NEW continuation \in BOOLEAN,
         NEW left \in SUBSET Kinds, StartPerforms(t, d, kind, continuation, left)
      PROVE  Wake'
  <2>1. CASE continuation /\ t = "service"  BY <2>1, <1>17 DEF Wake, StartPerforms, PostImmediate
  <2>2. CASE ~(continuation /\ t = "service")  BY <2>2, <1>17, WakeOneWakes DEF StartPerforms, PostImmediate, Push
  <2> QED  BY <2>1, <2>2
<1>18. ASSUME NEW t \in Threads, NEW d \in Descriptors, NEW kind \in Kinds, NEW speculative \in BOOLEAN,
         StartBlocks(t, d, kind, speculative)
      PROVE  Wake'
  BY <1>18 DEF Wake, StartBlocks, schedulerVars
<1>19. ASSUME NEW t \in Threads, StartQueues(t)
      PROVE  Wake'
  BY <1>19 DEF Wake, StartQueues, WorkStarted
<1>20. CASE Collect
  BY <1>20 DEF Wake, Collect, TaskReturns
<1>21. CASE ShutdownService
  BY <1>21 DEF Wake, ShutdownService
<1>22. CASE UNCHANGED reactorVars
  BY <1>22 DEF Wake, reactorVars, schedulerVars, reactorOnlyVars
<1>23. \A kind \in Kinds : {kind} \in SUBSET Kinds  OBVIOUS
<1>24. Kinds \in SUBSET Kinds  OBVIOUS
<1> QED
  BY <1>1, <1>2, <1>3, <1>4, <1>5, <1>6, <1>7, <1>8, <1>9, <1>10, <1>11, <1>12,
     <1>13, <1>14, <1>15, <1>16, <1>17, <1>18, <1>19, <1>20, <1>21, <1>22, <1>23, <1>24 DEF ReactorNext

\* That is what NoLostWakeup asks for.
LEMMA WakeIsEnough == Wake => NoLostWakeup
  BY DEF Wake, NoLostWakeup
-----------------------------------------------------------------------------
(* NothingStranded.                                                        *)

\* Every step keeps who queues what where.
LEMMA HeldStep ==
  ASSUME Types, Held, [ReactorNext]_reactorVars
  PROVE  Held'
<1>1. CASE Enter /\ UNCHANGED reactorOnlyVars
  BY <1>1 DEF Held, Types, reactorOnlyVars
<1>2. CASE Leave /\ UNCHANGED reactorOnlyVars
  BY <1>2 DEF Held, Types, reactorOnlyVars
<1>3. CASE RunTask /\ UNCHANGED reactorOnlyVars
  BY <1>3 DEF Held, Types, reactorOnlyVars
<1>4. CASE RunHandler /\ UNCHANGED reactorOnlyVars
  BY <1>4 DEF Held, Types, reactorOnlyVars
<1>5. CASE Sleep /\ UNCHANGED reactorOnlyVars
  BY <1>5 DEF Held, Types, reactorOnlyVars
<1>6. CASE Spurious /\ UNCHANGED reactorOnlyVars
  BY <1>6 DEF Held, Types, reactorOnlyVars
<1>7. CASE Awake /\ UNCHANGED reactorOnlyVars
  BY <1>7 DEF Held, Types, reactorOnlyVars
<1>8. CASE TaskCleanup /\ UNCHANGED reactorOnlyVars
  BY <1>8 DEF Held, Types, reactorOnlyVars
<1>9. CASE Completed /\ UNCHANGED reactorOnlyVars
  BY <1>9 DEF Held, Types, reactorOnlyVars
<1>10. CASE InitTask /\ UNCHANGED reactorOnlyVars
  BY <1>10 DEF Held, Types, reactorOnlyVars
<1>11. CASE Stop /\ UNCHANGED reactorOnlyVars
  BY <1>11 DEF Held, Types, reactorOnlyVars
<1>12. ASSUME NEW h \in Handlers, Dispatch(h), UNCHANGED reactorOnlyVars
      PROVE  Held'
  BY <1>12 DEF Held, Types, reactorOnlyVars
<1>13. ASSUME NEW d \in Descriptors, Register(d)
      PROVE  Held'
  BY <1>13 DEF Held, Types, Register
<1>14. ASSUME NEW d \in Descriptors, Resets(d)
      PROVE  Held'
  BY <1>14 DEF Held, Types, Resets
<1>15. ASSUME NEW d \in Descriptors, NEW kinds \in SUBSET Kinds, Becomes(d, kinds)
      PROVE  Held'
  BY <1>15 DEF Held, Types, Becomes
<1>16. ASSUME NEW d \in Descriptors, NEW left \in SUBSET Kinds, Perform(d, left)
      PROVE  Held'
  BY <1>16 DEF Held, Types, Perform
<1>17. ASSUME NEW t \in Threads, NEW d \in Descriptors, NEW kind \in Kinds, NEW continuation \in BOOLEAN,
         NEW left \in SUBSET Kinds, StartPerforms(t, d, kind, continuation, left)
      PROVE  Held'
  BY <1>17 DEF Held, Types, StartPerforms
<1>18. ASSUME NEW t \in Threads, NEW d \in Descriptors, NEW kind \in Kinds, NEW speculative \in BOOLEAN,
         StartBlocks(t, d, kind, speculative)
      PROVE  Held'
  BY <1>18 DEF Held, Types, StartBlocks, Locked
<1>19. ASSUME NEW t \in Threads, StartQueues(t)
      PROVE  Held'
  BY <1>19 DEF Held, Types, StartQueues
<1>20. CASE Collect
  BY <1>20 DEF Held, Types, Collect
<1>21. CASE ShutdownService
  BY <1>21 DEF Held, Types, ShutdownService
<1>22. CASE UNCHANGED reactorVars
  BY <1>22 DEF Held, Types, reactorVars, schedulerVars, reactorOnlyVars
<1>23. \A kind \in Kinds : {kind} \in SUBSET Kinds  OBVIOUS
<1>24. Kinds \in SUBSET Kinds  OBVIOUS
<1> QED
  BY <1>1, <1>2, <1>3, <1>4, <1>5, <1>6, <1>7, <1>8, <1>9, <1>10, <1>11, <1>12,
     <1>13, <1>14, <1>15, <1>16, <1>17, <1>18, <1>19, <1>20, <1>21, <1>22, <1>23, <1>24 DEF ReactorNext

\* Whether d waits for its turn.
Waits(d) == completing = d \/ In(op_queue_, d) \/ In(private_op_queue, d)

\* Events stay on their way as long as nothing takes them.
LEMMA StaysComing ==
  ASSUME NEW d \in Descriptors, NEW k, Coming(d, k),
         edges \subseteq edges', task_result_' = task_result_, Waits(d) => Waits(d)'
  PROVE  Coming(d, k)'
<1>1. CASE d \in edges  BY <1>1 DEF Coming
<1>2. CASE d \notin edges
  <2>1. k \in task_result_[d] /\ Waits(d)  BY <1>2 DEF Coming, Waits, In
  <2>2. k \in task_result_[d]' /\ Waits(d)'  BY <2>1
  <2> QED  BY <2>2 DEF Coming, Waits, In
<1> QED  BY <1>1, <1>2

\* A step that takes no descriptor out of the queues, and brings no event, strands nothing.
LEMMA Carried ==
  ASSUME Types, NothingStranded, UNCHANGED <<task_result_, op_queue, registered_out, starting>>,
         edges \subseteq edges', \A d \in Descriptors : can[d]' \subseteq can[d],
         \A d \in Descriptors : Waits(d) => Waits(d)'
  PROVE  NothingStranded'
<1>1. \A x \in Descriptors : \A k : Coming(x, k) => Coming(x, k)'  BY StaysComing
<1>2. ASSUME NEW x \in Descriptors, NEW k \in op_queue'[x] \cap can'[x] PROVE Coming(x, k)'
  BY <1>1, <1>2 DEF NothingStranded
<1>3. ASSUME NEW t \in Threads, NEW x, NEW k, starting'[t] # Nobody, x = starting'[t].d, k = starting'[t].kind,
             starting'[t].speculative, k \in can'[x], k = "read" \/ x \in registered_out'
      PROVE  Coming(x, k)'
  <2>1. starting'[t] = starting[t] /\ x \in Descriptors  BY <1>3 DEF Types, Starting
  <2>2. Coming(x, k)  BY <2>1, <1>3 DEF NothingStranded
  <2> QED  BY <2>1, <2>2, <1>1
<1> QED  BY <1>2, <1>3 DEF NothingStranded, Coming

\* Every step keeps it that no operation is stranded.
LEMMA StrandStep ==
  ASSUME Types, Order, Held, NothingStranded, [ReactorNext]_reactorVars
  PROVE  NothingStranded'
<1>1. CASE Enter /\ UNCHANGED reactorOnlyVars
  <2>1. \A d \in Descriptors : Waits(d) => Waits(d)'
    BY <1>1 DEF Waits, Enter
  <2> QED  BY <2>1, <1>1, Carried DEF Types, reactorOnlyVars
<1>2. CASE Leave /\ UNCHANGED reactorOnlyVars
  <2>1. \A d \in Descriptors : Waits(d) => Waits(d)'
    BY <1>2 DEF Waits, Leave
  <2> QED  BY <2>1, <1>2, Carried DEF Types, reactorOnlyVars
<1>3. CASE RunTask /\ UNCHANGED reactorOnlyVars
  <2>1. /\ op_queue_ # <<>> /\ Head(op_queue_) = TaskOp /\ op_queue_' = Tail(op_queue_)
        /\ completing' = completing /\ private_op_queue' = private_op_queue
    BY <1>3 DEF RunTask
  <2>2. \A d \in Descriptors : In(op_queue_, d) => In(op_queue_', d)
    BY <2>1, Taken, ReactorAssumption DEF Types
  <2>9. \A d \in Descriptors : Waits(d) => Waits(d)'  BY <2>1, <2>2 DEF Waits
  <2> QED  BY <2>9, <1>3, Carried DEF Types, reactorOnlyVars
<1>4. CASE RunHandler /\ UNCHANGED reactorOnlyVars
  <2>1. /\ op_queue_ # <<>> /\ completing' = Head(op_queue_) /\ op_queue_' = Tail(op_queue_)
        /\ completing \notin Descriptors /\ private_op_queue' = private_op_queue
    BY <1>4 DEF RunHandler, Order
  <2>2. \A d \in Descriptors : In(op_queue_, d) => In(op_queue_', d) \/ completing' = d
    BY <2>1, Taken DEF Types
  <2>9. \A d \in Descriptors : Waits(d) => Waits(d)'  BY <2>1, <2>2 DEF Waits
  <2> QED  BY <2>9, <1>4, Carried DEF Types, reactorOnlyVars
<1>5. CASE Sleep /\ UNCHANGED reactorOnlyVars
  <2>1. \A d \in Descriptors : Waits(d) => Waits(d)'
    BY <1>5 DEF Waits, Sleep
  <2> QED  BY <2>1, <1>5, Carried DEF Types, reactorOnlyVars
<1>6. CASE Spurious /\ UNCHANGED reactorOnlyVars
  <2>1. \A d \in Descriptors : Waits(d) => Waits(d)'
    BY <1>6 DEF Waits, Spurious
  <2> QED  BY <2>1, <1>6, Carried DEF Types, reactorOnlyVars
<1>7. CASE Awake /\ UNCHANGED reactorOnlyVars
  <2>1. \A d \in Descriptors : Waits(d) => Waits(d)'
    BY <1>7 DEF Waits, Awake
  <2> QED  BY <2>1, <1>7, Carried DEF Types, reactorOnlyVars
<1>8. CASE TaskCleanup /\ UNCHANGED reactorOnlyVars
  <2>1. /\ op_queue_' = Append(op_queue_ \o private_op_queue, TaskOp) /\ completing' = completing
    BY <1>8 DEF TaskCleanup
  <2>2. private_op_queue \in Seq(Ops) /\ op_queue_ \in Seq(Ops)  BY PrivateSeq DEF Types
  <2> DEFINE c == op_queue_ \o private_op_queue
  <2>3. c \in Seq(Ops) /\ \A d : In(c, d) <=> In(op_queue_, d) \/ In(private_op_queue, d)  BY <2>2, Joined
  <2>4. \A d : In(c, d) => In(op_queue_', d)
    <3> HIDE DEF c
    <3>1. \A d : In(c, d) => In(Append(c, TaskOp), d)  BY <2>3, Appended, Apart
    <3>2. op_queue_' = Append(c, TaskOp)  BY <2>1 DEF c
    <3> QED  BY <3>1, <3>2
  <2>9. \A d \in Descriptors : Waits(d) => Waits(d)'  BY <2>1, <2>3, <2>4 DEF Waits
  <2> QED  BY <2>9, <1>8, Carried DEF Types, reactorOnlyVars
<1>9. CASE Completed /\ UNCHANGED reactorOnlyVars
  <2>1. completing \notin Descriptors /\ op_queue_' = op_queue_ \o private_op_queue
    BY <1>9 DEF Completed, WorkCleanup
  <2>2. private_op_queue \in Seq(Ops) /\ op_queue_ \in Seq(Ops)  BY PrivateSeq DEF Types
  <2>3. \A d : In(op_queue_', d) <=> In(op_queue_, d) \/ In(private_op_queue, d)  BY <2>1, <2>2, Joined
  <2>9. \A d \in Descriptors : Waits(d) => Waits(d)'  BY <2>1, <2>3 DEF Waits
  <2> QED  BY <2>9, <1>9, Carried DEF Types, reactorOnlyVars
<1>10. CASE InitTask /\ UNCHANGED reactorOnlyVars
  <2>1. op_queue_' = Append(op_queue_, TaskOp) /\ completing' = completing /\ private_op_queue' = private_op_queue
    BY <1>10 DEF InitTask
  <2>2. \A d : In(op_queue_, d) => In(op_queue_', d)  BY <2>1, Appended, Apart DEF Types
  <2>9. \A d \in Descriptors : Waits(d) => Waits(d)'  BY <2>1, <2>2 DEF Waits
  <2> QED  BY <2>9, <1>10, Carried DEF Types, reactorOnlyVars
<1>11. CASE Stop /\ UNCHANGED reactorOnlyVars
  <2>1. \A d \in Descriptors : Waits(d) => Waits(d)'
    BY <1>11 DEF Waits, Stop
  <2> QED  BY <2>1, <1>11, Carried DEF Types, reactorOnlyVars
<1>12. ASSUME NEW h \in Handlers, Dispatch(h), UNCHANGED reactorOnlyVars
      PROVE  NothingStranded'
  <2>1. op_queue_' = op_queue_ \o <<h>> /\ completing' = completing /\ private_op_queue' = private_op_queue
    BY <1>12 DEF Dispatch, Push
  <2>2. op_queue_ \in Seq(Ops) /\ h \in Ops /\ h \notin Unique  BY Apart DEF Types, Unique
  <2>3. \A d \in Descriptors : In(op_queue_, d) => In(op_queue_', d)  BY <2>1, <2>2, Pushed
  <2>9. \A d \in Descriptors : Waits(d) => Waits(d)'  BY <2>1, <2>3 DEF Waits
  <2> QED  BY <2>9, <1>12, Carried DEF Types, reactorOnlyVars
<1>13. ASSUME NEW d \in Descriptors, Register(d)
      PROVE  NothingStranded'
  <2>1. \A x \in Descriptors : Waits(x) => Waits(x)'  BY <1>13 DEF Waits, Register, schedulerVars
  <2>2. edges \subseteq edges'  BY <1>13 DEF Register, Armed
  <2> QED  BY <2>1, <2>2, <1>13, Carried DEF Types, Register
<1>14. ASSUME NEW d \in Descriptors, Resets(d)
      PROVE  NothingStranded'
  <2>1. \A x \in Descriptors : Waits(x) => Waits(x)'  BY <1>14 DEF Waits, Resets, schedulerVars
  <2>2. \A x \in Descriptors : can'[x] \subseteq can[x]  BY <1>14 DEF Resets, Types
  <2> QED  BY <2>1, <2>2, <1>14, Carried DEF Types, Resets
<1>15. ASSUME NEW d \in Descriptors, NEW kinds \in SUBSET Kinds, Becomes(d, kinds)
      PROVE  NothingStranded'
  <2>1. \A x \in Descriptors : \A k : Coming(x, k) => Coming(x, k)'
    <3>1. \A x \in Descriptors : Waits(x) => Waits(x)'  BY <1>15 DEF Waits, Becomes, schedulerVars
    <3>2. edges \subseteq edges' /\ task_result_' = task_result_  BY <1>15 DEF Becomes
    <3> QED  BY <3>1, <3>2, StaysComing
  <2>2. ASSUME NEW x \in Descriptors, NEW k \in Kinds, k \in can[x]', x \in registered, k = "read" \/ x \in registered_out
        PROVE  k \in can[x] \/ x \in edges'
    BY <2>2, <1>15 DEF Becomes, Types, Kinds
  <2>3. \A x \in Descriptors : \A k : x \in edges' => Coming(x, k)'  BY DEF Coming
  <2>4. UNCHANGED <<registered, registered_out, op_queue, starting>>  BY <1>15 DEF Becomes
  <2>5. ASSUME NEW x \in Descriptors, NEW k \in op_queue'[x] \cap can'[x] PROVE Coming(x, k)'
    <3>1. k \in Kinds /\ x \in registered /\ k \in op_queue[x]  BY <2>4, <2>5 DEF Types, Held
    <3>2. k = "read" \/ x \in registered_out  BY <3>1 DEF Held, Kinds
    <3>3. k \in can[x] \/ x \in edges'  BY <2>2, <2>5, <3>1, <3>2
    <3>4. k \in can[x] => Coming(x, k)  BY <3>1 DEF NothingStranded
    <3> QED  BY <3>3, <3>4, <2>1, <2>3
  <2>6. ASSUME NEW t \in Threads, NEW x, NEW k, starting'[t] # Nobody, x = starting'[t].d, k = starting'[t].kind,
               starting'[t].speculative, k \in can'[x], k = "read" \/ x \in registered_out'
        PROVE  Coming(x, k)'
    <3>1. starting'[t] = starting[t] /\ k \in Kinds /\ x \in registered /\ x \in Descriptors
      BY <2>4, <2>6 DEF Types, Held, Starting
    <3>2. k \in can[x] \/ x \in edges'  BY <2>2, <2>4, <2>6, <3>1
    <3>3. k \in can[x] => Coming(x, k)
      BY <2>4, <2>6, <3>1 DEF NothingStranded
    <3> QED  BY <3>1, <3>2, <3>3, <2>1, <2>3
  <2> QED  BY <2>5, <2>6 DEF NothingStranded, Coming
<1>16. ASSUME NEW d \in Descriptors, NEW left \in SUBSET Kinds, Perform(d, left)
      PROVE  NothingStranded'
  <2> DEFINE done == op_queue[d] \cap task_result_[d] \cap can[d]
  <2>1. /\ completing = d /\ ~Locked(d) /\ UNCHANGED <<edges, task_result_, starting, registered_out, private_op_queue>>
        /\ op_queue' = [op_queue EXCEPT ![d] = @ \ done] /\ can' = [can EXCEPT ![d] = left] /\ left \subseteq can[d]
    BY <1>16 DEF Perform
  <2>2. \A x \in Descriptors : x # d /\ Waits(x) => Waits(x)'
    <3>1. op_queue_' = op_queue_ \/ op_queue_' = Append(op_queue_, Op(d, "read"))  BY <1>16 DEF Perform
    <3>2. Op(d, "read") \in Ops /\ Op(d, "read") \notin Unique  BY Apart DEF Kinds
    <3>3. \A x \in Descriptors : In(Append(op_queue_, Op(d, "read")), x) <=> In(op_queue_, x)
      BY <3>2, Pushed DEF Types
    <3>4. \A x \in Descriptors : In(op_queue_, x) => In(op_queue_', x)
      <4>1. CASE op_queue_' = op_queue_  BY <4>1
      <4>2. CASE op_queue_' = Append(op_queue_, Op(d, "read"))  BY <4>2, <3>3
      <4> QED  BY <3>1, <4>1, <4>2
    <3> QED  BY <3>4, <2>1 DEF Waits
  <2>3. \A x \in Descriptors : \A k : x # d /\ Coming(x, k) => Coming(x, k)'
    BY <2>1, <2>2, StaysComing
  <2>4. \A x \in Descriptors : op_queue[x]' \subseteq op_queue[x] /\ can[x]' \subseteq can[x]
    BY <2>1 DEF Types
  <2>5. ASSUME NEW x \in Descriptors, NEW k \in op_queue'[x] \cap can'[x] PROVE Coming(x, k)'
    <3>1. k \in op_queue[x] \cap can[x] /\ Coming(x, k)  BY <2>4, <2>5 DEF NothingStranded
    <3>2. CASE x = d
      <4>1. k \notin done  BY <3>2, <2>1, <2>5 DEF Types
      <4>2. k \notin task_result_[d]  BY <4>1, <3>1, <3>2
      <4>3. d \in edges  BY <4>2, <3>1, <3>2 DEF Coming
      <4> QED  BY <4>3, <3>2, <2>1 DEF Coming
    <3> QED  BY <3>1, <3>2, <2>3
  <2>6. ASSUME NEW t \in Threads, NEW x, NEW k, starting'[t] # Nobody, x = starting'[t].d, k = starting'[t].kind,
               starting'[t].speculative, k \in can'[x], k = "read" \/ x \in registered_out'
        PROVE  Coming(x, k)'
    <3>1. starting'[t] = starting[t] /\ x \in Descriptors /\ x # d
      BY <2>1, <2>6 DEF Types, Starting, Locked
    <3>2. Coming(x, k)  BY <2>1, <2>4, <2>6, <3>1 DEF NothingStranded
    <3> QED  BY <3>1, <3>2, <2>3
  <2> QED  BY <2>5, <2>6 DEF NothingStranded, Coming
<1>17. ASSUME NEW t \in Threads, NEW d \in Descriptors, NEW kind \in Kinds, NEW continuation \in BOOLEAN,
         NEW left \in SUBSET Kinds, StartPerforms(t, d, kind, continuation, left)
      PROVE  NothingStranded'
  <2>1. Op(d, kind) \in Private /\ Op(d, kind) \in Ops /\ Op(d, kind) \notin Unique  BY Apart
  <2>2. \A x \in Descriptors : Waits(x) => Waits(x)'
    <3>1. CASE continuation /\ t = "service"
      <4>1. /\ private_op_queue' = Append(private_op_queue, Op(d, kind)) /\ op_queue_' = op_queue_
            /\ completing' = completing
        BY <3>1, <1>17 DEF StartPerforms, PostImmediate
      <4>2. \A x : In(private_op_queue, x) => In(private_op_queue', x)
        BY <4>1, <2>1, Appended, PrivateSeq DEF Types
      <4> QED  BY <4>1, <4>2 DEF Waits
    <3>2. CASE ~(continuation /\ t = "service")
      <4>1. /\ op_queue_' = op_queue_ \o <<Op(d, kind)>> /\ private_op_queue' = private_op_queue
            /\ completing' = completing
        BY <3>2, <1>17 DEF StartPerforms, PostImmediate, Push
      <4>2. \A x \in Descriptors : In(op_queue_, x) => In(op_queue_', x)
        BY <4>1, <2>1, Pushed DEF Types
      <4> QED  BY <4>1, <4>2 DEF Waits
    <3> QED  BY <3>1, <3>2
  <2>3. \A x \in Descriptors : can'[x] \subseteq can[x]  BY <1>17 DEF StartPerforms, Types
  <2>4. UNCHANGED <<edges, task_result_, op_queue, registered_out, starting>>  BY <1>17 DEF StartPerforms
  <2> QED  BY <2>2, <2>3, <2>4, Carried
<1>18. ASSUME NEW t \in Threads, NEW d \in Descriptors, NEW kind \in Kinds, NEW speculative \in BOOLEAN,
         StartBlocks(t, d, kind, speculative)
      PROVE  NothingStranded'
  <2>1. \A x \in Descriptors : \A k : Coming(x, k) => Coming(x, k)'
    <3>1. \A x \in Descriptors : Waits(x) => Waits(x)'  BY <1>18 DEF Waits, StartBlocks, schedulerVars
    <3> QED  BY <3>1, <1>18, StaysComing DEF StartBlocks
  <2>2. /\ kind \notin can[d] \/ ~speculative
        /\ starting' = [starting EXCEPT ![t] = [d |-> d, kind |-> kind, speculative |-> speculative]]
    BY <1>18 DEF StartBlocks
  <2> UNCHANGED <<registered_out, op_queue, can>>  BY <1>18 DEF StartBlocks
  <2>3. ASSUME NEW x \in Descriptors, NEW k \in op_queue'[x] \cap can'[x] PROVE Coming(x, k)'
    <3>1. k \in op_queue[x] \cap can[x]  BY <2>3
    <3> QED  BY <3>1, <2>1 DEF NothingStranded
  <2>4. ASSUME NEW u \in Threads, NEW x, NEW k, starting'[u] # Nobody, x = starting'[u].d, k = starting'[u].kind,
               starting'[u].speculative, k \in can'[x], k = "read" \/ x \in registered_out'
        PROVE  Coming(x, k)'
    <3>1. u # t  BY <2>2, <2>4 DEF Types
    <3>2. starting'[u] = starting[u] /\ x \in Descriptors  BY <3>1, <2>2, <2>4 DEF Types, Starting
    <3>3. k \in can[x] /\ (k = "read" \/ x \in registered_out)  BY <2>4
    <3>4. Coming(x, k)  BY <3>2, <3>3, <2>4 DEF NothingStranded
    <3> QED  BY <3>2, <3>4, <2>1
  <2> QED  BY <2>3, <2>4 DEF NothingStranded, Coming
<1>19. ASSUME NEW t \in Threads, StartQueues(t)
      PROVE  NothingStranded'
  <2> DEFINE s == starting[t]
             writes == IF s.kind = "write" THEN {s.d} ELSE {}
  <2>1. /\ s # Nobody /\ registered_out' = registered_out \cup writes
        /\ op_queue' = [op_queue EXCEPT ![s.d] = @ \cup {s.kind}]
        /\ starting' = [starting EXCEPT ![t] = Nobody]
        /\ UNCHANGED <<can, task_result_, op_queue_, private_op_queue, completing>>
    BY <1>19 DEF StartQueues, WorkStarted
  <2>2. s.d \in Descriptors /\ s.kind \in Kinds  BY <2>1 DEF Types, Starting
  <2>3. edges \subseteq edges'
    BY <1>19 DEF StartQueues, Armed
  <2>4. \A x \in Descriptors : \A k : Coming(x, k) => Coming(x, k)'
    <3>1. \A x \in Descriptors : Waits(x) => Waits(x)'  BY <2>1 DEF Waits
    <3> QED  BY <3>1, <2>1, <2>3, StaysComing
  <2>5. ASSUME NEW x, NEW k, x = s.d, k = s.kind, k \in can[x] PROVE Coming(x, k)'
    <3>1. CASE ~s.speculative \/ ~(writes \subseteq registered_out)
      <4>1. Armed(s.d, registered_out')  BY <3>1, <1>19 DEF StartQueues
      <4>2. k = "read" \/ x \in registered_out'  BY <2>1, <2>2, <2>5 DEF Kinds
      <4>3. k \in can[x] \cap ({"read"} \cup IF x \in registered_out' THEN {"write"} ELSE {})
        BY <4>2, <2>2, <2>5 DEF Kinds
      <4>4. x \in edges'  BY <4>1, <4>3, <2>5 DEF Armed
      <4> QED  BY <4>4 DEF Coming
    <3>2. CASE s.speculative /\ writes \subseteq registered_out
      <4>1. k = "read" \/ x \in registered_out  BY <3>2, <2>2, <2>5 DEF Kinds
      <4>2. Coming(x, k)  BY <4>1, <3>2, <2>1, <2>5 DEF NothingStranded
      <4> QED  BY <4>2, <2>2, <2>4, <2>5
    <3> QED  BY <3>1, <3>2
  <2>6. ASSUME NEW x \in Descriptors, NEW k \in op_queue'[x] \cap can'[x] PROVE Coming(x, k)'
    <3>1. CASE x = s.d /\ k = s.kind  BY <3>1, <2>1, <2>5, <2>6
    <3>2. CASE ~(x = s.d /\ k = s.kind)
      <4>1. k \in op_queue[x] /\ k \in can[x]  BY <3>2, <2>1, <2>6 DEF Types
      <4>2. Coming(x, k)  BY <4>1 DEF NothingStranded
      <4> QED  BY <4>2, <2>4
    <3> QED  BY <3>1, <3>2
  <2>7. ASSUME NEW u \in Threads, NEW x, NEW k, starting'[u] # Nobody, x = starting'[u].d, k = starting'[u].kind,
               starting'[u].speculative, k \in can'[x], k = "read" \/ x \in registered_out'
        PROVE  Coming(x, k)'
    <3>1. u # t  BY <2>1, <2>7 DEF Types
    <3>2. starting'[u] = starting[u] /\ x \in Descriptors  BY <3>1, <2>1, <2>7 DEF Types, Starting
    <3>3. x # s.d  BY <3>1, <3>2, <2>1, <2>7 DEF Held
    <3>4. x \in registered_out' => x \in registered_out  BY <3>3, <2>1
    <3>5. Coming(x, k)  BY <3>2, <3>4, <2>1, <2>7 DEF NothingStranded
    <3> QED  BY <3>2, <3>5, <2>4
  <2> QED  BY <2>6, <2>7 DEF NothingStranded, Coming
<1>20. CASE Collect
  <2> DEFINE found == {d \in edges : Events(d) # {}}
  <2>1. PICK order \in [1..Cardinality(found) -> found] :
          /\ \A i, j \in DOMAIN order : order[i] = order[j] => i = j
          /\ TaskReturns(order)
    BY <1>20 DEF Collect
  <2>2. \A d \in found : In(order, d)  BY <2>1, Reports DEF Types
  <2>3. private_op_queue' = order /\ thread \in {"poll", "block"}  BY <2>1 DEF TaskReturns
  <2>4. /\ task_result_' = [d \in Descriptors |-> IF d \in found THEN Events(d) ELSE task_result_[d]]
        /\ UNCHANGED <<registered_out, op_queue, can, starting>>
    BY <1>20 DEF Collect
  <2>5. \A d \in Descriptors : ~Waits(d)  BY <2>3 DEF Waits, Order, Plain, In, Unique
  <2>6. ASSUME NEW d \in Descriptors, NEW k \in can[d], k = "read" \/ (k = "write" /\ d \in registered_out), Coming(d, k)
        PROVE  Coming(d, k)'
    <3>1. d \in edges  BY <2>5, <2>6 DEF Coming, Waits, In
    <3>2. k \in Events(d)  BY <2>6 DEF Events
    <3>3. d \in found  BY <3>1, <3>2
    <3>4. k \in task_result_'[d]  BY <3>2, <3>3, <2>4
    <3>5. In(private_op_queue', d)  BY <3>3, <2>2, <2>3
    <3> QED  BY <3>4, <3>5 DEF Coming, In
  <2> HIDE DEF found
  <2>7. ASSUME NEW d \in Descriptors, NEW k \in op_queue'[d] \cap can'[d] PROVE Coming(d, k)'
    <3>1. k \in op_queue[d] /\ k \in can[d] /\ k \in Kinds /\ Coming(d, k)
      BY <2>4, <2>7 DEF Types, NothingStranded
    <3>2. k = "read" \/ (k = "write" /\ d \in registered_out)  BY <3>1 DEF Held, Kinds
    <3> QED  BY <3>1, <3>2, <2>6
  <2>8. ASSUME NEW t \in Threads, NEW x, NEW k, starting'[t] # Nobody, x = starting'[t].d, k = starting'[t].kind,
               starting'[t].speculative, k \in can'[x], k = "read" \/ x \in registered_out'
        PROVE  Coming(x, k)'
    <3>1. starting'[t] = starting[t] /\ x \in Descriptors /\ starting[t].kind \in Kinds
      BY <2>4, <2>8 DEF Types, Starting
    <3>2. Coming(x, k)  BY <3>1, <2>4, <2>8 DEF NothingStranded
    <3> QED  BY <3>1, <3>2, <2>4, <2>6, <2>8 DEF Kinds
  <2> QED  BY <2>7, <2>8 DEF NothingStranded, Coming
<1>21. CASE ShutdownService
  BY <1>21 DEF NothingStranded, ShutdownService
<1>22. CASE UNCHANGED reactorVars
  <2>1. \A d \in Descriptors : Waits(d) => Waits(d)'
    BY <1>22 DEF Waits, reactorVars, schedulerVars, reactorOnlyVars
  <2> QED  BY <2>1, <1>22, Carried DEF Types, reactorVars, schedulerVars, reactorOnlyVars
<1>23. \A kind \in Kinds : {kind} \in SUBSET Kinds  OBVIOUS
<1>24. Kinds \in SUBSET Kinds  OBVIOUS
<1> QED
  BY <1>1, <1>2, <1>3, <1>4, <1>5, <1>6, <1>7, <1>8, <1>9, <1>10, <1>11, <1>12,
     <1>13, <1>14, <1>15, <1>16, <1>17, <1>18, <1>19, <1>20, <1>21, <1>22, <1>23, <1>24 DEF ReactorNext
-----------------------------------------------------------------------------
(* The count of work.                                                      *)

\* How many operations of a sequence are work: descriptors and the reactor are not.
Jobs(s)  == {i \in DOMAIN s : s[i] \notin Unique}
Count(s) == Cardinality(Jobs(s))

\* The operations that wait in descriptors.
Waiting == {op \in DescriptorOps : op[2] \in op_queue[op[1]]}

\* What is being completed counts as work until the scheduler has cleaned up.
InHand == IF thread = "complete" /\ completing \notin Descriptors THEN 1 ELSE 0

\* svc's own work.
Kept == IF thread = "out" THEN 0 ELSE 1

\* Until the thread has left, the two counters cover what is queued, waits or is in hand.
Covered ==
    /\ outstanding_work_ \in Nat /\ private_outstanding_work \in Nat
    /\ outstanding_work_ + private_outstanding_work
         >= Count(op_queue_) + Count(private_op_queue) + Cardinality(Waiting) + InHand + Kept

Work == thread # "ended" => Covered

LEMMA CountType ==
  ASSUME NEW s \in Seq(Ops)
  PROVE  IsFiniteSet(Jobs(s)) /\ Count(s) \in Nat
<1>1. DOMAIN s = 1..Len(s) /\ Len(s) \in Nat  BY LenProperties
<1>2. IsFiniteSet(1..Len(s))  BY <1>1, FS_Interval
<1>3. Jobs(s) \in SUBSET (1..Len(s))  BY <1>1 DEF Jobs
<1>4. IsFiniteSet(Jobs(s))  BY <1>2, <1>3, FS_Subset
<1> QED  BY <1>4, FS_CardinalityType DEF Count

\* Two queues joined hold no more work than both.
LEMMA CountJoined ==
  ASSUME NEW s \in Seq(Ops), NEW t \in Seq(Ops)
  PROVE  Count(s \o t) <= Count(s) + Count(t)
<1> DEFINE c == s \o t
           m == Len(s)
           n == Len(t)
           H == {i \in m + 1..m + n : t[i - m] \notin Unique}
           f == [i \in H |-> i - m]
<1>1. /\ m \in Nat /\ n \in Nat
      /\ DOMAIN s = 1..m /\ DOMAIN t = 1..n /\ DOMAIN c = 1..m + n
      /\ \A i \in 1..m : c[i] = s[i]
      /\ \A i \in m + 1..m + n : c[i] = t[i - m]
  BY ConcatProperties, LenProperties
<1>2. \A i \in m + 1..m + n : i - m \in 1..n /\ i \in Int  BY <1>1
<1>3. f \in [H -> Jobs(t)]  BY <1>1, <1>2 DEF Jobs
<1>4. \A i, j \in H : f[i] = f[j] => i = j  BY <1>1, <1>2
<1>5. f \in Injection(H, Jobs(t))  BY <1>3, <1>4 DEF Injection, IsInjective
<1>6. IsFiniteSet(Jobs(s)) /\ IsFiniteSet(Jobs(t)) /\ Count(s) \in Nat /\ Count(t) \in Nat  BY CountType
<1>7. IsFiniteSet(H) /\ Cardinality(H) <= Count(t)  BY <1>5, <1>6, FS_Injection DEF Count
<1>8. Jobs(c) = Jobs(s) \cup H
  <2>1. \A i \in 1..m + n : i \in 1..m \/ i \in m + 1..m + n  BY <1>1
  <2>2. \A i : i \in 1..m \/ i \in m + 1..m + n => i \in 1..m + n  BY <1>1
  <2>3. \A i \in Jobs(c) : i \in Jobs(s) \cup H  BY <2>1, <1>1 DEF Jobs
  <2>4. \A i \in Jobs(s) \cup H : i \in Jobs(c)  BY <2>2, <1>1 DEF Jobs
  <2> QED  BY <2>3, <2>4
<1> HIDE DEF H
<1>9. Cardinality(Jobs(c)) = Count(s) + Cardinality(H) - Cardinality(Jobs(s) \cap H)
  BY <1>6, <1>7, <1>8, FS_Union DEF Count
<1>10. Cardinality(H) \in Nat /\ Cardinality(Jobs(s) \cap H) \in Nat
  BY <1>6, <1>7, FS_CardinalityType, FS_Intersection
<1> QED  BY <1>6, <1>7, <1>9, <1>10 DEF Count

\* No operation, and one.
LEMMA CountNone == <<>> \in Seq(Ops) /\ Count(<<>>) = 0
<1>1. Jobs(<<>>) = {}  BY DEF Jobs
<1> QED  BY <1>1, FS_EmptySet DEF Count

LEMMA CountSingle ==
  ASSUME NEW op \in Ops
  PROVE  Count(<<op>>) = IF op \in Unique THEN 0 ELSE 1
<1>1. Jobs(<<op>>) = IF op \in Unique THEN {} ELSE {1}  BY DEF Jobs
<1> QED  BY <1>1, FS_EmptySet, FS_Singleton DEF Count

LEMMA CountPlain ==
  ASSUME NEW s \in Seq(Ops), \A i \in DOMAIN s : s[i] \in Unique
  PROVE  Count(s) = 0
<1>1. Jobs(s) = {}  BY DEF Jobs
<1> QED  BY <1>1, FS_EmptySet DEF Count

LEMMA CountAppend ==
  ASSUME NEW s \in Seq(Ops), NEW op \in Ops
  PROVE  Count(Append(s, op)) <= Count(s) + IF op \in Unique THEN 0 ELSE 1
<1>1. <<op>> \in Seq(Ops) /\ Append(s, op) = s \o <<op>>  BY Single, Appended
<1>2. Count(s \o <<op>>) <= Count(s) + Count(<<op>>)  BY <1>1, CountJoined
<1> QED  BY <1>1, <1>2, CountSingle

\* The first operation is taken, and its work with it.
LEMMA CountTaken ==
  ASSUME NEW s \in Seq(Ops), s # <<>>
  PROVE  Count(Tail(s)) + (IF Head(s) \in Unique THEN 0 ELSE 1) <= Count(s)
<1> DEFINE c == Tail(s)
           m == Len(s)
           H == Jobs(s) \ {1}
           f == [i \in Jobs(c) |-> i + 1]
<1>1. /\ c \in Seq(Ops) /\ m \in Nat /\ m > 0
      /\ DOMAIN s = 1..m /\ DOMAIN c = 1..m - 1
      /\ \A i \in 1..m - 1 : c[i] = s[i + 1]
      /\ Head(s) = s[1]
  BY HeadTailProperties, LenProperties
<1>2. \A i \in 1..m - 1 : i + 1 \in 1..m /\ i + 1 # 1 /\ i \in Int  BY <1>1
<1>3. f \in [Jobs(c) -> H]  BY <1>1, <1>2 DEF Jobs
<1>4. \A i, j \in Jobs(c) : f[i] = f[j] => i = j
  <2>1. Jobs(c) \subseteq Int  BY <1>1, <1>2 DEF Jobs
  <2> QED  BY <2>1
<1>5. f \in Injection(Jobs(c), H)  BY <1>3, <1>4 DEF Injection, IsInjective
<1>6. IsFiniteSet(Jobs(s)) /\ Count(s) \in Nat /\ Count(c) \in Nat  BY <1>1, CountType
<1>7. /\ IsFiniteSet(H)
      /\ Cardinality(H) = IF 1 \in Jobs(s) THEN Count(s) - 1 ELSE Count(s)
  BY <1>6, FS_RemoveElement DEF Count
<1>8. Count(c) <= Cardinality(H)  BY <1>5, <1>7, FS_Injection DEF Count
<1>9. 1 \in Jobs(s) <=> Head(s) \notin Unique  BY <1>1 DEF Jobs
<1> QED  BY <1>6, <1>7, <1>8, <1>9

\* What waits is finite.
LEMMA WaitingType == IsFiniteSet(Waiting) /\ Cardinality(Waiting) \in Nat
<1>1. Kinds = {"read"} \cup {"write"}  BY DEF Kinds
<1>2. IsFiniteSet({"read"}) /\ IsFiniteSet({"write"})  BY FS_Singleton
<1>3. IsFiniteSet(Kinds)  BY <1>1, <1>2, FS_Union
<1>4. IsFiniteSet(DescriptorOps)  BY <1>3, ReactorAssumption, FS_Product DEF DescriptorOps
<1>5. Waiting \in SUBSET DescriptorOps  BY DEF Waiting
<1>6. IsFiniteSet(Waiting)  BY <1>4, <1>5, FS_Subset
<1> QED  BY <1>6, FS_CardinalityType

\* One operation waits no more, or one more does.
LEMMA WaitingLess ==
  ASSUME Types, NEW d \in Descriptors, NEW done \in SUBSET Kinds, done \subseteq op_queue[d],
         op_queue' = [op_queue EXCEPT ![d] = @ \ done]
  PROVE  Cardinality(Waiting') = Cardinality(Waiting)
             - (IF done = {} THEN 0 ELSE IF done = Kinds THEN 2 ELSE 1)
<1> DEFINE r == Op(d, "read")
           w == Op(d, "write")
<1>1. /\ r # w /\ r \in DescriptorOps /\ w \in DescriptorOps
      /\ \A op \in DescriptorOps : op[1] = d => op = r \/ op = w
      /\ r[1] = d /\ r[2] = "read" /\ w[1] = d /\ w[2] = "write"
  BY DEF DescriptorOps, Kinds, Op
<1>2. done = {} \/ done = {"read"} \/ done = {"write"} \/ done = Kinds  BY DEF Kinds
<1>3. \A op \in DescriptorOps : op \in Waiting' <=>
         op \in Waiting /\ ~(op = r /\ "read" \in done) /\ ~(op = w /\ "write" \in done)
  BY <1>1 DEF Waiting, Types, DescriptorOps
<1>4. ("read" \in done => r \in Waiting) /\ ("write" \in done => w \in Waiting)  BY <1>1 DEF Waiting
<1>5. Waiting \subseteq DescriptorOps /\ Waiting' \subseteq DescriptorOps  BY DEF Waiting
<1> HIDE DEF r, w
<1>6. CASE done = {}
  <2>1. Waiting' = Waiting  BY <1>3, <1>5, <1>6
  <2> QED  BY <2>1, <1>6, WaitingType
<1>7. CASE done = {"read"}
  <2>1. Waiting' = Waiting \ {r}  BY <1>3, <1>5, <1>7
  <2>2. done # {} /\ done # Kinds  BY <1>7 DEF Kinds
  <2> QED  BY <2>1, <2>2, <1>4, <1>7, WaitingType, FS_RemoveElement
<1>8. CASE done = {"write"}
  <2>1. Waiting' = Waiting \ {w}  BY <1>3, <1>5, <1>8
  <2>2. done # {} /\ done # Kinds  BY <1>8 DEF Kinds
  <2> QED  BY <2>1, <2>2, <1>4, <1>8, WaitingType, FS_RemoveElement
<1>9. CASE done = Kinds
  <2>1. "read" \in done /\ "write" \in done /\ done # {}  BY <1>9 DEF Kinds
  <2>2. Waiting' = (Waiting \ {r}) \ {w}  BY <1>3, <1>5, <2>1
  <2>3. IsFiniteSet(Waiting \ {r}) /\ Cardinality(Waiting \ {r}) = Cardinality(Waiting) - 1
    BY <2>1, <1>4, WaitingType, FS_RemoveElement
  <2>4. w \in Waiting \ {r}  BY <2>1, <1>1, <1>4
  <2>5. Cardinality((Waiting \ {r}) \ {w}) = Cardinality(Waiting \ {r}) - 1
    BY <2>3, <2>4, FS_RemoveElement
  <2> QED  BY <2>1, <2>2, <2>3, <2>5, <1>9, WaitingType
<1> QED  BY <1>2, <1>6, <1>7, <1>8, <1>9

LEMMA WaitingMore ==
  ASSUME Types, NEW d \in Descriptors, NEW kind \in Kinds,
         op_queue' = [op_queue EXCEPT ![d] = @ \cup {kind}]
  PROVE  Cardinality(Waiting') \in Nat /\ Cardinality(Waiting') <= Cardinality(Waiting) + 1
<1>1. Waiting' = Waiting \cup {Op(d, kind)}  BY DEF Waiting, Types, DescriptorOps, Op
<1>2. Cardinality(Waiting') = IF Op(d, kind) \in Waiting THEN Cardinality(Waiting)
                                                         ELSE Cardinality(Waiting) + 1
  BY <1>1, WaitingType, FS_AddElement
<1> QED  BY <1>2, WaitingType

\* A step that touches none of this.
LEMMA CoveredFrame ==
  ASSUME Covered, InHand' = InHand, Kept' = Kept,
         UNCHANGED <<op_queue_, private_op_queue, outstanding_work_, private_outstanding_work,
                     op_queue>>
  PROVE  Covered'
<1>1. Waiting' = Waiting  BY DEF Waiting
<1> QED  BY <1>1 DEF Covered

\* Operations are pushed, with no less work than they are.
LEMMA CoveredPush ==
  ASSUME Types, Covered, NEW s \in Seq(Ops), NEW work \in Nat, Count(s) <= work, Push(s, work),
         op_queue' = op_queue
  PROVE  Covered'
<1>1. /\ op_queue_' = op_queue_ \o s /\ outstanding_work_' = outstanding_work_ + work
      /\ thread' = Woken
      /\ UNCHANGED <<completing, private_op_queue, private_outstanding_work>>
  BY DEF Push
<1>2. Count(op_queue_') <= Count(op_queue_) + Count(s) /\ op_queue_' \in Seq(Ops)
  BY <1>1, CountJoined, Joined DEF Types
<1>3. Waiting' = Waiting  BY DEF Waiting
<1>4. InHand' = InHand /\ Kept' = Kept  BY <1>1 DEF InHand, Kept, Woken
<1>5. InHand \in Nat /\ Kept \in Nat  BY DEF InHand, Kept
<1>6. /\ Count(op_queue_) \in Nat /\ Count(op_queue_') \in Nat /\ Count(private_op_queue) \in Nat
      /\ Count(s) \in Nat /\ Cardinality(Waiting) \in Nat
  BY <1>2, CountType, PrivateSeq, WaitingType DEF Types
<1>7. /\ outstanding_work_ \in Nat /\ private_outstanding_work \in Nat
      /\ outstanding_work_ + private_outstanding_work
           >= Count(op_queue_) + Count(private_op_queue) + Cardinality(Waiting) + InHand + Kept
  BY DEF Covered
<1>8. outstanding_work_' \in Nat /\ private_outstanding_work' \in Nat
  BY <1>1, <1>7
<1>9. outstanding_work_' + private_outstanding_work'
        >= Count(op_queue_') + Count(private_op_queue) + Cardinality(Waiting) + InHand + Kept
  <2> DEFINE total == outstanding_work_ + private_outstanding_work
             rest  == Count(private_op_queue) + Cardinality(Waiting) + InHand + Kept
  <2>1. total \in Nat /\ rest \in Nat /\ total >= Count(op_queue_) + rest  BY SMTT(30), <1>5, <1>6, <1>7
  <2>2. outstanding_work_' + private_outstanding_work' = total + work  BY <1>1, <1>7
  <2>3. Count(op_queue_') + rest
          = Count(op_queue_') + Count(private_op_queue) + Cardinality(Waiting) + InHand + Kept
    BY <1>5, <1>6
  <2> HIDE DEF total, rest
  <2>4. total + work >= Count(op_queue_') + rest  BY <2>1, <1>2, <1>6
  <2> QED  BY <2>2, <2>3, <2>4
<1> QED  BY <1>1, <1>3, <1>4, <1>8, <1>9 DEF Covered

\* A thread that has left run() does not come back.
LEMMA EndedStays == ASSUME thread = "ended", [ReactorNext]_reactorVars PROVE thread' = "ended"
<1>1. CASE UNCHANGED reactorVars  BY <1>1 DEF reactorVars, schedulerVars
<1>2. ASSUME NEW op \in Handlers, Dispatch(op) PROVE thread' = "ended"
  BY <1>2 DEF Dispatch, Push, Woken
<1>3. CASE Enter \/ Leave \/ RunTask \/ RunHandler \/ Sleep \/ Spurious \/ Awake \/ TaskCleanup \/ Completed
  BY <1>3 DEF Enter, Leave, RunTask, RunHandler, Sleep, Spurious, Awake, TaskCleanup, Completed, WorkCleanup
<1>4. CASE InitTask \/ Stop  BY <1>4 DEF InitTask, Stop, StopAllThreads, Woken
<1>5. ASSUME NEW d, Register(d) \/ Resets(d) \/ (\E kinds : Becomes(d, kinds)) \/ \E left : Perform(d, left)
      PROVE  thread' = "ended"
  BY <1>5 DEF Register, Resets, Becomes, Perform, schedulerVars
<1>6. ASSUME NEW t, NEW d, NEW kind, NEW continuation, NEW left, StartPerforms(t, d, kind, continuation, left)
      PROVE  thread' = "ended"
  BY <1>6 DEF StartPerforms, PostImmediate, Push, Woken
<1>7. ASSUME NEW t, (\E d, kind, speculative : StartBlocks(t, d, kind, speculative)) \/ StartQueues(t)
      PROVE  thread' = "ended"
  BY <1>7 DEF StartBlocks, StartQueues, WorkStarted, schedulerVars
<1>8. CASE Collect \/ ShutdownService  BY <1>8 DEF Collect, TaskReturns, ShutdownService
<1> QED  BY <1>1, <1>2, <1>3, <1>4, <1>5, <1>6, <1>7, <1>8 DEF ReactorNext

\* Every step keeps the count.
LEMMA WorkStep ==
  ASSUME Types, Work, [ReactorNext]_reactorVars
  PROVE  Work'
<1> SUFFICES ASSUME thread' # "ended" PROVE Covered'
  BY DEF Work
<1>41. thread # "ended" /\ Covered  BY EndedStays DEF Work
<1>42. /\ outstanding_work_ \in Nat /\ private_outstanding_work \in Nat
       /\ outstanding_work_ + private_outstanding_work
            >= Count(op_queue_) + Count(private_op_queue) + Cardinality(Waiting) + InHand + Kept
  BY <1>41 DEF Covered
<1>40. /\ op_queue_ \in Seq(Ops) /\ private_op_queue \in Seq(Ops)
      /\ Count(op_queue_) \in Nat /\ Count(private_op_queue) \in Nat
      /\ Cardinality(Waiting) \in Nat /\ InHand \in Nat /\ Kept \in Nat
  BY CountType, PrivateSeq, WaitingType DEF Types, InHand, Kept
<1>43. op_queue' = op_queue => Waiting' = Waiting  BY DEF Waiting
<1>44. <<>> \in Seq(Ops) /\ Count(<<>>) = 0  BY CountNone
<1>1. CASE Enter /\ UNCHANGED reactorOnlyVars
  <2>1. InHand' = 0 /\ Kept' = 1 /\ Kept = 0 /\ InHand = 0  BY <1>1 DEF Enter, InHand, Kept
  <2> QED  BY <2>1, <1>40, <1>1, <1>43, <1>42 DEF Covered, Enter, reactorOnlyVars
<1>2. CASE Leave /\ UNCHANGED reactorOnlyVars
  BY <1>2 DEF Leave
<1>3. CASE RunTask /\ UNCHANGED reactorOnlyVars
  <2>1. op_queue_' = Tail(op_queue_) /\ op_queue_ # <<>>  BY <1>3 DEF RunTask
  <2>2. Count(op_queue_') <= Count(op_queue_) /\ Count(op_queue_') \in Nat
    <3>1. Count(Tail(op_queue_)) + (IF Head(op_queue_) \in Unique THEN 0 ELSE 1) <= Count(op_queue_)
      BY <1>40, <2>1, CountTaken
    <3>2. Tail(op_queue_) \in Seq(Ops)  BY <1>40, <2>1, Taken
    <3>3. Count(Tail(op_queue_)) \in Nat  BY <3>2, CountType
    <3> QED  BY <3>1, <3>3, <2>1, <1>40
  <2>3. InHand' = InHand /\ Kept' = Kept /\ thread # "ended"  BY <1>3 DEF RunTask, InHand, Kept
  <2>4. UNCHANGED <<private_op_queue, outstanding_work_, private_outstanding_work, op_queue>>
    BY <1>3 DEF RunTask, reactorOnlyVars
  <2> QED  BY SMTT(30), <2>2, <2>3, <2>4, <1>40, <1>43, <1>42 DEF Covered
<1>4. CASE RunHandler /\ UNCHANGED reactorOnlyVars
  <2>1. /\ op_queue_' = Tail(op_queue_) /\ op_queue_ # <<>> /\ Head(op_queue_) # TaskOp
        /\ completing' = Head(op_queue_) /\ thread = "loop" /\ thread' = "complete"
    BY <1>4 DEF RunHandler
  <2>2. Count(op_queue_') + (IF completing' \in Unique THEN 0 ELSE 1) <= Count(op_queue_)
    BY <1>40, <2>1, CountTaken
  <2>3. Count(op_queue_') \in Nat  BY <2>1, <1>40, Taken, CountType
  <2>4. InHand' = (IF completing' \in Unique THEN 0 ELSE 1) /\ InHand = 0 /\ Kept' = Kept
    BY <2>1 DEF InHand, Kept, Unique
  <2>5. UNCHANGED <<private_op_queue, outstanding_work_, private_outstanding_work, op_queue>>
    BY <1>4 DEF RunHandler, reactorOnlyVars
  <2> QED  BY SMTT(30), <2>1, <2>2, <2>3, <2>4, <2>5, <1>40, <1>43, <1>42 DEF Covered
<1>5. CASE Sleep /\ UNCHANGED reactorOnlyVars
  BY <1>5, <1>41, CoveredFrame DEF Sleep, InHand, Kept, reactorOnlyVars
<1>6. CASE Spurious /\ UNCHANGED reactorOnlyVars
  BY <1>6, <1>41, CoveredFrame DEF Spurious, InHand, Kept, reactorOnlyVars
<1>7. CASE Awake /\ UNCHANGED reactorOnlyVars
  BY <1>7, <1>41, CoveredFrame DEF Awake, InHand, Kept, reactorOnlyVars
<1>8. CASE TaskCleanup /\ UNCHANGED reactorOnlyVars
  <2> DEFINE c == op_queue_ \o private_op_queue
  <2>1. op_queue_' = Append(c, TaskOp) /\ private_op_queue' = <<>>  BY <1>8 DEF TaskCleanup
  <2>2. c \in Seq(Ops) /\ Count(c) <= Count(op_queue_) + Count(private_op_queue)
    BY <1>40, Joined, CountJoined
  <2> HIDE DEF c
  <2>3. TaskOp \in Ops /\ TaskOp \in Unique  BY Apart DEF Unique
  <2>4. Count(op_queue_') <= Count(c)
    <3>1. Count(Append(c, TaskOp)) <= Count(c) + 0  BY <2>2, <2>3, CountAppend
    <3> QED  BY <3>1, <2>1, <2>2, CountType
  <2>5. Count(op_queue_') \in Nat /\ Count(c) \in Nat  BY <2>1, <2>2, <2>3, Appended, CountType
  <2>6. InHand' = InHand /\ Kept' = Kept /\ thread # "ended"  BY <1>8 DEF TaskCleanup, InHand, Kept
  <2>7. UNCHANGED <<outstanding_work_, private_outstanding_work, op_queue>>
    BY <1>8 DEF TaskCleanup, reactorOnlyVars
  <2> QED  BY SMTT(30), <2>1, <2>2, <2>4, <2>5, <2>6, <2>7, <1>40, <1>43, <1>44, <1>42 DEF Covered
<1>9. CASE Completed /\ UNCHANGED reactorOnlyVars
  <2>1. /\ op_queue_' = op_queue_ \o private_op_queue /\ private_op_queue' = <<>>
        /\ thread = "complete" /\ thread' = "loop" /\ completing \notin Descriptors
        /\ outstanding_work_' = (outstanding_work_ + private_outstanding_work) - 1
        /\ private_outstanding_work' = 0
    BY <1>9 DEF Completed, WorkCleanup
  <2>2. Count(op_queue_') \in Nat /\ Count(op_queue_') <= Count(op_queue_) + Count(private_op_queue)
    BY <2>1, <1>40, Joined, CountJoined, CountType
  <2>3. InHand = 1 /\ InHand' = 0 /\ Kept = 1 /\ Kept' = 1  BY <2>1 DEF InHand, Kept
  <2>4. op_queue' = op_queue  BY <1>9 DEF reactorOnlyVars
  <2> QED  BY SMTT(30), <2>1, <2>2, <2>3, <2>4, <1>40, <1>43, <1>44, <1>42 DEF Covered
<1>10. CASE InitTask /\ UNCHANGED reactorOnlyVars
  <2>1. op_queue_' = Append(op_queue_, TaskOp) /\ TaskOp \in Ops /\ TaskOp \in Unique
    BY <1>10, Apart DEF InitTask, Unique
  <2>2. Count(op_queue_') <= Count(op_queue_) /\ Count(op_queue_') \in Nat
    <3>1. Count(Append(op_queue_, TaskOp)) <= Count(op_queue_) + 0  BY <1>40, <2>1, CountAppend
    <3>2. Append(op_queue_, TaskOp) \in Seq(Ops)  BY <1>40, <2>1, Appended
    <3>3. Count(Append(op_queue_, TaskOp)) \in Nat  BY <3>2, CountType
    <3> QED  BY <3>1, <3>3, <2>1, <1>40
  <2>3. InHand' = InHand /\ Kept' = Kept /\ (thread' # "ended" => thread # "ended")
    BY <1>10 DEF InitTask, Woken, InHand, Kept
  <2>4. UNCHANGED <<private_op_queue, outstanding_work_, private_outstanding_work, op_queue>>
    BY <1>10 DEF InitTask, reactorOnlyVars
  <2> QED  BY SMTT(30), <2>2, <2>3, <2>4, <1>40, <1>43, <1>42 DEF Covered
<1>11. CASE Stop /\ UNCHANGED reactorOnlyVars
  BY <1>11, <1>41, CoveredFrame DEF Stop, StopAllThreads, Woken, InHand, Kept, reactorOnlyVars
<1>12. ASSUME NEW h \in Handlers, Dispatch(h), UNCHANGED reactorOnlyVars
      PROVE  Covered'
  <2>1. h \in Ops /\ h \notin Unique  BY Apart
  <2>2. <<h>> \in Seq(Ops) /\ Count(<<h>>) <= 1 /\ 1 \in Nat  BY <2>1, Single, CountSingle
  <2>3. Push(<<h>>, 1) /\ op_queue' = op_queue  BY <1>12 DEF Dispatch, reactorOnlyVars
  <2> QED  BY <2>2, <2>3, <1>41, CoveredPush
<1>13. ASSUME NEW d \in Descriptors, Register(d)
      PROVE  Covered'
  BY <1>13, <1>41, CoveredFrame DEF Register, schedulerVars, InHand, Kept
<1>14. ASSUME NEW d \in Descriptors, Resets(d)
      PROVE  Covered'
  BY <1>14, <1>41, CoveredFrame DEF Resets, schedulerVars, InHand, Kept
<1>15. ASSUME NEW d \in Descriptors, NEW kinds \in SUBSET Kinds, Becomes(d, kinds)
      PROVE  Covered'
  BY <1>15, <1>41, CoveredFrame DEF Becomes, schedulerVars, InHand, Kept
<1>16. ASSUME NEW d \in Descriptors, NEW left \in SUBSET Kinds, Perform(d, left)
      PROVE  Covered'
  <2> DEFINE done == op_queue[d] \cap task_result_[d] \cap can[d]
  <2>1. /\ thread = "complete" /\ thread' = thread /\ completing = d
        /\ op_queue' = [op_queue EXCEPT ![d] = @ \ done]
        /\ outstanding_work_' = outstanding_work_ + IF done = {} THEN 1 ELSE 0
        /\ UNCHANGED <<private_op_queue, private_outstanding_work>>
    BY <1>16 DEF Perform
  <2>2. done \in SUBSET Kinds /\ done \subseteq op_queue[d]  BY DEF Types
  <2>3. Cardinality(Waiting') = Cardinality(Waiting)
             - (IF done = {} THEN 0 ELSE IF done = Kinds THEN 2 ELSE 1)
    BY <2>1, <2>2, WaitingLess
  <2>4. completing' \notin Descriptors
    BY <1>16, Apart, ReactorAssumption DEF Perform, Kinds, Unique
  <2>5. InHand = 0 /\ InHand' = 1 /\ Kept = 1 /\ Kept' = 1  BY <2>1, <2>4 DEF InHand, Kept
  <2>6. op_queue_' = IF done = Kinds THEN Append(op_queue_, Op(d, "read")) ELSE op_queue_
    BY <1>16 DEF Perform
  <2>7. /\ Count(op_queue_') \in Nat
        /\ Count(op_queue_') <= Count(op_queue_) + IF done = Kinds THEN 1 ELSE 0
    <3>1. Op(d, "read") \in Ops /\ Op(d, "read") \notin Unique  BY Apart DEF Kinds
    <3>2. Count(Append(op_queue_, Op(d, "read"))) <= Count(op_queue_) + 1
      BY <1>40, <3>1, CountAppend
    <3>3. Append(op_queue_, Op(d, "read")) \in Seq(Ops)  BY <1>40, <3>1, Appended
    <3>4. Count(Append(op_queue_, Op(d, "read"))) \in Nat  BY <3>3, CountType
    <3> QED  BY <1>40, <2>6, <3>2, <3>4
  <2>8. done = Kinds => done # {}  BY DEF Kinds
  <2> HIDE DEF done
  <2>9. CASE done = {}  BY SMTT(30), <2>1, <2>3, <2>5, <2>7, <2>8, <2>9, <1>40, <1>42 DEF Covered
  <2>10. CASE done = Kinds  BY SMTT(30), <2>1, <2>3, <2>5, <2>7, <2>8, <2>10, <1>40, <1>42 DEF Covered
  <2>11. CASE done # {} /\ done # Kinds  BY <2>1, <2>3, <2>5, <2>7, <2>11, <1>40, <1>42 DEF Covered
  <2> QED  BY <2>9, <2>10, <2>11
<1>17. ASSUME NEW t \in Threads, NEW d \in Descriptors, NEW kind \in Kinds, NEW continuation \in BOOLEAN,
         NEW left \in SUBSET Kinds, StartPerforms(t, d, kind, continuation, left)
      PROVE  Covered'
  <2>1. Op(d, kind) \in Ops /\ Op(d, kind) \notin Unique  BY Apart
  <2>2. op_queue' = op_queue  BY <1>17 DEF StartPerforms
  <2>3. CASE continuation /\ t = "service"
    <3>1. /\ private_op_queue' = Append(private_op_queue, Op(d, kind))
          /\ private_outstanding_work' = private_outstanding_work + 1
          /\ UNCHANGED <<op_queue_, outstanding_work_, thread, completing>>
      BY <2>3, <1>17 DEF StartPerforms, PostImmediate
    <3>2. /\ Count(private_op_queue') <= Count(private_op_queue) + 1
          /\ Count(private_op_queue') \in Nat
      <4>1. Count(Append(private_op_queue, Op(d, kind))) <= Count(private_op_queue) + 1
        BY <1>40, <2>1, CountAppend
      <4>2. Append(private_op_queue, Op(d, kind)) \in Seq(Ops)  BY <1>40, <2>1, Appended
      <4> QED  BY <3>1, <4>1, <4>2, CountType
    <3>3. InHand' = InHand /\ Kept' = Kept  BY <3>1 DEF InHand, Kept
    <3>4. outstanding_work_ + private_outstanding_work'
            >= Count(op_queue_) + Count(private_op_queue') + Cardinality(Waiting) + InHand + Kept
      <4> DEFINE total == outstanding_work_ + private_outstanding_work
                 rest  == Count(op_queue_) + Cardinality(Waiting) + InHand + Kept
      <4>1. total \in Nat /\ rest \in Nat /\ total >= Count(private_op_queue) + rest  BY SMTT(30), <1>40, <1>42
      <4>2. outstanding_work_ + private_outstanding_work' = total + 1  BY <3>1, <1>42
      <4>3. Count(private_op_queue') + rest
              = Count(op_queue_) + Count(private_op_queue') + Cardinality(Waiting) + InHand + Kept
        BY <3>2, <1>40
      <4> HIDE DEF total, rest
      <4>4. total + 1 >= Count(private_op_queue') + rest  BY <4>1, <3>2, <1>40
      <4> QED  BY <4>2, <4>3, <4>4
    <3>5. private_outstanding_work' \in Nat /\ Waiting' = Waiting  BY <3>1, <2>2, <1>42, <1>43
    <3> QED  BY <3>1, <3>3, <3>4, <3>5, <1>42 DEF Covered
  <2>4. CASE ~(continuation /\ t = "service")
    <3>1. Push(<<Op(d, kind)>>, 1)  BY <2>4, <1>17 DEF StartPerforms, PostImmediate
    <3>2. <<Op(d, kind)>> \in Seq(Ops) /\ Count(<<Op(d, kind)>>) <= 1 /\ 1 \in Nat
      BY <2>1, Single, CountSingle
    <3> QED  BY <3>1, <3>2, <2>2, <1>41, CoveredPush
  <2> QED  BY <2>3, <2>4
<1>18. ASSUME NEW t \in Threads, NEW d \in Descriptors, NEW kind \in Kinds, NEW speculative \in BOOLEAN,
         StartBlocks(t, d, kind, speculative)
      PROVE  Covered'
  BY <1>18, <1>41, CoveredFrame DEF StartBlocks, schedulerVars, InHand, Kept
<1>19. ASSUME NEW t \in Threads, StartQueues(t)
      PROVE  Covered'
  <2>1. starting[t].d \in Descriptors /\ starting[t].kind \in Kinds
    BY <1>19 DEF Types, StartQueues, Starting
  <2>2. op_queue' = [op_queue EXCEPT ![starting[t].d] = @ \cup {starting[t].kind}]
    BY <1>19 DEF StartQueues
  <2>3. Cardinality(Waiting') \in Nat /\ Cardinality(Waiting') <= Cardinality(Waiting) + 1
    BY <2>1, <2>2, WaitingMore
  <2>4. /\ outstanding_work_' = outstanding_work_ + 1
        /\ UNCHANGED <<op_queue_, private_op_queue, private_outstanding_work, thread, completing>>
    BY <1>19 DEF StartQueues, WorkStarted
  <2>5. InHand' = InHand /\ Kept' = Kept  BY <2>4 DEF InHand, Kept
  <2> QED  BY SMTT(30), <2>3, <2>4, <2>5, <1>40, <1>42 DEF Covered
<1>20. CASE Collect
  <2> DEFINE found == {d \in edges : Events(d) # {}}
  <2>1. PICK order \in [1..Cardinality(found) -> found] : TaskReturns(order)  BY <1>20 DEF Collect
  <2>2. order \in Seq(Private) /\ \A i \in DOMAIN order : order[i] \in Unique
    BY Reports DEF Types, Unique
  <2>3. private_op_queue' = order /\ Count(private_op_queue') = 0
    BY <2>1, <2>2, PrivateSeq, CountPlain DEF TaskReturns
  <2>4. UNCHANGED <<op_queue_, outstanding_work_, private_outstanding_work, completing>>
    BY <2>1 DEF TaskReturns
  <2>5. op_queue' = op_queue  BY <1>20 DEF Collect
  <2>6. InHand' = InHand /\ Kept' = Kept /\ thread # "ended"
    BY <2>1 DEF TaskReturns, InHand, Kept
  <2> QED  BY SMTT(30), <2>3, <2>4, <2>5, <2>6, <1>40, <1>43, <1>42 DEF Covered
<1>21. CASE ShutdownService
  BY <1>21, <1>41 DEF ShutdownService
<1>22. CASE UNCHANGED reactorVars
  BY <1>22, <1>41, CoveredFrame DEF reactorVars, schedulerVars, reactorOnlyVars, InHand, Kept
<1>23. \A kind \in Kinds : {kind} \in SUBSET Kinds  OBVIOUS
<1>24. Kinds \in SUBSET Kinds  OBVIOUS
<1> QED
  BY <1>1, <1>2, <1>3, <1>4, <1>5, <1>6, <1>7, <1>8, <1>9, <1>10, <1>11, <1>12,
     <1>13, <1>14, <1>15, <1>16, <1>17, <1>18, <1>19, <1>20, <1>21, <1>22, <1>23, <1>24 DEF ReactorNext

\* So there is work left whenever an operation has been completed, and nothing but stop() stops.
LEMMA WorkRemains ==
  ASSUME Types, Work, WorkCleanup, completing \notin Descriptors
  PROVE  stopped_' = stopped_
<1>1. /\ outstanding_work_ \in Nat /\ private_outstanding_work \in Nat
      /\ outstanding_work_ + private_outstanding_work
           >= Count(op_queue_) + Count(private_op_queue) + Cardinality(Waiting) + InHand + Kept
      /\ InHand = 1 /\ Kept = 1
  BY DEF Work, Covered, WorkCleanup, InHand, Kept
<1>2. Count(op_queue_) \in Nat /\ Count(private_op_queue) \in Nat /\ Cardinality(Waiting) \in Nat
  BY CountType, PrivateSeq, WaitingType DEF Types
<1>3. (outstanding_work_ + private_outstanding_work) - 1 # 0  BY <1>1, <1>2
<1> QED  BY <1>3 DEF WorkCleanup
-----------------------------------------------------------------------------
(* The theorems.                                                           *)

IInv == Types /\ Order /\ Wake /\ Held /\ NothingStranded /\ Work

\* It holds at first.
LEMMA InitIInv == ReactorInit => IInv
<1> SUFFICES ASSUME ReactorInit PROVE IInv
  OBVIOUS
<1> USE DEF ReactorInit, SchedulerInit
<1>1. Types  BY DEF Types, Places, Kinds
<1>2. Order  BY ReactorAssumption DEF Order, Ordered, Plain
<1>3. Wake  BY DEF Wake
<1>4. Held  BY DEF Held
<1>5. NothingStranded  BY DEF NothingStranded
<1>6. Work
  <2>1. Count(<<>>) = 0  BY CountNone
  <2>2. Waiting = {}  BY DEF Waiting, DescriptorOps
  <2> QED  BY <2>1, <2>2, FS_EmptySet DEF Work, Covered, InHand, Kept
<1> QED  BY <1>1, <1>2, <1>3, <1>4, <1>5, <1>6 DEF IInv

\* Every step keeps it.
LEMMA IInvStep == IInv /\ [ReactorNext]_reactorVars => IInv'
  BY TypesStep, OrderStep, WakeStep, HeldStep, StrandStep, WorkStep DEF IInv

\* It is an invariant of the reactor, whoever uses it.
THEOREM ReactorInvariant == ReactorSpec => []IInv
  BY InitIInv, IInvStep, PTL DEF ReactorSpec

\* run() never links a descriptor or the reactor into a queue it is in already.
THEOREM QueuedOnceAlways == ReactorSpec => []QueuedOnce
<1>1. IInv => QueuedOnce  BY OrderIsEnough DEF IInv
<1> QED  BY <1>1, ReactorInvariant, PTL

\* An operation or a stop never meets a thread that sleeps on, in the event or in epoll_wait.
THEOREM NoLostWakeupAlways == ReactorSpec => []NoLostWakeup
<1>1. IInv => NoLostWakeup  BY WakeIsEnough DEF IInv
<1> QED  BY <1>1, ReactorInvariant, PTL

\* An operation that is queued though it need not wait will be tried again.
THEOREM NothingStrandedAlways == ReactorSpec => []NothingStranded
<1>1. IInv => NothingStranded  BY DEF IInv
<1> QED  BY <1>1, ReactorInvariant, PTL
-----------------------------------------------------------------------------
\* What the server keeps of its connections.
STypes ==
    /\ backlog \in SUBSET Connections
    /\ peer \in Connections \cup {Nobody}
    /\ todo \in Seq([d : Descriptors, kind : Kinds, continuation : BOOLEAN])

SInv == Types /\ STypes
-----------------------------------------------------------------------------
(* The server uses the reactor.                                            *)

\* What is left of a descriptor's readiness is a set of kinds.
LEMMA LeftType ==
  ASSUME Types
  PROVE  /\ \A d \in Descriptors, kinds \in SUBSET Kinds : Left(d, kinds) \in SUBSET SUBSET Kinds
         /\ \A c : LeftByAccept(c) \in SUBSET Kinds
         /\ \A d \in Descriptors : can[d] \in SUBSET Kinds
         /\ \A kind \in Kinds : {kind} \in SUBSET Kinds
         /\ Kinds \in SUBSET Kinds
         /\ "read" \in Kinds /\ "write" \in Kinds
         /\ Acceptor \in Descriptors /\ Connections \subseteq Descriptors
         /\ "host" \in Threads /\ "service" \in Threads
<1>1. Acceptor \in Descriptors /\ Connections \subseteq Descriptors  BY ServerAssumption
<1>2. \A d \in Descriptors : can[d] \in SUBSET Kinds  BY DEF Types
<1>3. \A d \in Descriptors, kinds \in SUBSET Kinds : Left(d, kinds) \in SUBSET SUBSET Kinds
  BY <1>1, <1>2 DEF Left
<1>4. \A c : LeftByAccept(c) \in SUBSET Kinds  BY <1>1, <1>2 DEF LeftByAccept
<1> QED  BY <1>1, <1>2, <1>3, <1>4 DEF Kinds, Threads

\* Every step of the server's thread is one that the reactor allows, or none of its own.
LEMMA ServiceUses == ASSUME SInv, Service PROVE [ReactorNext]_reactorVars
<1> USE LeftType DEF SInv
<1>1. CASE RegisterPeer
  <2>1. peer \in Descriptors  BY <1>1 DEF RegisterPeer, STypes
  <2> QED  BY <2>1, <1>1 DEF RegisterPeer, ReactorNext
<1>2. CASE Scheduled  BY <1>2 DEF Scheduled, ReactorNext
<1>3. CASE Performs
  <2>1. ASSUME NEW d \in Descriptors, NEW left \in Left(d, Kinds), Perform(d, left) PROVE ReactorNext
    <3>1. left \in SUBSET Kinds  OBVIOUS
    <3> QED  BY <3>1, <2>1 DEF ReactorNext
  <2>2. ASSUME NEW left \in SUBSET Kinds, Perform(Acceptor, left) PROVE ReactorNext
    BY <2>2 DEF ReactorNext
  <2> QED  BY <2>1, <2>2, <1>3 DEF Performs
<1>4. CASE Starts
  <2> DEFINE s == Head(todo)
  <2>1. s \in [d : Descriptors, kind : Kinds, continuation : BOOLEAN]
    BY <1>4, HeadTailProperties DEF Starts, STypes
  <2>2. CASE StartBlocks("service", s.d, s.kind, TRUE)  BY <2>1, <2>2 DEF ReactorNext
  <2>3. ASSUME NEW left \in Left(s.d, {s.kind}),
               StartPerforms("service", s.d, s.kind, s.continuation, left)
        PROVE  ReactorNext
    <3>1. left \in SUBSET Kinds  BY <2>1
    <3> QED  BY <2>1, <2>3, <3>1 DEF ReactorNext
  <2>4. ASSUME NEW c, StartPerforms("service", Acceptor, "read", TRUE, LeftByAccept(c)) PROVE ReactorNext
    BY <2>4 DEF ReactorNext
  <2> QED  BY <2>2, <2>3, <2>4, <1>4 DEF Starts
<1>5. CASE Queues  BY <1>5 DEF Queues, ReactorNext
<1>6. CASE Returns  BY <1>6 DEF Returns, ReactorNext
<1>7. CASE OnServiceStarted \/ OnAccept \/ AcceptThrows
  BY <1>7 DEF OnServiceStarted, OnAccept, AcceptThrows, Calls, reactorVars
<1>8. ASSUME NEW c \in Connections,
             \/ OnRead(c) \/ OnReadEarly(c) \/ OnReadThrows(c) \/ OnReadError(c)
             \/ OnWrite(c) \/ OnWriteError(c)
      PROVE  UNCHANGED reactorVars
  BY <1>8 DEF OnRead, OnReadEarly, OnReadThrows, OnReadError, OnWrite, OnWriteError, Calls, reactorVars
<1> QED  BY <1>1, <1>2, <1>3, <1>4, <1>5, <1>6, <1>7, <1>8 DEF Service

\* So is every step of the host and of the clients.
LEMMA OthersUse == ASSUME SInv, InCall \/ World PROVE [ReactorNext]_reactorVars
<1> USE LeftType DEF SInv
<1>1. CASE Spawn \/ StartEnds \/ BuildEnds \/ Join \/ DeleteMessager
  BY <1>1 DEF Spawn, StartEnds, BuildEnds, Join, DeleteMessager, reactorVars
<1>2. CASE Build  BY <1>2, ServerAssumption DEF Build, ReactorNext
<1>3. CASE CreateAcceptor  BY <1>3 DEF CreateAcceptor, ReactorNext
<1>4. CASE OpenAcceptor  BY <1>4 DEF OpenAcceptor, ReactorNext
<1>5. CASE Bind  BY <1>5 DEF Bind, ReactorNext
<1>6. CASE HungUp  BY <1>6 DEF HungUp, ReactorNext
<1>7. CASE Listen  BY <1>7 DEF Listen, ReactorNext
<1>8. CASE ListenQueues \/ HostQueues  BY <1>8 DEF ListenQueues, HostQueues, ReactorNext
<1>9. CASE UTEDestroy  BY <1>9 DEF UTEDestroy, ReactorNext
<1>10. CASE Destroy  BY <1>10 DEF Destroy, ReactorNext
<1>11. CASE WakesForNothing  BY <1>11 DEF WakesForNothing, ReactorNext
<1>12. ASSUME NEW c \in Connections, Connect(c) \/ Goes(c) \/ \E kind \in Kinds : Arrives(c, kind)
       PROVE  ReactorNext
  <2>1. CASE Connect(c)  BY <2>1 DEF Connect, ReactorNext
  <2>2. CASE Goes(c)  BY <2>2 DEF Goes, ReactorNext
  <2>3. CASE \E kind \in Kinds : Arrives(c, kind)  BY <2>3 DEF Arrives, ReactorNext
  <2> QED  BY <2>1, <2>2, <2>3, <1>12
<1>13. ASSUME NEW c \in Connections, HostWrites(c) PROVE ReactorNext
  <2>1. ASSUME NEW left \in Left(c, {"write"}), StartPerforms("host", c, "write", FALSE, left) PROVE ReactorNext
    <3>1. left \in SUBSET Kinds /\ c \in Descriptors  OBVIOUS
    <3> QED  BY <3>1, <2>1 DEF ReactorNext
  <2>2. CASE StartBlocks("host", c, "write", TRUE)  BY <2>2 DEF ReactorNext
  <2> QED  BY <2>1, <2>2, <1>13 DEF HostWrites
<1> QED
  BY <1>1, <1>2, <1>3, <1>4, <1>5, <1>6, <1>7, <1>8, <1>9, <1>10, <1>11, <1>12, <1>13 DEF InCall, World

\* Every step of the system is one that the reactor allows, or none of its own.
LEMMA NextUses == ASSUME SInv, [Next]_vars PROVE [ReactorNext]_reactorVars
<1>1. CASE ~dead /\ (Service \/ InCall \/ World)  BY <1>1, ServiceUses, OthersUse
<1>2. CASE Terminated \/ UNCHANGED vars  BY <1>2 DEF Terminated, vars, reactorVars
<1> QED  BY <1>1, <1>2 DEF Next

\* Every step keeps what the server keeps of its connections.
LEMMA STypesStep == ASSUME STypes, [Next]_vars PROVE STypes'
<1> DEFINE todos == [d : Descriptors, kind : Kinds, continuation : BOOLEAN]
<1>1. todo # <<>> => Tail(todo) \in Seq(todos)  BY HeadTailProperties DEF STypes
<1>2. \A d \in Descriptors, kind \in Kinds, continuation \in BOOLEAN : ToStart(d, kind, continuation) \in todos
  BY DEF ToStart
<1>3. \A x, y \in todos : <<x>> \in Seq(todos) /\ <<x, y>> \in Seq(todos)  OBVIOUS
<1>4. /\ Acceptor \in Descriptors /\ Connections \subseteq Descriptors
      /\ "read" \in Kinds /\ "write" \in Kinds
  BY ServerAssumption DEF Kinds
<1>5. CASE UNCHANGED <<backlog, peer, todo>>  BY <1>5 DEF STypes
<1>6. ASSUME NEW c, Accepts(c), todo' = todo \/ (todo # <<>> /\ todo' = Tail(todo)) PROVE STypes'
  BY <1>1, <1>6 DEF STypes, Accepts
<1>7. CASE Service
  <2>1. CASE RegisterPeer \/ Scheduled \/ Returns  BY <2>1, <1>5 DEF RegisterPeer, Scheduled, Returns, serverOnlyVars
  <2>2. CASE Performs  BY <2>2, <1>5, <1>6 DEF Performs, serverOnlyVars
  <2>3. CASE Starts
    <3>1. CASE UNCHANGED serverOnlyVars  BY <3>1, <1>5 DEF serverOnlyVars
    <3>2. CASE todo # <<>> /\ todo' = Tail(todo) /\ UNCHANGED <<backlog, peer>>  BY <3>2, <1>1 DEF STypes
    <3> QED  BY <3>1, <3>2, <1>6, <2>3 DEF Starts
  <2>4. CASE Queues
    <3>1. todo' = Tail(todo) /\ UNCHANGED <<backlog, peer>>  BY <2>4 DEF Queues
    <3> QED  BY <3>1, <1>1, <1>5 DEF STypes
  <2>5. CASE OnAccept
    <3>1. peer \in Connections  BY <2>5 DEF OnAccept, STypes
    <3>2. PICK shared \in BOOLEAN : todo' = <<ToStart(peer, "read", shared), ToStart(Acceptor, "read", TRUE)>>
      BY <2>5 DEF OnAccept
    <3>3. todo' \in Seq(todos)  BY <3>1, <3>2, <1>2, <1>3, <1>4
    <3>4. peer' = Nobody /\ backlog' = backlog  BY <2>5 DEF OnAccept
    <3> QED  BY <3>3, <3>4 DEF STypes
  <2>6. CASE OnServiceStarted \/ AcceptThrows  BY <2>6, <1>5 DEF OnServiceStarted, AcceptThrows
  <2>7. ASSUME NEW c \in Connections, OnReadEarly(c) \/ OnReadThrows(c) \/ OnReadError(c) \/ OnWriteError(c)
        PROVE  STypes'
    BY <2>7, <1>5 DEF OnReadEarly, OnReadThrows, OnReadError, OnWriteError
  <2>8. ASSUME NEW c \in Connections, OnRead(c) \/ OnWrite(c) PROVE STypes'
    <3>1. ToStart(c, "write", TRUE) \in todos /\ ToStart(c, "read", TRUE) \in todos  BY <1>2, <1>4
    <3>2. todo' = todo \/ todo' \in Seq(todos)  BY <3>1, <1>3, <2>8 DEF OnRead, OnWrite
    <3>3. UNCHANGED <<backlog, peer>>  BY <2>8 DEF OnRead, OnWrite
    <3> QED  BY <3>2, <3>3 DEF STypes
  <2> QED  BY <2>1, <2>2, <2>3, <2>4, <2>5, <2>6, <2>7, <2>8, <1>7 DEF Service
<1>8. CASE InCall
  BY <1>8, <1>5 DEF InCall, Spawn, StartEnds, CreateAcceptor, OpenAcceptor, Bind, Listen, ListenQueues, BuildEnds,
     HostQueues, Join, DeleteMessager, UTEDestroy, Goto, serverOnlyVars
<1>9. CASE World
  <2>1. CASE Build \/ Destroy \/ WakesForNothing \/ HungUp
    BY <2>1, <1>5 DEF Build, Destroy, WakesForNothing, HungUp, Goto, serverOnlyVars
  <2>2. ASSUME NEW c \in Connections, Goes(c) \/ HostWrites(c) \/ \E kind \in Kinds : Arrives(c, kind) PROVE STypes'
    BY <2>2, <1>5 DEF Goes, HostWrites, Arrives, serverOnlyVars
  <2>3. ASSUME NEW c \in Connections, Connect(c) PROVE STypes'
    BY <2>3 DEF Connect, STypes
  <2> QED  BY <2>1, <2>2, <2>3, <1>9 DEF World
<1>10. CASE Terminated \/ UNCHANGED vars  BY <1>10, <1>5 DEF Terminated, vars, serverOnlyVars
<1> QED  BY <1>7, <1>8, <1>9, <1>10 DEF Next

\* The types are an invariant of the server.
LEMMA ServerTypes == Spec => []SInv
<1>1. Init => SInv
  <2> SUFFICES ASSUME Init PROVE SInv
    OBVIOUS
  <2>1. Types  BY InitIInv DEF Init, IInv
  <2>2. STypes  BY DEF Init, STypes
  <2> QED  BY <2>1, <2>2 DEF SInv
<1>2. SInv /\ [Next]_vars => SInv'  BY NextUses, TypesStep, STypesStep DEF SInv
<1> QED  BY <1>1, <1>2, PTL DEF Spec

\* The server behaves as the reactor's callers may: everything proved of the reactor holds of it.
THEOREM ServerUsesReactor == Spec => ReactorSpec
<1>1. Init => ReactorInit  BY DEF Init
<1>2. SInv /\ [Next]_vars => [ReactorNext]_reactorVars  BY NextUses
<1> QED  BY <1>1, <1>2, ServerTypes, PTL DEF Spec, ReactorSpec

\* In the server, no operation and no stop finds the thread asleep and leaves it so.
THEOREM ServerWakes == Spec => []NoLostWakeup
  BY ServerUsesReactor, NoLostWakeupAlways, PTL

\* In the server, run() finds the queues whole.
THEOREM ServerQueuesOnce == Spec => []QueuedOnce
  BY ServerUsesReactor, QueuedOnceAlways, PTL

\* In the server, whatever its threads start when, no operation is stranded.
THEOREM ServerStrandsNothing == Spec => []NothingStranded
  BY ServerUsesReactor, NothingStrandedAlways, PTL
-----------------------------------------------------------------------------
(* The objects that handlers use.                                          *)

\* The host deletes nothing before it has joined the thread.
LEMMA HostDeletes ==
  ASSUME [Next]_vars, host' \in {"delete", "shut", "destroyed"}
  PROVE  host \in {"delete", "shut", "destroyed"} \/ thread = "ended"
<1>1. CASE Service
  <2>1. CASE RegisterPeer \/ Scheduled \/ Performs \/ Starts \/ Queues \/ Returns
    BY <2>1 DEF RegisterPeer, Scheduled, Performs, Starts, Queues, Returns, Accepts, serverOnlyVars
  <2>2. CASE OnServiceStarted \/ OnAccept \/ AcceptThrows
    BY <2>2 DEF OnServiceStarted, OnAccept, AcceptThrows
  <2>3. ASSUME NEW c,
               \/ OnRead(c) \/ OnReadEarly(c) \/ OnReadThrows(c) \/ OnReadError(c)
               \/ OnWrite(c) \/ OnWriteError(c)
        PROVE  host' = host
    BY <2>3 DEF OnRead, OnReadEarly, OnReadThrows, OnReadError, OnWrite, OnWriteError
  <2> QED  BY <2>1, <2>2, <2>3, <1>1 DEF Service
<1>2. CASE InCall
  BY <1>2 DEF InCall, Spawn, StartEnds, CreateAcceptor, OpenAcceptor, Bind, Listen, ListenQueues, BuildEnds,
     HostQueues, Join, DeleteMessager, UTEDestroy, Goto, serverOnlyVars
<1>3. CASE World
  <2>1. CASE Build \/ Destroy \/ WakesForNothing \/ HungUp
    BY <2>1 DEF Build, Destroy, WakesForNothing, HungUp, Goto, serverOnlyVars
  <2>2. ASSUME NEW c, Connect(c) \/ Goes(c) \/ HostWrites(c) \/ \E kind : Arrives(c, kind) PROVE host' = host
    BY <2>2 DEF Connect, Goes, HostWrites, Arrives, serverOnlyVars
  <2> QED  BY <2>1, <2>2, <1>3 DEF World
<1>4. CASE Terminated \/ UNCHANGED vars  BY <1>4 DEF Terminated, vars, serverOnlyVars
<1> QED  BY <1>1, <1>2, <1>3, <1>4 DEF Next

\* No handler runs while or after the messager, its transports and the acceptor are deleted.
THEOREM ServerObjectsLive == Spec => []LivingObjects
<1>1. Init => LivingObjects  BY DEF Init, LivingObjects
<1>2. SInv /\ LivingObjects /\ [Next]_vars => LivingObjects'
  <2> SUFFICES ASSUME SInv, LivingObjects, [Next]_vars, host' \in {"delete", "shut", "destroyed"}
               PROVE  thread' = "ended"
    BY DEF LivingObjects
  <2>1. thread = "ended"  BY HostDeletes DEF LivingObjects
  <2> QED  BY <2>1, NextUses, EndedStays
<1> QED  BY <1>1, <1>2, ServerTypes, PTL DEF Spec
-----------------------------------------------------------------------------
(* The end of run().                                                       *)

\* Nothing but RTSPLiveDestroy stops the service: work_finished finds work left.
LEMMA StoppedByDestroy ==
  ASSUME SInv, Work, [Next]_vars
  PROVE  stopped_' = stopped_ \/ Destroy
<1>1. CASE Service
  <2>1. CASE RegisterPeer  BY <2>1 DEF RegisterPeer, Register, schedulerVars
  <2>2. CASE Scheduled
    BY <2>2 DEF Scheduled, Enter, Leave, RunTask, RunHandler, Sleep, Awake, TaskCleanup, Collect,
           TaskReturns
  <2>3. CASE Performs  BY <2>3 DEF Performs, Perform
  <2>4. CASE Starts
    <3>1. ASSUME NEW d, NEW kind, NEW c, NEW left, StartPerforms("service", d, kind, c, left)
          PROVE  stopped_' = stopped_
      BY <3>1 DEF StartPerforms, PostImmediate, Push
    <3>2. ASSUME NEW d, NEW kind, StartBlocks("service", d, kind, TRUE) PROVE stopped_' = stopped_
      BY <3>2 DEF StartBlocks, schedulerVars
    <3> QED  BY <3>1, <3>2, <2>4 DEF Starts
  <2>5. CASE Queues  BY <2>5 DEF Queues, StartQueues, WorkStarted
  <2>6. CASE Returns  BY <2>6, WorkRemains DEF Returns, Completed, SInv
  <2>7. CASE OnServiceStarted \/ OnAccept \/ AcceptThrows
    BY <2>7 DEF OnServiceStarted, OnAccept, AcceptThrows, Calls, schedulerVars
  <2>8. ASSUME NEW c,
               \/ OnRead(c) \/ OnReadEarly(c) \/ OnReadThrows(c) \/ OnReadError(c)
               \/ OnWrite(c) \/ OnWriteError(c)
        PROVE  stopped_' = stopped_
    BY <2>8 DEF OnRead, OnReadEarly, OnReadThrows, OnReadError, OnWrite, OnWriteError, Calls, schedulerVars
  <2> QED  BY <2>1, <2>2, <2>3, <2>4, <2>5, <2>6, <2>7, <2>8, <1>1 DEF Service
<1>2. CASE InCall
  <2>1. CASE Spawn \/ StartEnds \/ BuildEnds \/ Join \/ DeleteMessager
    BY <2>1 DEF Spawn, StartEnds, BuildEnds, Join, DeleteMessager, schedulerVars
  <2>2. CASE CreateAcceptor \/ OpenAcceptor \/ Bind \/ Listen
    BY <2>2 DEF CreateAcceptor, InitTask, OpenAcceptor, Register, Bind, Resets, Listen, StartBlocks,
           schedulerVars
  <2>3. CASE ListenQueues \/ HostQueues \/ UTEDestroy
    BY <2>3 DEF ListenQueues, HostQueues, StartQueues, WorkStarted, UTEDestroy, ShutdownService
  <2> QED  BY <2>1, <2>2, <2>3, <1>2 DEF InCall
<1>3. CASE World
  <2>1. CASE Build  BY <2>1 DEF Build, Dispatch, Push
  <2>2. CASE WakesForNothing  BY <2>2 DEF WakesForNothing, Spurious, Collect, TaskReturns
  <2>3. CASE HungUp  BY <2>3 DEF HungUp, Becomes, schedulerVars
  <2>4. ASSUME NEW c, Connect(c) \/ Goes(c) \/ \E kind : Arrives(c, kind) PROVE stopped_' = stopped_
    BY <2>4 DEF Connect, Goes, Arrives, Becomes, schedulerVars
  <2>5. ASSUME NEW c, HostWrites(c) PROVE stopped_' = stopped_
    BY <2>5 DEF HostWrites, StartPerforms, PostImmediate, Push, StartBlocks, schedulerVars
  <2> QED  BY <2>1, <2>2, <2>3, <2>4, <2>5, <1>3 DEF World
<1>4. CASE Terminated \/ UNCHANGED vars  BY <1>4 DEF Terminated, vars, schedulerVars
<1> QED  BY <1>1, <1>2, <1>3, <1>4 DEF Next

\* The thread leaves run() when it is stopped.
LEMMA LeavesWhenStopped ==
  ASSUME [ReactorNext]_reactorVars, thread' = "ended"
  PROVE  thread = "ended" \/ stopped_
<1>1. CASE UNCHANGED reactorVars  BY <1>1 DEF reactorVars, schedulerVars
<1>2. ASSUME NEW op \in Handlers, Dispatch(op) PROVE thread = "ended"
  BY <1>2 DEF Dispatch, Push, Woken
<1>3. CASE Enter \/ Leave \/ RunTask \/ RunHandler \/ Sleep \/ Spurious \/ Awake \/ TaskCleanup \/ Completed
  BY <1>3 DEF Enter, Leave, RunTask, RunHandler, Sleep, Spurious, Awake, TaskCleanup, Completed, WorkCleanup
<1>4. CASE InitTask \/ Stop  BY <1>4 DEF InitTask, Stop, StopAllThreads, Woken
<1>5. ASSUME NEW d, Register(d) \/ Resets(d) \/ (\E kinds : Becomes(d, kinds)) \/ \E left : Perform(d, left)
      PROVE  thread = "ended"
  BY <1>5 DEF Register, Resets, Becomes, Perform, schedulerVars
<1>6. ASSUME NEW t, NEW d, NEW kind, NEW continuation, NEW left, StartPerforms(t, d, kind, continuation, left)
      PROVE  thread = "ended"
  BY <1>6 DEF StartPerforms, PostImmediate, Push, Woken
<1>7. ASSUME NEW t, (\E d, kind, speculative : StartBlocks(t, d, kind, speculative)) \/ StartQueues(t)
      PROVE  thread = "ended"
  BY <1>7 DEF StartBlocks, StartQueues, WorkStarted, schedulerVars
<1>8. CASE Collect \/ ShutdownService  BY <1>8 DEF Collect, TaskReturns, ShutdownService
<1> QED  BY <1>1, <1>2, <1>3, <1>4, <1>5, <1>6, <1>7, <1>8 DEF ReactorNext

\* A call of RTSPLiveDestroy is never taken back.
LEMMA DestroyingStays ==
  ASSUME [Next]_vars
  PROVE  /\ host \in Destroying \cup {"destroyed"} => host' \in Destroying \cup {"destroyed"}
         /\ Destroy => host' \in Destroying
<1>1. CASE Service
  <2>1. ASSUME RegisterPeer \/ Scheduled \/ Performs \/ Starts \/ Queues \/ Returns PROVE host' = host
    BY <2>1 DEF RegisterPeer, Scheduled, Performs, Starts, Queues, Returns, Accepts, serverOnlyVars
  <2>2. ASSUME OnServiceStarted \/ OnAccept \/ AcceptThrows PROVE host' = host
    BY <2>2 DEF OnServiceStarted, OnAccept, AcceptThrows
  <2>3. ASSUME NEW c,
               \/ OnRead(c) \/ OnReadEarly(c) \/ OnReadThrows(c) \/ OnReadError(c)
               \/ OnWrite(c) \/ OnWriteError(c)
        PROVE  host' = host
    BY <2>3 DEF OnRead, OnReadEarly, OnReadThrows, OnReadError, OnWrite, OnWriteError
  <2>4. host' = host  BY <2>1, <2>2, <2>3, <1>1 DEF Service
  <2>5. Destroy => host' = "join"  BY DEF Destroy, Goto
  <2> QED  BY <2>4, <2>5 DEF Destroying
<1>2. CASE InCall
  BY <1>2 DEF InCall, Spawn, StartEnds, CreateAcceptor, OpenAcceptor, Bind, Listen, ListenQueues, BuildEnds,
     HostQueues, Join, DeleteMessager, UTEDestroy, Goto, serverOnlyVars, Destroy, Destroying
<1>3. CASE World
  <2>1. CASE Build \/ Destroy \/ WakesForNothing \/ HungUp
    BY <2>1 DEF Build, Destroy, WakesForNothing, HungUp, Goto, serverOnlyVars, Destroying
  <2>2. ASSUME NEW c, Connect(c) \/ Goes(c) \/ HostWrites(c) \/ \E kind : Arrives(c, kind) PROVE host' = host
    BY <2>2 DEF Connect, Goes, HostWrites, Arrives, serverOnlyVars
  <2>3. Destroy => host' = "join"  BY DEF Destroy, Goto
  <2> QED  BY <2>1, <2>2, <2>3, <1>3 DEF World, Destroying
<1>4. CASE Terminated \/ UNCHANGED vars
  <2>1. host' = host  BY <1>4 DEF Terminated, vars, serverOnlyVars
  <2>2. Destroy => host' = "join"  BY DEF Destroy, Goto
  <2> QED  BY <2>1, <2>2 DEF Destroying
<1> QED  BY <1>1, <1>2, <1>3, <1>4 DEF Next

\* The service is stopped by RTSPLiveDestroy alone, and its thread returns from run() only then.
Stopping ==
    /\ stopped_ => host \in Destroying \cup {"destroyed"}
    /\ thread = "ended" => stopped_

LEMMA StoppingStep == ASSUME SInv, Work, Stopping, [Next]_vars PROVE Stopping'
<1>1. stopped_' => host' \in Destroying \cup {"destroyed"}
  BY StoppedByDestroy, DestroyingStays DEF Stopping
<1>2. thread' = "ended" => stopped_'
  <2>1. thread' = "ended" => stopped_  BY NextUses, LeavesWhenStopped DEF Stopping
  <2>2. stopped_ => stopped_'
    <3>1. Destroy => stopped_'  BY DEF Destroy, Stop, StopAllThreads
    <3> QED  BY <3>1, StoppedByDestroy
  <2> QED  BY <2>1, <2>2
<1> QED  BY <1>1, <1>2 DEF Stopping

\* A thread that left run() was told to: the part of RunsUntilStopped that has to be invariant.
LEMMA ServerStopping == Spec => []Stopping
<1>1. Init => Stopping  BY DEF Init, ReactorInit, SchedulerInit, Stopping
<1>2. SInv /\ Work /\ Stopping /\ [Next]_vars => Stopping'  BY StoppingStep
<1>3. IInv => Work  BY DEF IInv
<1>4. Spec => []Work  BY <1>3, ServerUsesReactor, ReactorInvariant, PTL
<1> QED  BY <1>1, <1>2, <1>4, ServerTypes, PTL DEF Spec

\* run() does not return before RTSPLiveDestroy has stopped it, whatever its clients do and
\* though nothing may be queued: the counts of work, the scheduler's and the thread's own, never
\* miss an operation that is queued, waits in a descriptor or is being completed; and it has
\* returned before anything is deleted that its handlers use: RunsUntilStopped in the run.
THEOREM ServerRunsUntilStopped == Spec => []RunsUntilStopped
<1>1. Stopping /\ LivingObjects => RunsUntilStopped  BY DEF Stopping, RunsUntilStopped
<1> QED  BY <1>1, ServerStopping, ServerObjectsLive, PTL

-----------------------------------------------------------------------------
(* The queue as the executor sees it: without the reactor.                 *)

\* The reactor stands at i or before.
Behind(s, i) == \E j \in 1..i : s[j] = TaskOp

Without(s) ==
    [i \in 1..IF Len(s) > 0 /\ Behind(s, Len(s)) THEN Len(s) - 1 ELSE Len(s) |->
        IF Behind(s, i) THEN s[i + 1] ELSE s[i]]

\* What is in s and not in U is there once.
Once(s, U) == \A i, j \in DOMAIN s : s[i] = s[j] /\ s[i] \notin U => i = j

\* The executor's queue is the scheduler's without the reactor.
LEMMA QueuedWithout == Queued = Without(op_queue_)  BY DEF Queued, Without, Behind

\* What the queue holds without the reactor, by its length.
LEMMA WithoutIs ==
  ASSUME NEW s \in Seq(Ops)
  PROVE  /\ ~In(s, TaskOp) => Without(s) = s
         /\ In(s, TaskOp) =>
              /\ Len(s) > 0
              /\ Without(s) = [i \in 1..Len(s) - 1 |-> IF Behind(s, i) THEN s[i + 1] ELSE s[i]]
<1> DEFINE n == Len(s)
<1>1. n \in Nat /\ DOMAIN s = 1..n  BY LenProperties
<1>2. In(s, TaskOp) <=> Behind(s, n)  BY <1>1 DEF In, Behind
<1>3. ASSUME ~In(s, TaskOp) PROVE Without(s) = s
  <2>1. \A i \in 1..n : ~Behind(s, i)  BY <1>1, <1>3 DEF In, Behind
  <2>2. Without(s) = [i \in 1..n |-> IF Behind(s, i) THEN s[i + 1] ELSE s[i]]
    BY <1>2, <1>3 DEF Without
  <2>3. Without(s) = [i \in 1..n |-> s[i]]  BY <2>1, <2>2
  <2>4. s = [i \in 1..n |-> s[i]]  BY <1>1
  <2> QED  BY <2>3, <2>4
<1>4. ASSUME In(s, TaskOp) PROVE n > 0
  <2>1. PICK i \in 1..n : TRUE  BY <1>1, <1>4 DEF In
  <2> QED  BY <2>1, <1>1
<1>5. In(s, TaskOp) => Without(s) = [i \in 1..n - 1 |-> IF Behind(s, i) THEN s[i + 1] ELSE s[i]]
  BY <1>2, <1>4 DEF Without
<1> QED  BY <1>3, <1>4, <1>5

\* It holds operations.
LEMMA WithoutType ==
  ASSUME NEW s \in Seq(Ops)
  PROVE  /\ Without(s) \in Seq(Ops)
         /\ In(s, TaskOp) => Len(Without(s)) = Len(s) - 1
<1> DEFINE n == Len(s)
<1>1. n \in Nat /\ DOMAIN s = 1..n /\ \A i \in 1..n : s[i] \in Ops  BY LenProperties, ElementOfSeq
<1>2. CASE ~In(s, TaskOp)  BY <1>2, WithoutIs
<1>3. CASE In(s, TaskOp)
  <2> DEFINE w == [i \in 1..n - 1 |-> IF Behind(s, i) THEN s[i + 1] ELSE s[i]]
  <2>1. n > 0 /\ Without(s) = w  BY <1>3, WithoutIs
  <2>2. \A i \in 1..n - 1 : i \in 1..n /\ i + 1 \in 1..n  BY <1>1
  <2>3. w \in [1..n - 1 -> Ops]  BY <2>2, <1>1
  <2>4. n - 1 \in Nat  BY <2>1, <1>1
  <2>5. w \in Seq(Ops) /\ DOMAIN w = 1..n - 1  BY <2>3, <2>4, SeqDef
  <2> HIDE DEF w
  <2>6. Len(w) = n - 1
    <3>1. Len(w) \in Nat /\ 1..Len(w) = 1..n - 1  BY <2>5, LenProperties
    <3> QED  BY <3>1, <2>4
  <2> QED  BY <2>1, <2>5, <2>6
<1> QED  BY <1>2, <1>3

\* What is queued comes last.
LEMMA WithoutJoined ==
  ASSUME NEW s \in Seq(Ops), NEW t \in Seq(Ops), ~In(t, TaskOp)
  PROVE  Without(s \o t) = Without(s) \o t
<1> DEFINE c == s \o t
           n == Len(s)
           m == Len(t)
           w == Without(s)
<1>1. /\ c \in Seq(Ops) /\ n \in Nat /\ m \in Nat /\ Len(c) = n + m
      /\ \A i \in 1..n : c[i] = s[i]
      /\ \A i \in n + 1..n + m : c[i] = t[i - n]
      /\ In(c, TaskOp) <=> In(s, TaskOp)
  BY Joined, ConcatProperties, LenProperties
<1>2. CASE ~In(s, TaskOp)
  <2>1. w = s /\ Without(c) = c  BY <1>1, <1>2, WithoutIs
  <2> QED  BY <2>1
<1>3. CASE In(s, TaskOp)
  <2>1. /\ n > 0 /\ w = [i \in 1..n - 1 |-> IF Behind(s, i) THEN s[i + 1] ELSE s[i]]
        /\ w \in Seq(Ops) /\ Len(w) = n - 1
    BY <1>3, WithoutIs, WithoutType
  <2>2. /\ \A i \in 1..n + m - 1 : Without(c)[i] = IF Behind(c, i) THEN c[i + 1] ELSE c[i]
        /\ Without(c) \in Seq(Ops) /\ Len(Without(c)) = n + m - 1
    <3>1. In(c, TaskOp) /\ c \in Seq(Ops)  BY <1>1, <1>3
    <3> HIDE DEF c
    <3>2. /\ Without(c) = [i \in 1..Len(c) - 1 |-> IF Behind(c, i) THEN c[i + 1] ELSE c[i]]
          /\ Without(c) \in Seq(Ops) /\ Len(Without(c)) = Len(c) - 1
      BY <3>1, WithoutIs, WithoutType
    <3>3. n \in Nat /\ m \in Nat /\ Len(c) = n + m  BY <1>1
    <3> DEFINE k == Len(c) - 1
    <3>4. k = n + m - 1  BY <3>3
    <3>5. /\ \A i \in 1..k : Without(c)[i] = IF Behind(c, i) THEN c[i + 1] ELSE c[i]
          /\ Without(c) \in Seq(Ops) /\ Len(Without(c)) = k
      BY <3>2
    <3> HIDE DEF k
    <3> QED  BY <3>4, <3>5
  <2>3. /\ w \o t \in Seq(Ops) /\ Len(w \o t) = (n - 1) + m
        /\ \A i \in 1..n - 1 : (w \o t)[i] = w[i]
        /\ \A i \in (n - 1) + 1..(n - 1) + m : (w \o t)[i] = t[i - (n - 1)]
    BY <2>1, ConcatProperties
  <2> DEFINE x == Without(c)
             y == w \o t
  <2> HIDE DEF c, n, m, w, x, y
  <2>4. ASSUME NEW i \in 1..n - 1 PROVE x[i] = y[i]
    <3>1. i \in 1..n + m - 1 /\ i \in 1..n /\ i + 1 \in 1..n /\ \A j \in 1..i : j \in 1..n  BY <1>1
    <3>2. Behind(c, i) <=> Behind(s, i)  BY <3>1, <1>1 DEF Behind
    <3>3. x[i] = IF Behind(c, i) THEN c[i + 1] ELSE c[i]  BY <3>1, <2>2 DEF x
    <3>4. w[i] = IF Behind(s, i) THEN s[i + 1] ELSE s[i]  BY <2>1
    <3>5. c[i] = s[i] /\ c[i + 1] = s[i + 1]  BY <3>1, <1>1
    <3>6. y[i] = w[i]  BY <2>3 DEF y
    <3> QED  BY <3>2, <3>3, <3>4, <3>5, <3>6
  <2>5. ASSUME NEW i \in n..n + m - 1 PROVE x[i] = y[i]
    <3>1. /\ i \in 1..n + m - 1 /\ i + 1 \in n + 1..n + m /\ n \in 1..i
          /\ i \in (n - 1) + 1..(n - 1) + m /\ (i + 1) - n = i - (n - 1)
      BY <1>1, <2>1
    <3>2. Behind(c, i)
      <4>1. PICK j \in 1..n : s[j] = TaskOp  BY <1>3, LenProperties DEF In, n
      <4>2. j \in 1..i /\ c[j] = TaskOp  BY <4>1, <3>1, <1>1
      <4> QED  BY <4>2 DEF Behind
    <3>3. x[i] = c[i + 1]  BY <3>1, <3>2, <2>2 DEF x
    <3>4. c[i + 1] = t[(i + 1) - n]  BY <3>1, <1>1
    <3>5. y[i] = t[i - (n - 1)]  BY <3>1, <2>3 DEF y
    <3> QED  BY <3>1, <3>3, <3>4, <3>5
  <2>6. \A i \in 1..n + m - 1 : i \in 1..n - 1 \/ i \in n..n + m - 1  BY <1>1
  <2>7. x \in Seq(Ops) /\ y \in Seq(Ops) /\ Len(x) = n + m - 1 /\ Len(y) = n + m - 1
    BY <1>1, <2>1, <2>2, <2>3 DEF x, y
  <2>8. \A i \in 1..Len(x) : x[i] = y[i]  BY <2>4, <2>5, <2>6, <2>7
  <2>9. x = y  BY <2>7, <2>8, SeqEqual
  <2> QED  BY <2>9 DEF x, y, c, w
<1> QED  BY <1>2, <1>3

\* The reactor at the head: the rest.  Another operation there: it comes first.
LEMMA WithoutTaken ==
  ASSUME NEW s \in Seq(Ops), s # <<>>, Once(s, {})
  PROVE  /\ Head(s) = TaskOp => Without(s) = Tail(s)
         /\ Head(s) # TaskOp =>
              /\ Without(s) # <<>> /\ Head(Without(s)) = Head(s)
              /\ Tail(Without(s)) = Without(Tail(s))
<1> DEFINE n == Len(s)
           c == Tail(s)
           w == Without(s)
<1>1. /\ c \in Seq(Ops) /\ n \in Nat /\ n > 0 /\ Len(c) = n - 1
      /\ DOMAIN s = 1..n /\ DOMAIN c = 1..n - 1
      /\ \A i \in 1..n - 1 : c[i] = s[i + 1]
      /\ Head(s) = s[1]
  BY HeadTailProperties, LenProperties
<1>2. w \in Seq(Ops) /\ Without(c) \in Seq(Ops)  BY <1>1, WithoutType
<1>3. In(s, TaskOp) => Len(w) = n - 1 /\ w = [i \in 1..n - 1 |-> IF Behind(s, i) THEN s[i + 1] ELSE s[i]]
  BY WithoutIs, WithoutType
<1>4. ~In(s, TaskOp) => w = s  BY WithoutIs
<1>5. In(s, TaskOp) <=> Head(s) = TaskOp \/ In(c, TaskOp)  BY Taken
<1>6. ~In(c, TaskOp) => Without(c) = c  BY <1>1, WithoutIs
<1>7. In(c, TaskOp) =>
        /\ Len(Without(c)) = (n - 1) - 1
        /\ Without(c) = [i \in 1..(n - 1) - 1 |-> IF Behind(c, i) THEN c[i + 1] ELSE c[i]]
  BY <1>1, WithoutIs, WithoutType
<1> HIDE DEF c, n, w
<1>8. ASSUME Head(s) = TaskOp PROVE w = c
  <2>1. \A i \in 1..n - 1 : Behind(s, i)
    <3> SUFFICES ASSUME NEW i \in 1..n - 1 PROVE Behind(s, i)
      OBVIOUS
    <3>1. 1 \in 1..i  BY <1>1
    <3> QED  BY <3>1, <1>1, <1>8 DEF Behind
  <2>2. Len(w) = n - 1 /\ \A i \in 1..n - 1 : w[i] = s[i + 1]  BY <2>1, <1>3, <1>5, <1>8
  <2>3. \A i \in 1..n - 1 : w[i] = c[i]  BY <2>2, <1>1
  <2> QED  BY <2>2, <2>3, <1>1, <1>2, SeqEqual
<1>9. ASSUME Head(s) # TaskOp, ~In(c, TaskOp) PROVE w = s /\ Without(c) = c
  BY <1>9, <1>4, <1>5, <1>6
<1>10. ASSUME Head(s) # TaskOp, In(c, TaskOp)
       PROVE  w # <<>> /\ Head(w) = Head(s) /\ Tail(w) = Without(c)
  <2>1. n > 1
    <3>1. PICK i \in 1..n - 1 : TRUE  BY <1>1, <1>10 DEF In
    <3> QED  BY <3>1, <1>1
  <2>2. Len(w) = n - 1 /\ \A i \in 1..n - 1 : w[i] = IF Behind(s, i) THEN s[i + 1] ELSE s[i]
    BY <1>3, <1>5, <1>10
  <2>3. 1 \in 1..n - 1 /\ ~Behind(s, 1)
    <3>1. \A j \in 1..1 : j = 1  OBVIOUS
    <3> QED  BY <3>1, <2>1, <1>1, <1>10 DEF Behind
  <2>4. w # <<>> /\ Head(w) = w[1]  BY <2>1, <2>2, <1>1, <1>2, HeadTailProperties
  <2>5. w[1] = s[1]  BY <2>2, <2>3
  <2>6. /\ Tail(w) \in Seq(Ops) /\ Len(Tail(w)) = (n - 1) - 1
        /\ \A i \in 1..(n - 1) - 1 : Tail(w)[i] = w[i + 1]
    BY <2>2, <2>4, <1>2, HeadTailProperties
  <2>7. ASSUME NEW i \in 1..(n - 1) - 1 PROVE w[i + 1] = Without(c)[i]
    <3>1. i + 1 \in 1..n - 1 /\ i \in 1..n - 1 /\ (i + 1) + 1 \in 1..n /\ 1 \in 1..n  BY <1>1
    <3>2. Behind(s, i + 1) => Behind(c, i)
      <4>1. ASSUME NEW j \in 1..i + 1, s[j] = TaskOp PROVE Behind(c, i)
        <5>1. j # 1  BY <4>1, <1>1, <1>10
        <5>2. j - 1 \in 1..i /\ j - 1 \in 1..n - 1 /\ (j - 1) + 1 = j  BY <5>1, <3>1, <1>1
        <5>3. c[j - 1] = TaskOp  BY <5>2, <4>1, <1>1
        <5> QED  BY <5>2, <5>3 DEF Behind
      <4> QED  BY <4>1 DEF Behind
    <3>3. Behind(c, i) => Behind(s, i + 1)
      <4>1. ASSUME NEW j \in 1..i, c[j] = TaskOp PROVE Behind(s, i + 1)
        <5>1. j + 1 \in 1..i + 1 /\ j \in 1..n - 1  BY <3>1, <1>1
        <5>2. s[j + 1] = TaskOp  BY <5>1, <4>1, <1>1
        <5> QED  BY <5>1, <5>2 DEF Behind
      <4> QED  BY <4>1 DEF Behind
    <3>4. c[i] = s[i + 1] /\ c[i + 1] = s[(i + 1) + 1]  BY <3>1, <1>1
    <3>5. w[i + 1] = IF Behind(s, i + 1) THEN s[(i + 1) + 1] ELSE s[i + 1]  BY <2>2, <3>1
    <3>6. Without(c)[i] = IF Behind(c, i) THEN c[i + 1] ELSE c[i]  BY <1>7, <1>10
    <3> QED  BY <3>2, <3>3, <3>4, <3>5, <3>6
  <2>8. Len(Without(c)) = (n - 1) - 1  BY <1>7, <1>10
  <2>9. Tail(w) = Without(c)  BY <2>6, <2>7, <2>8, <1>2, SeqEqual
  <2> QED  BY <2>4, <2>5, <2>9, <1>1
<1> QED  BY <1>8, <1>9, <1>10 DEF c, w

\* The reactor at the end is not seen.
LEMMA WithoutLast ==
  ASSUME NEW s \in Seq(Ops), ~In(s, TaskOp)
  PROVE  Without(Append(s, TaskOp)) = s
<1> DEFINE n == Len(s)
           c == Append(s, TaskOp)
<1>1. /\ c \in Seq(Ops) /\ n \in Nat /\ Len(c) = n + 1 /\ DOMAIN s = 1..n
      /\ \A i \in 1..n : c[i] = s[i]
      /\ c[n + 1] = TaskOp
  BY Apart, AppendProperties, LenProperties
<1>2. In(c, TaskOp)  BY Appended, Apart
<1> HIDE DEF c, n
<1>3. /\ Without(c) \in Seq(Ops) /\ Len(Without(c)) = (n + 1) - 1
      /\ Without(c) = [i \in 1..(n + 1) - 1 |-> IF Behind(c, i) THEN c[i + 1] ELSE c[i]]
  BY <1>1, <1>2, WithoutIs, WithoutType
<1>4. (n + 1) - 1 = n  BY <1>1
<1>5. ASSUME NEW i \in 1..n PROVE Without(c)[i] = s[i]
  <2>1. \A j \in 1..i : j \in 1..n  BY <1>1
  <2>2. ~Behind(c, i)  BY <2>1, <1>1 DEF Behind, In
  <2> QED  BY <2>2, <1>1, <1>3, <1>4
<1>6. Len(s) = n  BY DEF n
<1> QED  BY <1>3, <1>4, <1>5, <1>6, SeqEqual DEF c

\* What it holds is what the queue holds, once.
LEMMA WithoutOnce ==
  ASSUME NEW s \in Seq(Ops), Once(s, {})
  PROVE  /\ Once(Without(s), {})
         /\ \A x : In(Without(s), x) => In(s, x) /\ x # TaskOp
<1> DEFINE n == Len(s)
           w == Without(s)
<1>1. n \in Nat /\ DOMAIN s = 1..n  BY LenProperties
<1>2. CASE ~In(s, TaskOp)
  <2>1. w = s  BY <1>2, WithoutIs
  <2> QED  BY <2>1, <1>2
<1>3. CASE In(s, TaskOp)
  <2>1. /\ n > 0 /\ w = [i \in 1..n - 1 |-> IF Behind(s, i) THEN s[i + 1] ELSE s[i]]
        /\ DOMAIN w = 1..n - 1
    BY <1>3, WithoutIs
  <2> DEFINE at(i) == IF Behind(s, i) THEN i + 1 ELSE i
  <2>2. \A i \in 1..n - 1 : at(i) \in 1..n /\ w[i] = s[at(i)]
    <3> SUFFICES ASSUME NEW i \in 1..n - 1 PROVE at(i) \in 1..n /\ w[i] = s[at(i)]
      OBVIOUS
    <3>1. i \in 1..n /\ i + 1 \in 1..n  BY <1>1
    <3> QED  BY <3>1, <2>1
  <2>3. ASSUME NEW i \in 1..n - 1 PROVE s[at(i)] # TaskOp
    <3>1. CASE ~Behind(s, i)
      <4>1. i \in 1..i  BY <1>1
      <4> QED  BY <3>1, <4>1 DEF Behind
    <3>2. CASE Behind(s, i)
      <4>1. PICK j \in 1..i : s[j] = TaskOp  BY <3>2 DEF Behind
      <4>2. j \in 1..n /\ i + 1 \in 1..n /\ j # i + 1  BY <1>1
      <4>3. s[i + 1] # TaskOp  BY <4>1, <4>2, <1>1 DEF Once
      <4> QED  BY <4>3, <3>2
    <3> QED  BY <3>1, <3>2
  <2>4. ASSUME NEW i \in 1..n - 1, NEW j \in 1..n - 1, at(i) = at(j) PROVE i = j
    <3>1. \A k \in 1..n - 1, l \in 1..n - 1 : Behind(s, k) /\ k < l => Behind(s, l)
      <4> SUFFICES ASSUME NEW k \in 1..n - 1, NEW l \in 1..n - 1, Behind(s, k), k < l PROVE Behind(s, l)
        OBVIOUS
      <4>1. PICK m \in 1..k : s[m] = TaskOp  BY DEF Behind
      <4>2. m \in 1..l  BY <1>1
      <4> QED  BY <4>1, <4>2 DEF Behind
    <3>2. i \in Int /\ j \in Int /\ (i < j \/ j < i \/ i = j)  BY <1>1
    <3>3. i < j => at(i) # at(j)  BY <3>1, <3>2
    <3>4. j < i => at(i) # at(j)  BY <3>1, <3>2
    <3> QED  BY <3>2, <3>3, <3>4, <2>4
  <2> HIDE DEF at, n, w
  <2>5. \A i, j \in DOMAIN w : w[i] = w[j] => i = j
    <3> SUFFICES ASSUME NEW i \in 1..n - 1, NEW j \in 1..n - 1, w[i] = w[j] PROVE i = j
      BY <2>1
    <3>1. at(i) = at(j)  BY <2>2, <1>1 DEF Once
    <3> QED  BY <3>1, <2>4
  <2>6. \A x : In(w, x) => In(s, x) /\ x # TaskOp  BY <2>1, <2>2, <2>3, <1>1 DEF In
  <2> QED  BY <2>5, <2>6 DEF Once, w
<1> QED  BY <1>2, <1>3

\* Two queues that have nothing of it in common.
LEMMA OnceJoined ==
  ASSUME NEW s \in Seq(Ops), NEW t \in Seq(Ops), NEW U, Once(s, U), Once(t, U),
         \A x : In(s, x) /\ In(t, x) => x \in U
  PROVE  Once(s \o t, U)
<1> DEFINE c == s \o t
           m == Len(s)
           n == Len(t)
<1>1. /\ m \in Nat /\ n \in Nat
      /\ DOMAIN s = 1..m /\ DOMAIN t = 1..n /\ DOMAIN c = 1..m + n
      /\ \A i \in 1..m : c[i] = s[i]
      /\ \A i \in m + 1..m + n : c[i] = t[i - m]
  BY ConcatProperties, LenProperties
<1>2. \A i \in 1..m + n : i \in 1..m \/ (i \in m + 1..m + n /\ i - m \in 1..n)
  BY <1>1
<1> HIDE DEF c, m, n
<1>3. ASSUME NEW i \in 1..m + n, NEW j \in 1..m + n, c[i] = c[j], c[i] \notin U PROVE i = j
  <2>1. CASE i \in 1..m /\ j \in 1..m  BY <2>1, <1>1, <1>3 DEF Once
  <2>2. ASSUME NEW k \in 1..m, NEW l \in m + 1..m + n, l - m \in 1..n, c[k] = c[l], c[k] \notin U PROVE FALSE
    BY <2>2, <1>1 DEF In
  <2>3. ASSUME i \in m + 1..m + n, j \in m + 1..m + n, i - m \in 1..n, j - m \in 1..n PROVE i = j
    <3>1. i - m = j - m  BY <2>3, <1>1, <1>3 DEF Once
    <3> QED  BY <3>1, <1>1, <2>3
  <2> QED  BY <2>1, <2>2, <2>3, <1>2, <1>3
<1> QED  BY <1>1, <1>3 DEF Once, c

\* An element that is not there can be put behind the others.
LEMMA OnceAppended ==
  ASSUME NEW s \in Seq(Ops), NEW op \in Ops, NEW U, Once(s, U), In(s, op) => op \in U
  PROVE  Once(Append(s, op), U)
<1>1. <<op>> \in Seq(Ops) /\ (\A x : In(<<op>>, x) <=> x = op) /\ Append(s, op) = s \o <<op>>
  BY Single, Appended
<1>2. Once(<<op>>, U)  BY DEF Once
<1> QED  BY <1>1, <1>2, OnceJoined

\* The first element leaves, and is not left behind.
LEMMA OnceTaken ==
  ASSUME NEW s \in Seq(Ops), s # <<>>, NEW U, Once(s, U)
  PROVE  Once(Tail(s), U) /\ (Head(s) \notin U => ~In(Tail(s), Head(s)))
<1> DEFINE c == Tail(s)
           m == Len(s)
<1>1. /\ m \in Nat /\ m > 0 /\ DOMAIN s = 1..m /\ DOMAIN c = 1..m - 1
      /\ \A i \in 1..m - 1 : c[i] = s[i + 1]
      /\ Head(s) = s[1]
  BY HeadTailProperties, LenProperties
<1>2. \A i \in 1..m - 1 : i + 1 \in 1..m /\ i + 1 # 1 /\ 1 \in 1..m  BY <1>1
<1> HIDE DEF c, m
<1>3. ASSUME NEW i \in 1..m - 1, NEW j \in 1..m - 1, c[i] = c[j], c[i] \notin U PROVE i = j
  <2>1. i + 1 = j + 1  BY <1>1, <1>2, <1>3 DEF Once
  <2> QED  BY <2>1, <1>1
<1>4. ASSUME Head(s) \notin U, NEW i \in 1..m - 1, c[i] = Head(s) PROVE FALSE
  BY <1>1, <1>2, <1>4 DEF Once
<1> QED  BY <1>1, <1>3, <1>4 DEF Once, In, c

\* What is ordered, and holds the other operations once, holds everything once.
LEMMA OnceOrdered == ASSUME NEW s, Ordered(s), Once(s, Unique) PROVE Once(s, {})
  BY DEF Ordered, Once

-----------------------------------------------------------------------------
(* One operation of a kind on a descriptor.                                *)

\* Where one can be until its handler is called: in the queues, with the descriptor, in the
\* hands of the thread, about to be queued by the host's thread, to be started by the handler.
Ready(d, kind)  == In(op_queue_, Op(d, kind))
Fresh(d, kind)  == In(private_op_queue, Op(d, kind))
Parked(d, kind) == kind \in op_queue[d]
Due(d, kind)    == completing = Op(d, kind) /\ ~called
AtHost(d, kind) == starting["host"] # Nobody /\ starting["host"].d = d /\ starting["host"].kind = kind
ToDo(d, kind)   == \E i \in DOMAIN todo : todo[i].d = d /\ todo[i].kind = kind

Pending(d, kind) ==
    \/ Ready(d, kind) \/ Fresh(d, kind) \/ Parked(d, kind)
    \/ Due(d, kind) \/ AtHost(d, kind) \/ ToDo(d, kind)

\* It is in one place only,
Alone(d, kind) ==
    /\ Ready(d, kind) =>
         ~Fresh(d, kind) /\ ~Parked(d, kind) /\ ~Due(d, kind) /\ ~AtHost(d, kind) /\ ~ToDo(d, kind)
    /\ Fresh(d, kind) => ~Parked(d, kind) /\ ~Due(d, kind) /\ ~AtHost(d, kind) /\ ~ToDo(d, kind)
    /\ Parked(d, kind) => ~Due(d, kind) /\ ~AtHost(d, kind) /\ ~ToDo(d, kind)
    /\ Due(d, kind) => ~AtHost(d, kind) /\ ~ToDo(d, kind)
    /\ AtHost(d, kind) => ~ToDo(d, kind)
Lone == \A d \in Descriptors, kind \in Kinds : Alone(d, kind)

\* and there once.  A handler without a descriptor is dispatched once, by start().
Sole ==
    /\ Once(op_queue_, Unique) /\ Once(private_op_queue, Unique)
    /\ \A i, j \in DOMAIN todo : todo[i].d = todo[j].d /\ todo[i].kind = todo[j].kind => i = j
    /\ \A h \in Handlers : ~In(private_op_queue, h) /\ (In(op_queue_, h) => host # "none")

\* What the thread and its handler hold when, and whose operation is being queued.
Turn ==
    /\ thread # "complete" => completing = NoOp
    /\ completing \in Descriptors \cup {NoOp} => ~called
    /\ ~called => todo = <<>>
    /\ private_op_queue # <<>> => thread = "collected" \/ called
    /\ starting["service"] # Nobody =>
         todo # <<>> /\ starting["service"].d = Head(todo).d /\ starting["service"].kind = Head(todo).kind
    /\ starting["host"] # Nobody =>
         \/ host = "queue" /\ starting["host"].d = Acceptor /\ starting["host"].kind = "read"
         \/ host = "live" /\ starting["host"].d \in Connections /\ starting["host"].kind = "write"

\* A connection is read for the messager that holds it, and written while its request is
\* active; accepting begins when the host lets it.
Early == {"none", "dispatched", "spawned", "create", "bind", "listen", "threw"}
Allowed ==
    /\ host \notin {"shut", "destroyed"} => \A c \in Connections : Pending(c, "read") => c \in m_clients
    /\ \A c \in Connections : Pending(c, "write") => c \in active
    /\ host \in Early => ~Pending(Acceptor, "read")
    /\ ~Pending(Acceptor, "write")
    /\ backlog \cap m_clients = {}
    /\ peer # Nobody => peer \notin m_clients \cup backlog

OneEach == Lone /\ Sole /\ Turn /\ Allowed
-----------------------------------------------------------------------------
\* Operations of different kinds, or on different descriptors, are different.
LEMMA OpSame ==
  /\ \A d, e \in Descriptors, k, l \in Kinds : Op(d, k) = Op(e, l) => d = e /\ k = l
  /\ \A d \in Descriptors, k \in Kinds :
       /\ Op(d, k) \notin Unique /\ Op(d, k) \notin Handlers /\ Op(d, k) # NoOp /\ Op(d, k) # TaskOp
       /\ Op(d, k) \in Ops
<1>1. \A d, e \in Descriptors, k, l \in Kinds : Op(d, k) = Op(e, l) => d = e /\ k = l  BY DEF Op
<1>2. ASSUME NEW d \in Descriptors, NEW k \in Kinds
      PROVE  /\ Op(d, k) \notin Unique /\ Op(d, k) \notin Handlers /\ Op(d, k) # NoOp /\ Op(d, k) # TaskOp
             /\ Op(d, k) \in Ops
  <2>1. Op(d, k) \in Descriptors \X {"read", "write"}  BY DEF Op, Kinds
  <2> QED  BY <2>1, ReactorAssumption DEF Unique, Ops, DescriptorOps, Kinds
<1> QED  BY <1>1, <1>2

\* What is in a queue is an operation.
LEMMA InOps == ASSUME NEW s \in Seq(Ops), NEW x, In(s, x) PROVE x \in Ops
  BY ElementOfSeq, LenProperties DEF In

\* What is in both queues is no operation of these.
LEMMA QueuesApart ==
  ASSUME Types, Lone, Sole
  PROVE  \A x : In(op_queue_, x) /\ In(private_op_queue, x) => x \in Unique
<1> SUFFICES ASSUME NEW x, In(op_queue_, x), In(private_op_queue, x), x \notin Unique PROVE FALSE
  OBVIOUS
<1>1. x \in DescriptorOps \cup Handlers  BY InOps DEF Types, Ops, Unique
<1>2. x \notin Handlers  BY DEF Sole
<1>3. PICK d \in Descriptors, k \in Kinds : x = Op(d, k)  BY <1>1, <1>2 DEF DescriptorOps, Op
<1> QED  BY <1>3 DEF Lone, Alone, Ready, Fresh

\* Places whose variables do not change.
LEMMA Unmoved ==
  /\ op_queue_' = op_queue_ => \A d, k : Ready(d, k)' <=> Ready(d, k)
  /\ private_op_queue' = private_op_queue => \A d, k : Fresh(d, k)' <=> Fresh(d, k)
  /\ op_queue' = op_queue => \A d, k : Parked(d, k)' <=> Parked(d, k)
  /\ completing' = completing /\ called' = called => \A d, k : Due(d, k)' <=> Due(d, k)
  /\ starting' = starting => \A d, k : AtHost(d, k)' <=> AtHost(d, k)
  /\ todo' = todo => \A d, k : ToDo(d, k)' <=> ToDo(d, k)
  BY DEF Ready, Fresh, Parked, Due, AtHost, ToDo, In

placeVars == <<op_queue_, private_op_queue, op_queue, completing, called, starting, todo>>

\* A step that moves no operation.
LEMMA NothingMoves ==
  ASSUME UNCHANGED placeVars
  PROVE  /\ Lone => Lone'
         /\ Sole /\ (host' = "none" => host = "none") => Sole'
         /\ Turn /\ (thread' = thread \/ {thread, thread'} \cap {"complete", "collected"} = {})
            /\ (host' = host \/ starting["host"] = Nobody) => Turn'
         /\ \A d, k : Pending(d, k)' <=> Pending(d, k)
<1> USE DEF placeVars
<1>1. \A d, k : /\ Ready(d, k)' <=> Ready(d, k)
                /\ Fresh(d, k)' <=> Fresh(d, k)
                /\ Parked(d, k)' <=> Parked(d, k)
                /\ Due(d, k)' <=> Due(d, k)
                /\ AtHost(d, k)' <=> AtHost(d, k)
                /\ ToDo(d, k)' <=> ToDo(d, k)
  BY Unmoved
<1>2. Lone => Lone'  BY <1>1 DEF Lone, Alone
<1>3. Sole /\ (host' = "none" => host = "none") => Sole'  BY DEF Sole, Once, In
<1>4. Turn /\ (thread' = thread \/ {thread, thread'} \cap {"complete", "collected"} = {})
            /\ (host' = host \/ starting["host"] = Nobody) => Turn'
  BY DEF Turn
<1>5. \A d, k : Pending(d, k)' <=> Pending(d, k)  BY <1>1 DEF Pending
<1> QED  BY <1>2, <1>3, <1>4, <1>5

\* What is allowed remains so when nothing begins to be pending.
LEMMA AllowedKept ==
  ASSUME Allowed, UNCHANGED <<host, m_clients, active, backlog, peer>>,
         \A d \in Descriptors, k \in Kinds : Pending(d, k)' => Pending(d, k)
  PROVE  Allowed'
<1>1. \A c \in Connections : c \in Descriptors  BY ServerAssumption
<1>2. Acceptor \in Descriptors /\ "read" \in Kinds /\ "write" \in Kinds  BY ServerAssumption DEF Kinds
<1> QED  BY <1>1, <1>2 DEF Allowed

\* Operations that leave places and enter none.
LEMMA LoneKept ==
  ASSUME Lone,
         \A d \in Descriptors, k \in Kinds :
           /\ Ready(d, k)' => Ready(d, k)
           /\ Fresh(d, k)' => Fresh(d, k)
           /\ Parked(d, k)' => Parked(d, k)
           /\ Due(d, k)' => Due(d, k)
           /\ AtHost(d, k)' => AtHost(d, k)
           /\ ToDo(d, k)' => ToDo(d, k)
  PROVE  Lone' /\ \A d \in Descriptors, k \in Kinds : Pending(d, k)' => Pending(d, k)
  BY DEF Lone, Alone, Pending

\* The scheduler's own steps.
LEMMA OneRunTask ==
  ASSUME SInv, OneEach, RunTask, UNCHANGED reactorOnlyVars, UNCHANGED serverOnlyVars
  PROVE  OneEach'
<1>1. /\ op_queue_ \in Seq(Ops) /\ op_queue_ # <<>> /\ op_queue_' = Tail(op_queue_)
      /\ thread = "loop" /\ thread' \in {"poll", "block"}
      /\ UNCHANGED <<private_op_queue, completing>>
  BY DEF RunTask, SInv, Types
<1>2. UNCHANGED <<op_queue, starting>>  BY DEF reactorOnlyVars
<1>3. UNCHANGED <<called, todo>>  BY DEF serverOnlyVars
<1>4. UNCHANGED <<host, m_clients, active, backlog, peer>>  BY DEF serverOnlyVars
<1>5. \A x : In(op_queue_', x) => In(op_queue_, x)  BY <1>1, Taken
<1>6. \A d \in Descriptors, k \in Kinds :
        /\ Ready(d, k)' => Ready(d, k)
        /\ Fresh(d, k)' => Fresh(d, k)
        /\ Parked(d, k)' => Parked(d, k)
        /\ Due(d, k)' => Due(d, k)
        /\ AtHost(d, k)' => AtHost(d, k)
        /\ ToDo(d, k)' => ToDo(d, k)
  <2>1. \A d, k : Ready(d, k)' => Ready(d, k)  BY <1>5 DEF Ready
  <2> QED  BY <2>1, <1>1, <1>2, <1>3, Unmoved
<1>7. Lone' /\ \A d \in Descriptors, k \in Kinds : Pending(d, k)' => Pending(d, k)
  BY <1>6, LoneKept DEF OneEach
<1>8. Allowed'  BY <1>4, <1>7, AllowedKept DEF OneEach
<1>9. Sole'
  <2>1. Once(op_queue_', Unique)  BY <1>1, OnceTaken DEF OneEach, Sole
  <2> QED  BY <2>1, <1>1, <1>3, <1>4, <1>5 DEF OneEach, Sole
<1>10. Turn'  BY <1>1, <1>2, <1>3, <1>4 DEF OneEach, Turn
<1> QED  BY <1>7, <1>8, <1>9, <1>10 DEF OneEach

\* The first operation leaves the queue for the thread's hands.
LEMMA OneRunHandler ==
  ASSUME SInv, OneEach, RunHandler, UNCHANGED reactorOnlyVars, UNCHANGED serverOnlyVars
  PROVE  OneEach'
<1>1. /\ op_queue_ \in Seq(Ops) /\ op_queue_ # <<>> /\ op_queue_' = Tail(op_queue_)
      /\ thread = "loop" /\ thread' = "complete" /\ completing' = Head(op_queue_)
      /\ UNCHANGED private_op_queue
  BY DEF RunHandler, SInv, Types
<1>2. UNCHANGED <<op_queue, starting>>  BY DEF reactorOnlyVars
<1>3. UNCHANGED <<called, todo>>  BY DEF serverOnlyVars
<1>4. UNCHANGED <<host, m_clients, active, backlog, peer>>  BY DEF serverOnlyVars
<1>5. \A x : In(op_queue_, x) <=> x = Head(op_queue_) \/ In(op_queue_', x)  BY <1>1, Taken
<1>6. /\ Once(op_queue_', Unique)
      /\ Head(op_queue_) \notin Unique => ~In(op_queue_', Head(op_queue_))
  BY <1>1, OnceTaken DEF OneEach, Sole
<1>7. completing = NoOp /\ ~called  BY <1>1 DEF OneEach, Turn
<1>8. ASSUME NEW d \in Descriptors, NEW k \in Kinds
      PROVE  /\ Alone(d, k)'
             /\ Pending(d, k)' => Pending(d, k)
  <2>1. /\ Fresh(d, k)' <=> Fresh(d, k)
        /\ Parked(d, k)' <=> Parked(d, k)
        /\ AtHost(d, k)' <=> AtHost(d, k)
        /\ ToDo(d, k)' <=> ToDo(d, k)
    BY <1>1, <1>2, <1>3, Unmoved
  <2>2. Due(d, k)' <=> Head(op_queue_) = Op(d, k)  BY <1>1, <1>3, <1>7 DEF Due
  <2>3. Ready(d, k) <=> Due(d, k)' \/ Ready(d, k)'  BY <2>2, <1>5 DEF Ready
  <2>4. Due(d, k)' => ~Ready(d, k)'  BY <2>2, <1>6, OpSame DEF Ready
  <2>5. Alone(d, k)  BY DEF OneEach, Lone
  <2> QED  BY <2>1, <2>3, <2>4, <2>5 DEF Alone, Pending
<1>9. Allowed'  BY <1>4, <1>8, AllowedKept DEF OneEach
<1>10. Sole'  BY <1>1, <1>3, <1>4, <1>5, <1>6 DEF OneEach, Sole
<1>11. Turn'
  <2>1. starting' = starting /\ todo' = todo /\ host' = host /\ called' = called  BY <1>2, <1>3, <1>4
  <2> QED  BY <2>1, <1>1, <1>7 DEF OneEach, Turn
<1> QED  BY <1>8, <1>9, <1>10, <1>11 DEF OneEach, Lone

\* What the thread has kept for itself goes behind the queue.
LEMMA JoinQueues ==
  ASSUME SInv, Lone, Sole, op_queue_' = op_queue_ \o private_op_queue, private_op_queue' = <<>>,
         UNCHANGED <<op_queue, starting, todo>>, host' = host,
         \A d \in Descriptors, k \in Kinds : Due(d, k)' => Due(d, k)
  PROVE  Lone' /\ Sole' /\ \A d \in Descriptors, k \in Kinds : Pending(d, k)' => Pending(d, k)
<1>1. op_queue_ \in Seq(Ops) /\ private_op_queue \in Seq(Ops)  BY PrivateSeq DEF SInv, Types
<1>2. \A x : In(op_queue_', x) <=> In(op_queue_, x) \/ In(private_op_queue, x)  BY <1>1, Joined
<1>3. \A x : ~In(private_op_queue', x)  BY DEF In
<1>4. ASSUME NEW d \in Descriptors, NEW k \in Kinds
      PROVE  /\ Alone(d, k)'
             /\ Pending(d, k)' => Pending(d, k)
  <2>1. /\ Parked(d, k)' <=> Parked(d, k)
        /\ AtHost(d, k)' <=> AtHost(d, k)
        /\ ToDo(d, k)' <=> ToDo(d, k)
    BY Unmoved
  <2>2. Ready(d, k)' <=> Ready(d, k) \/ Fresh(d, k)  BY <1>2 DEF Ready, Fresh
  <2>3. ~Fresh(d, k)'  BY <1>3 DEF Fresh
  <2>4. Alone(d, k)  BY DEF Lone
  <2> QED  BY <2>1, <2>2, <2>3, <2>4 DEF Alone, Pending
<1>5. Sole'
  <2>1. \A x : In(op_queue_, x) /\ In(private_op_queue, x) => x \in Unique  BY QueuesApart DEF SInv
  <2>2. Once(op_queue_', Unique)  BY <1>1, <2>1, OnceJoined DEF Sole
  <2>3. Once(private_op_queue', Unique)  BY DEF Once
  <2> QED  BY <2>2, <2>3, <1>2, <1>3 DEF Sole
<1> QED  BY <1>4, <1>5 DEF Lone

\* What the thread collected joins the queue, and the reactor with it.
LEMMA OneTaskCleanup ==
  ASSUME SInv, Order, OneEach, TaskCleanup, UNCHANGED reactorOnlyVars, UNCHANGED serverOnlyVars
  PROVE  OneEach'
<1>1. /\ op_queue_' = Append(op_queue_ \o private_op_queue, TaskOp) /\ private_op_queue' = <<>>
      /\ thread = "collected" /\ thread' = "loop" /\ completing' = completing
  BY DEF TaskCleanup
<1>2. UNCHANGED <<op_queue, starting>>  BY DEF reactorOnlyVars
<1>3. UNCHANGED <<called, todo>>  BY DEF serverOnlyVars
<1>4. UNCHANGED <<host, m_clients, active, backlog, peer>>  BY DEF serverOnlyVars
<1> DEFINE c == op_queue_ \o private_op_queue
<1>5. op_queue_ \in Seq(Ops) /\ private_op_queue \in Seq(Ops)  BY PrivateSeq DEF SInv, Types
<1>6. c \in Seq(Ops) /\ \A x : In(c, x) <=> In(op_queue_, x) \/ In(private_op_queue, x)  BY <1>5, Joined
<1>7. Once(c, Unique)
  <2>1. \A x : In(op_queue_, x) /\ In(private_op_queue, x) => x \in Unique  BY QueuesApart DEF SInv, OneEach
  <2> QED  BY <1>5, <2>1, OnceJoined DEF OneEach, Sole
<1>8. Once(op_queue_', Unique) /\ \A x : In(op_queue_', x) <=> In(c, x) \/ x = TaskOp
  <2> HIDE DEF c
  <2>1. TaskOp \in Ops /\ TaskOp \in Unique  BY Apart DEF Unique
  <2>2. op_queue_' = Append(c, TaskOp)  BY <1>1 DEF c
  <2> QED  BY <2>1, <2>2, <1>6, <1>7, Appended, OnceAppended
<1>9. \A x : ~In(private_op_queue', x)  BY <1>1 DEF In
<1> HIDE DEF c
<1>10. ASSUME NEW d \in Descriptors, NEW k \in Kinds
       PROVE  /\ Alone(d, k)'
              /\ Pending(d, k)' => Pending(d, k)
  <2>1. /\ Parked(d, k)' <=> Parked(d, k)
        /\ Due(d, k)' <=> Due(d, k)
        /\ AtHost(d, k)' <=> AtHost(d, k)
        /\ ToDo(d, k)' <=> ToDo(d, k)
    BY <1>1, <1>2, <1>3, Unmoved
  <2>2. Ready(d, k)' <=> Ready(d, k) \/ Fresh(d, k)  BY <1>6, <1>8, OpSame DEF Ready, Fresh
  <2>3. ~Fresh(d, k)'  BY <1>9 DEF Fresh
  <2>4. Alone(d, k)  BY DEF OneEach, Lone
  <2> QED  BY <2>1, <2>2, <2>3, <2>4 DEF Alone, Pending
<1>11. Sole'
  <2>1. Once(private_op_queue', Unique)  BY <1>1 DEF Once
  <2>2. \A h \in Handlers : h # TaskOp  BY ReactorAssumption
  <2> QED  BY <2>1, <2>2, <1>3, <1>4, <1>6, <1>8, <1>9 DEF OneEach, Sole
<1>12. Allowed'  BY <1>4, <1>10, AllowedKept DEF OneEach
<1>13. Turn'  BY <1>1, <1>2, <1>3, <1>4 DEF OneEach, Turn
<1> QED  BY <1>10, <1>11, <1>12, <1>13 DEF OneEach, Lone

\* The descriptors that are ready are collected in the thread's own queue.
LEMMA OneCollect ==
  ASSUME SInv, OneEach, Collect, UNCHANGED serverOnlyVars
  PROVE  OneEach' /\ private_op_queue = <<>>
<1> DEFINE found == {d \in edges : Events(d) # {}}
<1>1. PICK order \in [1..Cardinality(found) -> found] : TaskReturns(order)
  BY DEF Collect
<1>2. /\ private_op_queue' = order /\ thread \in {"poll", "block"} /\ thread' = "collected"
      /\ UNCHANGED <<op_queue_, completing>>
  BY <1>1 DEF TaskReturns
<1>3. UNCHANGED <<op_queue, starting>>  BY DEF Collect
<1>4. UNCHANGED <<called, todo>>  BY DEF serverOnlyVars
<1>5. UNCHANGED <<host, m_clients, active, backlog, peer>>  BY DEF serverOnlyVars
<1>6. \A i \in DOMAIN order : order[i] \in Descriptors  BY Reports DEF SInv, Types
<1>7. ~called /\ private_op_queue = <<>>  BY <1>2 DEF OneEach, Turn
<1>8. \A x : In(private_op_queue', x) => x \in Descriptors  BY <1>2, <1>6 DEF In
<1>9. \A d \in Descriptors, k \in Kinds :
        /\ Ready(d, k)' => Ready(d, k)
        /\ Fresh(d, k)' => Fresh(d, k)
        /\ Parked(d, k)' => Parked(d, k)
        /\ Due(d, k)' => Due(d, k)
        /\ AtHost(d, k)' => AtHost(d, k)
        /\ ToDo(d, k)' => ToDo(d, k)
  <2>1. \A d \in Descriptors, k \in Kinds : Op(d, k) \notin Descriptors  BY OpSame DEF Unique
  <2>2. \A d \in Descriptors, k \in Kinds : ~Fresh(d, k)'  BY <2>1, <1>8 DEF Fresh
  <2> QED  BY <2>2, <1>2, <1>3, <1>4, Unmoved
<1>10. Lone' /\ \A d \in Descriptors, k \in Kinds : Pending(d, k)' => Pending(d, k)
  BY <1>9, LoneKept DEF OneEach
<1>11. Allowed'  BY <1>5, <1>10, AllowedKept DEF OneEach
<1>12. Sole'
  <2>1. Once(private_op_queue', Unique)  BY <1>2, <1>6 DEF Once, Unique
  <2>2. \A h \in Handlers : h \notin Descriptors  BY ReactorAssumption
  <2> QED  BY <2>1, <2>2, <1>2, <1>4, <1>5, <1>8 DEF OneEach, Sole
<1>13. Turn'  BY <1>2, <1>3, <1>4, <1>5, <1>7 DEF OneEach, Turn
<1> QED  BY <1>7, <1>10, <1>11, <1>12, <1>13 DEF OneEach

\* perform_io: what is performed leaves the descriptor for the thread's hands or the queue.
LEMMA OnePerform ==
  ASSUME SInv, OneEach, NEW e \in Descriptors, NEW left, Perform(e, left), UNCHANGED <<called, todo, host>>
  PROVE  Lone' /\ Sole' /\ Turn' /\ \A d \in Descriptors, k \in Kinds : Pending(d, k)' => Pending(d, k)
<1> DEFINE done == op_queue[e] \cap task_result_[e] \cap can[e]
           first == IF "write" \in done THEN "write" ELSE "read"
<1>1. /\ thread = "complete" /\ completing = e /\ thread' = thread
      /\ op_queue' = [op_queue EXCEPT ![e] = @ \ done]
      /\ completing' = IF done = {} THEN NoOp ELSE Op(e, first)
      /\ done = Kinds => op_queue_' = Append(op_queue_, Op(e, "read"))
      /\ done # Kinds => op_queue_' = op_queue_
      /\ UNCHANGED <<private_op_queue, starting>>
  BY DEF Perform
<1>2. op_queue_ \in Seq(Ops) /\ op_queue \in [Descriptors -> SUBSET Kinds]  BY DEF SInv, Types
<1>3. done \in SUBSET op_queue[e] /\ done \in SUBSET Kinds /\ first \in Kinds /\ "read" \in Kinds
  BY <1>2 DEF Kinds
<1>4. (done # {} => first \in done) /\ (done = Kinds => first = "write")  BY <1>3 DEF Kinds
<1> HIDE DEF done, first
<1>5. ~called /\ todo = <<>> /\ private_op_queue = <<>>  BY <1>1 DEF OneEach, Turn
<1>6. Op(e, "read") \in Ops /\ Op(e, "read") \notin Unique  BY <1>3, OpSame
<1>7. \A x : In(op_queue_', x) <=> In(op_queue_, x) \/ (done = Kinds /\ x = Op(e, "read"))
  <2>1. CASE done = Kinds
    <3>1. \A x : In(Append(op_queue_, Op(e, "read")), x) <=> In(op_queue_, x) \/ x = Op(e, "read")
      BY <1>2, <1>6, Appended
    <3> QED  BY <3>1, <2>1, <1>1
  <2>2. CASE done # Kinds  BY <2>2, <1>1
  <2> QED  BY <2>1, <2>2
<1>8. ASSUME NEW d \in Descriptors, NEW k \in Kinds
      PROVE  /\ Alone(d, k)'
             /\ Pending(d, k)' => Pending(d, k)
  <2>1. /\ Fresh(d, k)' <=> Fresh(d, k)
        /\ AtHost(d, k)' <=> AtHost(d, k)
        /\ ToDo(d, k)' <=> ToDo(d, k)
    BY <1>1, Unmoved
  <2>2. Parked(d, k)' <=> Parked(d, k) /\ ~(d = e /\ k \in done)  BY <1>1, <1>2 DEF Parked
  <2>3. Ready(d, k)' <=> Ready(d, k) \/ (done = Kinds /\ d = e /\ k = "read")
    BY <1>3, <1>7, OpSame DEF Ready
  <2>4. Due(d, k)' <=> done # {} /\ d = e /\ k = first
    <3>1. NoOp # Op(d, k) /\ (Op(e, first) = Op(d, k) <=> d = e /\ k = first)  BY <1>3, OpSame
    <3> QED  BY <3>1, <1>1, <1>5 DEF Due
  <2>5. d = e /\ k \in done => Parked(d, k)  BY <1>3 DEF Parked
  <2>6. (done = Kinds /\ k = "read" => k \in done /\ k # first) /\ (done # {} /\ k = first => k \in done)
    BY <1>3, <1>4
  <2>7. ~Due(d, k)
    <3>1. completing # Op(d, k)  BY <1>1, OpSame DEF Unique
    <3> QED  BY <3>1 DEF Due
  <2>8. Alone(d, k)  BY DEF OneEach, Lone
  <2> QED  BY <2>1, <2>2, <2>3, <2>4, <2>5, <2>6, <2>7, <2>8 DEF Alone, Pending
<1>9. Sole'
  <2>1. Once(op_queue_', Unique)
    <3>1. CASE done # Kinds  BY <3>1, <1>1 DEF OneEach, Sole
    <3>2. CASE done = Kinds
      <4>1. Parked(e, "read")  BY <3>2, <1>3 DEF Parked
      <4>2. ~In(op_queue_, Op(e, "read"))  BY <4>1, <1>3 DEF OneEach, Lone, Alone, Ready
      <4> QED  BY <4>2, <3>2, <1>1, <1>2, <1>6, OnceAppended DEF OneEach, Sole
    <3> QED  BY <3>1, <3>2
  <2>2. \A h \in Handlers : h # Op(e, "read")  BY <1>3, OpSame
  <2> QED  BY <2>1, <2>2, <1>1, <1>7 DEF OneEach, Sole
<1>10. Turn'  BY <1>1, <1>5 DEF OneEach, Turn
<1> QED  BY <1>8, <1>9, <1>10 DEF Lone

\* An accept takes a connection that is nobody's.
LEMMA AllowedAccepts ==
  ASSUME Allowed, NEW c, Accepts(c), \A d \in Descriptors, k \in Kinds : Pending(d, k)' => Pending(d, k)
  PROVE  Allowed'
<1>1. \A d \in Connections : d \in Descriptors  BY ServerAssumption
<1>2. Acceptor \in Descriptors /\ "read" \in Kinds /\ "write" \in Kinds  BY ServerAssumption DEF Kinds
<1> QED  BY <1>1, <1>2 DEF Allowed, Accepts

\* The thread's turn at a descriptor.
LEMMA OnePerforms == ASSUME SInv, OneEach, Performs PROVE OneEach'
<1>1. Acceptor \in Descriptors /\ Connections \subseteq Descriptors  BY ServerAssumption
<1>2. ASSUME NEW d \in Descriptors, NEW left, Perform(d, left), UNCHANGED serverOnlyVars PROVE OneEach'
  <2>1. UNCHANGED <<called, todo, host>>  BY <1>2 DEF serverOnlyVars
  <2>2. UNCHANGED <<host, m_clients, active, backlog, peer>>  BY <1>2 DEF serverOnlyVars
  <2>3. Lone' /\ Sole' /\ Turn' /\ \A f \in Descriptors, k \in Kinds : Pending(f, k)' => Pending(f, k)
    BY <1>2, <2>1, OnePerform
  <2> QED  BY <2>2, <2>3, AllowedKept DEF OneEach
<1>3. ASSUME NEW left, NEW c, Perform(Acceptor, left), Accepts(c), UNCHANGED todo PROVE OneEach'
  <2>1. UNCHANGED <<called, todo, host>>  BY <1>3 DEF Accepts
  <2>2. Lone' /\ Sole' /\ Turn' /\ \A f \in Descriptors, k \in Kinds : Pending(f, k)' => Pending(f, k)
    BY <1>1, <1>3, <2>1, OnePerform
  <2> QED  BY <1>3, <2>2, AllowedAccepts DEF OneEach
<1> QED  BY <1>1, <1>2, <1>3 DEF Performs
-----------------------------------------------------------------------------
\* The handlers.  The operation is over; those the handler is to start are pending nowhere else.
LEMMA OneCall ==
  ASSUME SInv, OneEach, NEW op, Calls(op), op \notin Descriptors \cup {NoOp}, host' = host,
         \A i, j \in DOMAIN todo' : todo'[i].d = todo'[j].d /\ todo'[i].kind = todo'[j].kind => i = j,
         \A d \in Descriptors, k \in Kinds : ToDo(d, k)' => ~Pending(d, k) \/ op = Op(d, k)
  PROVE  /\ Lone' /\ Sole' /\ Turn'
         /\ \A d \in Descriptors, k \in Kinds :
              Pending(d, k)' <=> (Pending(d, k) /\ op # Op(d, k)) \/ ToDo(d, k)'
<1>1. /\ thread = "complete" /\ completing = op /\ ~called /\ called'
      /\ UNCHANGED <<schedulerVars, reactorOnlyVars>>
  BY DEF Calls
<1>2. UNCHANGED <<op_queue_, private_op_queue, completing, thread>>  BY <1>1 DEF schedulerVars
<1>3. UNCHANGED <<op_queue, starting>>  BY <1>1 DEF reactorOnlyVars
<1>4. todo = <<>> /\ starting["service"] = Nobody  BY <1>1 DEF OneEach, Turn
<1>5. ASSUME NEW d \in Descriptors, NEW k \in Kinds
      PROVE  /\ Alone(d, k)'
             /\ Pending(d, k)' <=> (Pending(d, k) /\ op # Op(d, k)) \/ ToDo(d, k)'
  <2>1. /\ Ready(d, k)' <=> Ready(d, k)
        /\ Fresh(d, k)' <=> Fresh(d, k)
        /\ Parked(d, k)' <=> Parked(d, k)
        /\ AtHost(d, k)' <=> AtHost(d, k)
    BY <1>2, <1>3, Unmoved
  <2>2. ~Due(d, k)' /\ (Due(d, k) <=> op = Op(d, k))  BY <1>1 DEF Due
  <2>3. ~ToDo(d, k)  BY <1>4 DEF ToDo
  <2>4. Alone(d, k)  BY DEF OneEach, Lone
  <2>5. ToDo(d, k)' => ~Pending(d, k) \/ op = Op(d, k)  OBVIOUS
  <2> QED  BY <2>1, <2>2, <2>3, <2>4, <2>5 DEF Alone, Pending
<1>6. Sole'  BY <1>2 DEF OneEach, Sole
<1>7. Turn'  BY <1>1, <1>2, <1>3, <1>4 DEF OneEach, Turn
<1> QED  BY <1>5, <1>6, <1>7 DEF Lone

\* There may be nothing to start.
LEMMA ToDoNone ==
  ASSUME todo' = <<>>
  PROVE  /\ \A i, j \in DOMAIN todo' : todo'[i].d = todo'[j].d /\ todo'[i].kind = todo'[j].kind => i = j
         /\ \A d, k : ~ToDo(d, k)'
  BY DEF ToDo

\* A handler that starts nothing.
LEMMA OneQuietCall ==
  ASSUME SInv, OneEach, NEW op, Calls(op), op \notin Descriptors \cup {NoOp},
         UNCHANGED <<host, m_clients, active, backlog, peer, todo>>
  PROVE  OneEach'
<1>1. todo = <<>>  BY DEF OneEach, Turn, Calls
<1>2. todo' = <<>>  BY <1>1
<1>3. /\ \A i, j \in DOMAIN todo' : todo'[i].d = todo'[j].d /\ todo'[i].kind = todo'[j].kind => i = j
      /\ \A d, k : ~ToDo(d, k)'
  BY <1>2, ToDoNone
<1>4. /\ Lone' /\ Sole' /\ Turn'
      /\ \A d \in Descriptors, k \in Kinds :
           Pending(d, k)' <=> (Pending(d, k) /\ op # Op(d, k)) \/ ToDo(d, k)'
  BY <1>3, OneCall
<1> QED  BY <1>3, <1>4, AllowedKept DEF OneEach

\* A handler is called: the operations it starts are not pending.
LEMMA OneHandler ==
  ASSUME SInv, LivingObjects, OneEach,
         OnServiceStarted \/ OnAccept \/ AcceptThrows
           \/ \E c \in Connections :
                \/ OnRead(c) \/ OnReadEarly(c) \/ OnReadThrows(c) \/ OnReadError(c)
                \/ OnWrite(c) \/ OnWriteError(c)
  PROVE  OneEach'
<1>1. /\ Acceptor \in Descriptors /\ Connections \subseteq Descriptors /\ Acceptor \notin Connections
      /\ "read" \in Kinds /\ "write" \in Kinds /\ "read" # "write"
  BY ServerAssumption DEF Kinds
<1>2. \A d \in Descriptors, k \in Kinds : Op(d, k) \notin Descriptors \cup {NoOp}  BY OpSame DEF Unique
<1>3. CASE OnServiceStarted
  <2>1. Started \notin Descriptors \cup {NoOp}  BY ServerAssumption, ReactorAssumption
  <2> QED  BY <2>1, <1>3, OneQuietCall DEF OnServiceStarted
<1>4. CASE AcceptThrows  BY <1>4, <1>1, <1>2, OneQuietCall DEF AcceptThrows
<1>5. ASSUME NEW c \in Connections, OnReadEarly(c) \/ OnReadThrows(c) \/ OnReadError(c) \/ OnWriteError(c)
      PROVE  OneEach'
  BY <1>5, <1>1, <1>2, OneQuietCall DEF OnReadEarly, OnReadThrows, OnReadError, OnWriteError
<1>6. CASE OnAccept
  <2>1. /\ Calls(Op(Acceptor, "read")) /\ peer # Nobody /\ thread = "complete"
        /\ m_clients' = m_clients \cup {peer} /\ peer' = Nobody
        /\ UNCHANGED <<host, backlog, active>>
    BY <1>6 DEF OnAccept, Calls
  <2>2. PICK shared \in BOOLEAN : todo' = <<ToStart(peer, "read", shared), ToStart(Acceptor, "read", TRUE)>>
    BY <1>6 DEF OnAccept
  <2>3. peer \in Connections /\ peer \notin m_clients \cup backlog /\ peer # Acceptor
    BY <2>1, <1>1 DEF SInv, STypes, OneEach, Allowed
  <2>4. host \notin {"shut", "destroyed"}  BY <2>1 DEF LivingObjects
  <2>5. ~Pending(peer, "read")  BY <2>3, <2>4 DEF OneEach, Allowed
  <2>6. /\ \A i, j \in DOMAIN todo' : todo'[i].d = todo'[j].d /\ todo'[i].kind = todo'[j].kind => i = j
        /\ \A d, k : ToDo(d, k)' <=> (d = peer /\ k = "read") \/ (d = Acceptor /\ k = "read")
    <3>1. /\ DOMAIN todo' = {1, 2} /\ todo'[1].d = peer /\ todo'[1].kind = "read"
          /\ todo'[2].d = Acceptor /\ todo'[2].kind = "read"
      BY <2>2 DEF ToStart
    <3> QED  BY <2>3, <3>1 DEF ToDo
  <2>7. /\ Lone' /\ Sole' /\ Turn'
        /\ \A d \in Descriptors, k \in Kinds :
             Pending(d, k)' => Pending(d, k) \/ (d = peer /\ k = "read") \/ (d = Acceptor /\ k = "read")
    BY <2>1, <2>5, <2>6, <1>1, <1>2, OneCall
  <2>8. Pending(Acceptor, "read")
    BY <2>1 DEF Calls, Pending, Due
  <2>9. Allowed'
    <3>1. \A d \in Connections : Pending(d, "read")' => d \in m_clients'
      BY <2>1, <2>4, <2>7, <1>1 DEF OneEach, Allowed
    <3>2. \A d \in Connections : Pending(d, "write")' => d \in active'
      BY <2>1, <2>7, <1>1 DEF OneEach, Allowed
    <3>3. host' \notin Early  BY <2>1, <2>8 DEF OneEach, Allowed
    <3>4. ~Pending(Acceptor, "write")'  BY <2>7, <1>1 DEF OneEach, Allowed
    <3>5. backlog' \cap m_clients' = {} /\ peer' = Nobody  BY <2>1, <2>3 DEF OneEach, Allowed
    <3> QED  BY <3>1, <3>2, <3>3, <3>4, <3>5 DEF Allowed
  <2> QED  BY <2>7, <2>9 DEF OneEach
<1>7. ASSUME NEW c \in Connections, OnRead(c) PROVE OneEach'
  <2>1. /\ Calls(Op(c, "read")) /\ UNCHANGED <<host, m_clients, backlog, peer>>
        /\ \/ c \notin active /\ active' = active \cup {c}
              /\ todo' = <<ToStart(c, "write", TRUE), ToStart(c, "read", TRUE)>>
           \/ active' = active /\ todo' = <<ToStart(c, "read", TRUE)>>
    BY <1>7 DEF OnRead
  <2>2. c \notin active => ~Pending(c, "write")  BY DEF OneEach, Allowed
  <2>3. Pending(c, "read")  BY <2>1 DEF Calls, Pending, Due
  <2>4. /\ \A i, j \in DOMAIN todo' : todo'[i].d = todo'[j].d /\ todo'[i].kind = todo'[j].kind => i = j
        /\ \A d, k : ToDo(d, k)' => (d = c /\ k = "read") \/ (d = c /\ k = "write" /\ c \notin active /\ c \in active')
    <3>1. CASE active' = active /\ todo' = <<ToStart(c, "read", TRUE)>>
      <4>1. DOMAIN todo' = {1} /\ todo'[1].d = c /\ todo'[1].kind = "read"  BY <3>1 DEF ToStart
      <4> QED  BY <4>1 DEF ToDo
    <3>2. CASE /\ c \notin active /\ active' = active \cup {c}
               /\ todo' = <<ToStart(c, "write", TRUE), ToStart(c, "read", TRUE)>>
      <4>1. /\ DOMAIN todo' = {1, 2} /\ todo'[1].d = c /\ todo'[1].kind = "write"
            /\ todo'[2].d = c /\ todo'[2].kind = "read"
        BY <3>2 DEF ToStart
      <4> QED  BY <4>1, <3>2 DEF ToDo
    <3> QED  BY <3>1, <3>2, <2>1
  <2>5. /\ Lone' /\ Sole' /\ Turn'
        /\ \A d \in Descriptors, k \in Kinds : Pending(d, k)' => Pending(d, k) \/ (d = c /\ k = "write" /\ c \in active')
    BY <2>1, <2>2, <2>3, <2>4, <1>1, <1>2, OneCall
  <2>6. active \subseteq active'  BY <2>1
  <2>7. c # Acceptor  BY <1>1
  <2>8. Allowed'  BY <2>1, <2>5, <2>6, <2>7, <1>1 DEF OneEach, Allowed
  <2> QED  BY <2>5, <2>8 DEF OneEach
<1>8. ASSUME NEW c \in Connections, OnWrite(c) PROVE OneEach'
  <2>1. Calls(Op(c, "write")) /\ UNCHANGED <<host, m_clients, backlog, peer>>  BY <1>8 DEF OnWrite
  <2>2. todo = <<>> /\ Pending(c, "write")  BY <2>1 DEF Calls, Pending, Due, OneEach, Turn
  <2>3. \/ active' = active \ {c} /\ todo' = <<>>
        \/ active' = active /\ todo' = <<ToStart(c, "write", TRUE)>>
    BY <1>8, <2>2 DEF OnWrite
  <2>4. /\ \A i, j \in DOMAIN todo' : todo'[i].d = todo'[j].d /\ todo'[i].kind = todo'[j].kind => i = j
        /\ \A d, k : ToDo(d, k)' => d = c /\ k = "write" /\ active' = active
    <3>1. CASE todo' = <<>>  BY <3>1, ToDoNone
    <3>2. CASE active' = active /\ todo' = <<ToStart(c, "write", TRUE)>>
      <4>1. DOMAIN todo' = {1} /\ todo'[1].d = c /\ todo'[1].kind = "write"  BY <3>2 DEF ToStart
      <4> QED  BY <4>1, <3>2 DEF ToDo
    <3> QED  BY <3>1, <3>2, <2>3
  <2>5. /\ Lone' /\ Sole' /\ Turn'
        /\ \A d \in Descriptors, k \in Kinds :
             Pending(d, k)' <=> (Pending(d, k) /\ Op(c, "write") # Op(d, k)) \/ ToDo(d, k)'
    BY <2>1, <2>4, <1>1, <1>2, OneCall
  <2>6. \A d \in Descriptors, k \in Kinds : Pending(d, k)' => Pending(d, k)  BY <2>2, <2>4, <2>5
  <2>7. Pending(c, "write")' => active' = active  BY <2>4, <2>5, <1>1
  <2>8. \A d \in Connections : Pending(d, "write")' => d \in active'
    <3>1. \A d \in Connections : d # c => (d \in active => d \in active')  BY <2>3
    <3>2. \A d \in Connections : Pending(d, "write")' => d \in active  BY <2>6, <1>1 DEF OneEach, Allowed
    <3> QED  BY <3>1, <3>2, <2>7
  <2>9. Allowed'  BY <2>1, <2>6, <2>8, <1>1 DEF OneEach, Allowed
  <2> QED  BY <2>5, <2>9 DEF OneEach
<1> QED  BY <1>3, <1>4, <1>5, <1>6, <1>7, <1>8

\* start_op, when the attempt succeeds: the operation goes into one of the queues.
LEMMA OnePosts ==
  ASSUME SInv, Sole, NEW t \in Threads, NEW e \in Descriptors, NEW l \in Kinds, NEW continuation, NEW left,
         StartPerforms(t, e, l, continuation, left), ~Ready(e, l), ~Fresh(e, l)
  PROVE  /\ \/ \A d \in Descriptors, k \in Kinds :
                 /\ Ready(d, k)' <=> Ready(d, k) \/ (d = e /\ k = l)
                 /\ Fresh(d, k)' <=> Fresh(d, k)
            \/ \A d \in Descriptors, k \in Kinds :
                 /\ Ready(d, k)' <=> Ready(d, k)
                 /\ Fresh(d, k)' <=> Fresh(d, k) \/ (d = e /\ k = l)
         /\ Once(op_queue_', Unique) /\ Once(private_op_queue', Unique)
         /\ \A h \in Handlers :
              (In(op_queue_', h) => In(op_queue_, h)) /\ (In(private_op_queue', h) => In(private_op_queue, h))
         /\ UNCHANGED <<op_queue, completing, starting>>
         /\ thread' = thread \/ {thread, thread'} \cap {"complete", "collected"} = {}
         /\ private_op_queue' = private_op_queue \/ t = "service"
<1> DEFINE op == Op(e, l)
<1>1. op \in Ops /\ op \notin Handlers /\ op \notin Unique  BY OpSame
<1>2. \A d \in Descriptors, k \in Kinds : Op(d, k) = op <=> d = e /\ k = l  BY OpSame
<1>3. op_queue_ \in Seq(Ops) /\ private_op_queue \in Seq(Ops)  BY PrivateSeq DEF SInv, Types
<1>4. ~In(op_queue_, op) /\ ~In(private_op_queue, op)  BY DEF Ready, Fresh
<1>5. UNCHANGED <<op_queue, starting>> /\ PostImmediate(op, continuation, t = "service")
  BY DEF StartPerforms
<1> HIDE DEF op
<1>6. CASE continuation /\ t = "service"
  <2>1. private_op_queue' = Append(private_op_queue, op) /\ UNCHANGED <<op_queue_, completing, thread>>
    BY <1>5, <1>6 DEF PostImmediate
  <2>2. \A x : In(private_op_queue', x) <=> In(private_op_queue, x) \/ x = op  BY <2>1, <1>1, <1>3, Appended
  <2>3. Once(private_op_queue', Unique)  BY <2>1, <1>1, <1>3, <1>4, OnceAppended DEF Sole
  <2>4. \A d \in Descriptors, k \in Kinds :
          /\ Ready(d, k)' <=> Ready(d, k)
          /\ Fresh(d, k)' <=> Fresh(d, k) \/ (d = e /\ k = l)
    BY <2>1, <2>2, <1>2 DEF Ready, Fresh
  <2>5. \A h \in Handlers : h # op  BY <1>1
  <2>6. Once(op_queue_', Unique)  BY <2>1 DEF Sole
  <2> QED  BY <2>1, <2>2, <2>3, <2>4, <2>5, <2>6, <1>5, <1>6
<1>7. CASE ~(continuation /\ t = "service")
  <2>1. /\ op_queue_' = op_queue_ \o <<op>> /\ UNCHANGED <<private_op_queue, completing>>
        /\ thread' = Woken
    BY <1>5, <1>7 DEF PostImmediate, Push
  <2>2. op_queue_' = Append(op_queue_, op)  BY <2>1, <1>1, <1>3, Appended
  <2>3. \A x : In(op_queue_', x) <=> In(op_queue_, x) \/ x = op  BY <2>2, <1>1, <1>3, Appended
  <2>4. Once(op_queue_', Unique)  BY <2>2, <1>1, <1>3, <1>4, OnceAppended DEF Sole
  <2>5. \A d \in Descriptors, k \in Kinds :
          /\ Ready(d, k)' <=> Ready(d, k) \/ (d = e /\ k = l)
          /\ Fresh(d, k)' <=> Fresh(d, k)
    BY <2>1, <2>3, <1>2 DEF Ready, Fresh
  <2>6. \A h \in Handlers : h # op  BY <1>1
  <2>7. Once(private_op_queue', Unique)  BY <2>1 DEF Sole
  <2>8. thread' = thread \/ {thread, thread'} \cap {"complete", "collected"} = {}  BY <2>1 DEF Woken
  <2> QED  BY <2>1, <2>3, <2>4, <2>5, <2>6, <2>7, <2>8, <1>5
<1> QED  BY <1>6, <1>7

\* The rest of start_op: the operation whose mutex the thread holds goes to the descriptor.
LEMMA OneParks ==
  ASSUME SInv, NEW t \in Threads, StartQueues(t), NEW e, NEW l, starting[t].d = e, starting[t].kind = l
  PROVE  /\ \A d \in Descriptors, k \in Kinds : Parked(d, k)' <=> Parked(d, k) \/ (d = e /\ k = l)
         /\ starting[t] # Nobody /\ starting' = [starting EXCEPT ![t] = Nobody]
         /\ e \in Descriptors /\ l \in Kinds
         /\ UNCHANGED <<op_queue_, private_op_queue, completing, thread>>
<1>1. /\ starting[t] # Nobody /\ starting' = [starting EXCEPT ![t] = Nobody]
      /\ op_queue' = [op_queue EXCEPT ![e] = @ \cup {l}]
      /\ UNCHANGED <<op_queue_, private_op_queue, completing, thread>>
  BY DEF StartQueues, WorkStarted
<1>2. e \in Descriptors /\ l \in Kinds /\ op_queue \in [Descriptors -> SUBSET Kinds]
  BY <1>1 DEF SInv, Types, Starting
<1> QED  BY <1>1, <1>2 DEF Parked

\* The handler has started its next operation.
LEMMA ToDoTaken ==
  ASSUME SInv, Sole, todo # <<>>
  PROVE  /\ Head(todo).d \in Descriptors /\ Head(todo).kind \in Kinds
         /\ ToDo(Head(todo).d, Head(todo).kind)
         /\ todo' = Tail(todo) =>
              /\ \A i, j \in DOMAIN todo' : todo'[i].d = todo'[j].d /\ todo'[i].kind = todo'[j].kind => i = j
              /\ \A d, k : ToDo(d, k)' <=> ToDo(d, k) /\ ~(d = Head(todo).d /\ k = Head(todo).kind)
<1> DEFINE T == [d : Descriptors, kind : Kinds, continuation : BOOLEAN]
           n == Len(todo)
<1>1. todo \in Seq(T)  BY DEF SInv, STypes
<1> HIDE DEF T
<1>2. /\ n \in Nat /\ n > 0 /\ DOMAIN todo = 1..n /\ DOMAIN Tail(todo) = 1..n - 1
      /\ \A i \in 1..n - 1 : Tail(todo)[i] = todo[i + 1]
      /\ Head(todo) = todo[1] /\ Head(todo) \in T
  BY <1>1, HeadTailProperties, LenProperties
<1>3. 1 \in 1..n /\ \A i \in 1..n - 1 : i + 1 \in 1..n /\ i + 1 # 1  BY <1>2
<1>4. \A i \in 1..n : i = 1 \/ (i - 1 \in 1..n - 1 /\ (i - 1) + 1 = i)  BY <1>2
<1>8. Head(todo).d \in Descriptors /\ Head(todo).kind \in Kinds  BY <1>2 DEF T
<1> HIDE DEF n
<1>5. ToDo(Head(todo).d, Head(todo).kind)  BY <1>2, <1>3 DEF ToDo
<1>6. ASSUME todo' = Tail(todo), NEW i \in 1..n - 1, NEW j \in 1..n - 1,
             todo'[i].d = todo'[j].d, todo'[i].kind = todo'[j].kind
      PROVE  i = j
  <2>1. i + 1 = j + 1  BY <1>2, <1>3, <1>6 DEF Sole
  <2> QED  BY <2>1, <1>2
<1>7. ASSUME todo' = Tail(todo), NEW d, NEW k
      PROVE  ToDo(d, k)' <=> ToDo(d, k) /\ ~(d = Head(todo).d /\ k = Head(todo).kind)
  <2>1. ASSUME NEW i \in 1..n - 1, todo'[i].d = d, todo'[i].kind = k
        PROVE  ToDo(d, k) /\ ~(d = Head(todo).d /\ k = Head(todo).kind)
    <3>1. i + 1 \in 1..n /\ i + 1 # 1 /\ todo[i + 1].d = d /\ todo[i + 1].kind = k
      BY <2>1, <1>2, <1>3, <1>7
    <3>2. ~(d = todo[1].d /\ k = todo[1].kind)  BY <3>1, <1>2, <1>3 DEF Sole
    <3> QED  BY <3>1, <3>2, <1>2 DEF ToDo
  <2>2. ASSUME NEW i \in 1..n, todo[i].d = d, todo[i].kind = k, ~(d = Head(todo).d /\ k = Head(todo).kind)
        PROVE  ToDo(d, k)'
    <3>1. i # 1  BY <2>2, <1>2
    <3>2. i - 1 \in 1..n - 1 /\ todo'[i - 1] = todo[i]  BY <3>1, <1>2, <1>4, <1>7
    <3> QED  BY <3>2, <2>2, <1>2, <1>7 DEF ToDo
  <2> QED  BY <2>1, <2>2, <1>2, <1>7 DEF ToDo
<1> QED  BY <1>2, <1>5, <1>6, <1>7, <1>8

\* A handler starts an operation and the attempt succeeds.
LEMMA OneStartsPerforms ==
  ASSUME SInv, OneEach, todo # <<>>, starting["service"] = Nobody, todo' = Tail(todo),
         NEW e \in Descriptors, NEW l \in Kinds, e = Head(todo).d, l = Head(todo).kind,
         NEW continuation, NEW left, StartPerforms("service", e, l, continuation, left),
         UNCHANGED <<host, called>>
  PROVE  Lone' /\ Sole' /\ Turn' /\ \A d \in Descriptors, k \in Kinds : Pending(d, k)' => Pending(d, k)
<1>1. ToDo(e, l) /\ called  BY ToDoTaken DEF OneEach, Turn
<1>2. ~Ready(e, l) /\ ~Fresh(e, l)  BY <1>1 DEF OneEach, Lone, Alone
<1>3. /\ \/ \A d \in Descriptors, k \in Kinds :
              /\ Ready(d, k)' <=> Ready(d, k) \/ (d = e /\ k = l)
              /\ Fresh(d, k)' <=> Fresh(d, k)
         \/ \A d \in Descriptors, k \in Kinds :
              /\ Ready(d, k)' <=> Ready(d, k)
              /\ Fresh(d, k)' <=> Fresh(d, k) \/ (d = e /\ k = l)
      /\ Once(op_queue_', Unique) /\ Once(private_op_queue', Unique)
      /\ \A h \in Handlers :
           (In(op_queue_', h) => In(op_queue_, h)) /\ (In(private_op_queue', h) => In(private_op_queue, h))
      /\ UNCHANGED <<op_queue, completing, starting>>
      /\ thread' = thread \/ {thread, thread'} \cap {"complete", "collected"} = {}
  <2>1. "service" \in Threads  BY DEF Threads
  <2> QED  BY <2>1, <1>2, OnePosts DEF OneEach
<1>4. /\ \A i, j \in DOMAIN todo' : todo'[i].d = todo'[j].d /\ todo'[i].kind = todo'[j].kind => i = j
      /\ \A d, k : ToDo(d, k)' <=> ToDo(d, k) /\ ~(d = e /\ k = l)
  BY ToDoTaken DEF OneEach
<1>5. ASSUME NEW d \in Descriptors, NEW k \in Kinds
      PROVE  /\ Alone(d, k)'
             /\ Pending(d, k)' => Pending(d, k)
  <2>1. /\ Parked(d, k)' <=> Parked(d, k)
        /\ Due(d, k)' <=> Due(d, k)
        /\ AtHost(d, k)' <=> AtHost(d, k)
    BY <1>3, Unmoved
  <2>2. \/ (Ready(d, k)' <=> Ready(d, k) \/ (d = e /\ k = l)) /\ (Fresh(d, k)' <=> Fresh(d, k))
        \/ (Ready(d, k)' <=> Ready(d, k)) /\ (Fresh(d, k)' <=> Fresh(d, k) \/ (d = e /\ k = l))
    BY <1>3
  <2>3. ToDo(d, k)' <=> ToDo(d, k) /\ ~(d = e /\ k = l)  BY <1>4
  <2>4. Alone(d, k) /\ (d = e /\ k = l => ToDo(d, k))  BY <1>1 DEF OneEach, Lone
  <2> QED  BY <2>1, <2>2, <2>3, <2>4 DEF Alone, Pending
<1>6. Sole'  BY <1>3, <1>4 DEF OneEach, Sole
<1>7. Turn'
  <2>1. called' /\ completing \notin Descriptors \cup {NoOp}  BY <1>1 DEF OneEach, Turn
  <2>2. thread' # "complete" => thread # "complete"  BY <1>3
  <2>3. completing' = completing /\ starting' = starting /\ host' = host  BY <1>3
  <2> QED  BY <2>1, <2>2, <2>3 DEF OneEach, Turn
<1> QED  BY <1>5, <1>6, <1>7 DEF Lone

\* A handler starts an operation.
LEMMA OneStarts == ASSUME SInv, OneEach, Starts PROVE OneEach'
<1>1. todo # <<>> /\ starting["service"] = Nobody  BY DEF Starts
<1>2. PICK e \in Descriptors, l \in Kinds : e = Head(todo).d /\ l = Head(todo).kind
  BY <1>1, ToDoTaken DEF OneEach
<1>3. ToDo(e, l)  BY <1>1, <1>2, ToDoTaken DEF OneEach
<1>4. CASE StartBlocks("service", e, l, TRUE) /\ UNCHANGED serverOnlyVars
  <2>1. /\ starting' = [starting EXCEPT !["service"] = [d |-> e, kind |-> l, speculative |-> TRUE]]
        /\ starting \in [Threads -> {Nobody} \cup Starting]
        /\ UNCHANGED <<schedulerVars, op_queue>>
    BY <1>4 DEF StartBlocks, SInv, Types
  <2>2. UNCHANGED <<op_queue_, private_op_queue, completing, thread>>  BY <2>1 DEF schedulerVars
  <2>3. UNCHANGED <<host, m_clients, active, backlog, peer, called, todo>>  BY <1>4 DEF serverOnlyVars
  <2>4. starting'["host"] = starting["host"]  BY <2>1 DEF Threads
  <2>5. starting'["service"].d = e /\ starting'["service"].kind = l  BY <2>1 DEF Threads
  <2>6. \A d \in Descriptors, k \in Kinds :
          /\ Ready(d, k)' => Ready(d, k)
          /\ Fresh(d, k)' => Fresh(d, k)
          /\ Parked(d, k)' => Parked(d, k)
          /\ Due(d, k)' => Due(d, k)
          /\ AtHost(d, k)' => AtHost(d, k)
          /\ ToDo(d, k)' => ToDo(d, k)
    <3>1. \A d, k : AtHost(d, k)' => AtHost(d, k)  BY <2>4 DEF AtHost
    <3> QED  BY <3>1, <2>1, <2>2, <2>3, Unmoved
  <2>7. Lone' /\ \A d \in Descriptors, k \in Kinds : Pending(d, k)' => Pending(d, k)
    BY <2>6, LoneKept DEF OneEach
  <2>8. Allowed'  BY <2>3, <2>7, AllowedKept DEF OneEach
  <2>9. Sole'  BY <2>2, <2>3 DEF OneEach, Sole
  <2>10. Turn'  BY <2>2, <2>3, <2>4, <2>5, <1>1, <1>2 DEF OneEach, Turn
  <2> QED  BY <2>7, <2>8, <2>9, <2>10 DEF OneEach
<1>5. ASSUME todo' = Tail(todo), NEW continuation, NEW left, StartPerforms("service", e, l, continuation, left),
             UNCHANGED <<host, m_clients, backlog, peer, active, called>>
      PROVE  OneEach'
  <2>1. UNCHANGED <<host, called>>  BY <1>5
  <2>2. Lone' /\ Sole' /\ Turn' /\ \A d \in Descriptors, k \in Kinds : Pending(d, k)' => Pending(d, k)
    BY <1>1, <1>2, <1>5, <2>1, OneStartsPerforms
  <2> QED  BY <2>2, <1>5, AllowedKept DEF OneEach
<1>6. ASSUME e = Acceptor, todo' = Tail(todo), NEW left, NEW c,
             StartPerforms("service", Acceptor, "read", TRUE, left), Accepts(c)
      PROVE  OneEach'
  <2>1. l = "read"
    <3>1. ~ToDo(Acceptor, "write")  BY DEF OneEach, Allowed, Pending
    <3> QED  BY <3>1, <1>3, <1>6 DEF Kinds
  <2>2. UNCHANGED <<host, called>>  BY <1>6 DEF Accepts
  <2>3. Lone' /\ Sole' /\ Turn' /\ \A d \in Descriptors, k \in Kinds : Pending(d, k)' => Pending(d, k)
    BY <1>1, <1>2, <1>6, <2>1, <2>2, OneStartsPerforms
  <2> QED  BY <2>3, <1>6, AllowedAccepts DEF OneEach
<1> QED  BY <1>2, <1>4, <1>5, <1>6 DEF Starts

\* A handler queues the operation whose attempt failed.
LEMMA OneQueues == ASSUME SInv, OneEach, Queues PROVE OneEach'
<1>1. /\ StartQueues("service") /\ todo' = Tail(todo) /\ "service" \in Threads
      /\ UNCHANGED <<host, m_clients, active, backlog, peer, called>>
  BY DEF Queues, Threads
<1>2. starting["service"] # Nobody  BY <1>1 DEF StartQueues
<1>3. /\ todo # <<>> /\ called
      /\ starting["service"].d = Head(todo).d /\ starting["service"].kind = Head(todo).kind
  BY <1>2 DEF OneEach, Turn
<1>4. PICK e \in Descriptors, l \in Kinds : e = Head(todo).d /\ l = Head(todo).kind
  BY <1>3, ToDoTaken DEF OneEach
<1>5. ToDo(e, l)  BY <1>3, <1>4, ToDoTaken DEF OneEach
<1>6. /\ \A i, j \in DOMAIN todo' : todo'[i].d = todo'[j].d /\ todo'[i].kind = todo'[j].kind => i = j
      /\ \A d, k : ToDo(d, k)' <=> ToDo(d, k) /\ ~(d = e /\ k = l)
  BY <1>1, <1>3, <1>4, ToDoTaken DEF OneEach
<1>7. /\ \A d \in Descriptors, k \in Kinds : Parked(d, k)' <=> Parked(d, k) \/ (d = e /\ k = l)
      /\ starting' = [starting EXCEPT !["service"] = Nobody]
      /\ UNCHANGED <<op_queue_, private_op_queue, completing, thread>>
  BY <1>1, <1>3, <1>4, OneParks
<1>8. starting'["host"] = starting["host"] /\ starting'["service"] = Nobody
  BY <1>7 DEF SInv, Types, Threads
<1>9. ASSUME NEW d \in Descriptors, NEW k \in Kinds
      PROVE  /\ Alone(d, k)'
             /\ Pending(d, k)' => Pending(d, k)
  <2>1. /\ Ready(d, k)' <=> Ready(d, k)
        /\ Fresh(d, k)' <=> Fresh(d, k)
        /\ Due(d, k)' <=> Due(d, k)
    BY <1>1, <1>7, Unmoved
  <2>2. AtHost(d, k)' <=> AtHost(d, k)  BY <1>8 DEF AtHost
  <2>3. Parked(d, k)' <=> Parked(d, k) \/ (d = e /\ k = l)  BY <1>7
  <2>4. ToDo(d, k)' <=> ToDo(d, k) /\ ~(d = e /\ k = l)  BY <1>6
  <2>5. Alone(d, k) /\ (d = e /\ k = l => ToDo(d, k))  BY <1>5 DEF OneEach, Lone
  <2> QED  BY <2>1, <2>2, <2>3, <2>4, <2>5 DEF Alone, Pending
<1>10. Allowed'  BY <1>1, <1>9, AllowedKept DEF OneEach
<1>11. Sole'  BY <1>1, <1>6, <1>7 DEF OneEach, Sole
<1>12. Turn'  BY <1>1, <1>3, <1>7, <1>8 DEF OneEach, Turn
<1> QED  BY <1>9, <1>10, <1>11, <1>12 DEF OneEach, Lone

\* A handler has returned.
LEMMA OneReturns == ASSUME SInv, OneEach, Returns PROVE OneEach'
<1>1. /\ op_queue_' = op_queue_ \o private_op_queue /\ private_op_queue' = <<>>
      /\ completing' = NoOp /\ thread' = "loop" /\ called' = FALSE /\ todo = <<>> /\ todo' = todo
  BY DEF Returns, Completed, WorkCleanup
<1>2. UNCHANGED <<op_queue, starting>>  BY DEF Returns, reactorOnlyVars
<1>3. UNCHANGED <<host, m_clients, active, backlog, peer>>  BY DEF Returns
<1>4. \A d \in Descriptors, k \in Kinds : Due(d, k)' => Due(d, k)
  <2>1. \A d \in Descriptors, k \in Kinds : Op(d, k) # NoOp  BY OpSame
  <2> QED  BY <2>1, <1>1 DEF Due
<1>5. Lone' /\ Sole' /\ \A d \in Descriptors, k \in Kinds : Pending(d, k)' => Pending(d, k)
  BY <1>1, <1>2, <1>3, <1>4, JoinQueues DEF OneEach
<1>6. Allowed'  BY <1>3, <1>5, AllowedKept DEF OneEach
<1>7. Turn'  BY <1>1, <1>2, <1>3 DEF OneEach, Turn
<1> QED  BY <1>5, <1>6, <1>7 DEF OneEach

\* The turn stays when nothing moves.
LEMMA TurnKept ==
  ASSUME Turn, UNCHANGED <<private_op_queue, completing, called, starting, todo>>,
         thread' = thread \/ {thread, thread'} \cap {"complete", "collected"} = {},
         host' = host \/ starting["host"] = Nobody
  PROVE  Turn'
  BY DEF Turn

\* A step that moves no operation, and changes of the rest what may change.
LEMMA OneFrame ==
  ASSUME OneEach, UNCHANGED placeVars, UNCHANGED active,
         thread' = thread \/ {thread, thread'} \cap {"complete", "collected"} = {},
         host' = host \/ (host' # "none" /\ starting["host"] = Nobody),
         host' \in Early => host \in Early,
         host' \notin {"shut", "destroyed"} => host \notin {"shut", "destroyed"} /\ m_clients \subseteq m_clients',
         backlog' \cap m_clients' = {}, peer' # Nobody => peer' \notin m_clients' \cup backlog'
  PROVE  OneEach'
<1>1. Lone' /\ Sole' /\ Turn'  BY NothingMoves DEF OneEach
<1>2. \A d, k : Pending(d, k)' <=> Pending(d, k)  BY NothingMoves
<1>3. Allowed'  BY <1>2 DEF OneEach, Allowed
<1> QED  BY <1>1, <1>3 DEF OneEach

\* Nothing of the server's but where the thread is.
LEMMA OneStill ==
  ASSUME OneEach, UNCHANGED <<op_queue_, private_op_queue, completing>>, UNCHANGED <<op_queue, starting>>,
         UNCHANGED serverOnlyVars,
         thread' = thread \/ {thread, thread'} \cap {"complete", "collected"} = {}
  PROVE  OneEach'
<1>1. UNCHANGED placeVars  BY DEF placeVars, serverOnlyVars
<1>2. UNCHANGED <<host, m_clients, active, backlog, peer>>  BY DEF serverOnlyVars
<1>3. backlog \cap m_clients = {} /\ (peer # Nobody => peer \notin m_clients \cup backlog)
  BY DEF OneEach, Allowed
<1>4. backlog' \cap m_clients' = {} /\ (peer' # Nobody => peer' \notin m_clients' \cup backlog')
  BY <1>2, <1>3
<1> QED  BY <1>1, <1>2, <1>4, OneFrame

\* The scheduler, with no handler.
LEMMA OneScheduled ==
  ASSUME SInv, Order, OneEach, Scheduled \/ WakesForNothing
  PROVE  OneEach'
<1>1. UNCHANGED serverOnlyVars  BY DEF Scheduled, WakesForNothing
<1>2. CASE (Enter \/ Leave \/ Sleep \/ Awake \/ Spurious) /\ UNCHANGED reactorOnlyVars
  <2>1. /\ UNCHANGED <<op_queue_, private_op_queue, completing>>
        /\ {thread, thread'} \cap {"complete", "collected"} = {}
    BY <1>2 DEF Enter, Leave, Sleep, Awake, Spurious
  <2>2. UNCHANGED <<op_queue, starting>>  BY <1>2 DEF reactorOnlyVars
  <2> QED  BY <2>1, <2>2, <1>1, OneStill
<1>3. CASE RunTask /\ UNCHANGED reactorOnlyVars  BY <1>1, <1>3, OneRunTask
<1>4. CASE RunHandler /\ UNCHANGED reactorOnlyVars  BY <1>1, <1>4, OneRunHandler
<1>5. CASE TaskCleanup /\ UNCHANGED reactorOnlyVars  BY <1>1, <1>5, OneTaskCleanup
<1>6. CASE Collect  BY <1>1, <1>6, OneCollect
<1> QED  BY <1>2, <1>3, <1>4, <1>5, <1>6 DEF Scheduled, WakesForNothing

\* Every step of the service's thread.
LEMMA OneService == ASSUME SInv, Order, LivingObjects, OneEach, Service PROVE OneEach'
<1>1. CASE RegisterPeer
  <2>1. /\ UNCHANGED <<schedulerVars, op_queue, starting>> /\ UNCHANGED serverOnlyVars
    BY <1>1 DEF RegisterPeer, Register
  <2>2. UNCHANGED <<op_queue_, private_op_queue, completing>> /\ thread' = thread  BY <2>1 DEF schedulerVars
  <2> QED  BY <2>1, <2>2, OneStill
<1> QED  BY <1>1, OneScheduled, OnePerforms, OneStarts, OneQueues, OneReturns, OneHandler DEF Service
-----------------------------------------------------------------------------
\* The host's steps that move no operation.
LEMMA OneHostMoves ==
  ASSUME OneEach, Spawn \/ StartEnds \/ OpenAcceptor \/ Bind \/ BuildEnds \/ Join \/ DeleteMessager \/ Destroy
  PROVE  OneEach'
<1>1. UNCHANGED <<op_queue_, private_op_queue, completing>> /\ (thread' = thread \/ thread' = Woken)
  <2>1. CASE Destroy  BY <2>1 DEF Destroy, Stop, StopAllThreads
  <2>2. ASSUME Spawn \/ StartEnds \/ OpenAcceptor \/ Bind \/ BuildEnds \/ Join \/ DeleteMessager
        PROVE  UNCHANGED schedulerVars
    BY <2>2 DEF Spawn, StartEnds, OpenAcceptor, Register, Bind, Resets, BuildEnds, Join, DeleteMessager
  <2> QED  BY <2>1, <2>2 DEF schedulerVars
<1>2. thread' = thread \/ {thread, thread'} \cap {"complete", "collected"} = {}  BY <1>1 DEF Woken
<1>3. UNCHANGED <<op_queue, starting>>
  BY DEF Spawn, StartEnds, OpenAcceptor, Register, Bind, Resets, BuildEnds, Join, DeleteMessager, Destroy,
         reactorOnlyVars
<1>4. UNCHANGED <<called, todo, active, backlog, peer>>
  BY DEF Spawn, StartEnds, OpenAcceptor, Bind, BuildEnds, Join, DeleteMessager, Destroy, Goto, serverOnlyVars
<1>5. UNCHANGED placeVars  BY <1>1, <1>3, <1>4 DEF placeVars
<1>6. /\ host' = host \/ host' # "none"
      /\ host' = host \/ host \notin {"queue", "live"} \/ starting["host"] = Nobody
      /\ host' \in Early => host \in Early
      /\ host' \notin {"shut", "destroyed"} => host \notin {"shut", "destroyed"}
      /\ m_clients' = m_clients \/ (m_clients' = {} /\ host' = "shut")
  BY DEF Spawn, StartEnds, OpenAcceptor, Bind, BuildEnds, Join, DeleteMessager, Destroy, Goto, serverOnlyVars, Early
<1>7. starting["host"] # Nobody => host \in {"queue", "live"}  BY DEF OneEach, Turn
<1>8. backlog \cap m_clients = {} /\ (peer # Nobody => peer \notin m_clients \cup backlog)
  BY DEF OneEach, Allowed
<1>9. backlog' \cap m_clients' = {} /\ (peer' # Nobody => peer' \notin m_clients' \cup backlog')
  BY <1>4, <1>6, <1>8
<1> QED  BY <1>2, <1>4, <1>5, <1>6, <1>7, <1>9, OneFrame

\* The host posts start().
LEMMA OneBuild == ASSUME SInv, OneEach, Build PROVE OneEach'
<1>1. /\ host = "none" /\ host' = "dispatched" /\ op_queue_' = op_queue_ \o <<Started>> /\ thread' = Woken
      /\ UNCHANGED <<private_op_queue, completing>>
      /\ UNCHANGED <<m_clients, active, backlog, peer, called, todo>>
      /\ UNCHANGED <<op_queue, starting>>
  BY DEF Build, Dispatch, Push, Goto, reactorOnlyVars
<1>2. Started \in Handlers /\ Started \in Ops /\ Started \notin Unique  BY ServerAssumption, Apart
<1>3. op_queue_ \in Seq(Ops) /\ op_queue_' = Append(op_queue_, Started)  BY <1>1, <1>2, Appended DEF SInv, Types
<1>4. \A x : In(op_queue_', x) <=> In(op_queue_, x) \/ x = Started  BY <1>2, <1>3, Appended
<1>5. \A d \in Descriptors, k \in Kinds :
        /\ Ready(d, k)' => Ready(d, k)
        /\ Fresh(d, k)' => Fresh(d, k)
        /\ Parked(d, k)' => Parked(d, k)
        /\ Due(d, k)' => Due(d, k)
        /\ AtHost(d, k)' => AtHost(d, k)
        /\ ToDo(d, k)' => ToDo(d, k)
  <2>1. \A d \in Descriptors, k \in Kinds : Op(d, k) # Started  BY <1>2, OpSame
  <2>2. \A d \in Descriptors, k \in Kinds : Ready(d, k)' => Ready(d, k)  BY <2>1, <1>4 DEF Ready
  <2> QED  BY <2>2, <1>1, Unmoved
<1>6. Lone' /\ \A d \in Descriptors, k \in Kinds : Pending(d, k)' => Pending(d, k)
  BY <1>5, LoneKept DEF OneEach
<1>7. Sole'
  <2>1. ~In(op_queue_, Started)  BY <1>1, <1>2 DEF OneEach, Sole
  <2>2. Once(op_queue_', Unique)  BY <2>1, <1>2, <1>3, OnceAppended DEF OneEach, Sole
  <2> QED  BY <2>2, <1>1 DEF OneEach, Sole
<1>8. Turn'
  <2>1. thread' = thread \/ {thread, thread'} \cap {"complete", "collected"} = {}  BY <1>1 DEF Woken
  <2>2. starting["host"] = Nobody  BY <1>1 DEF OneEach, Turn
  <2>3. UNCHANGED <<private_op_queue, completing, called, starting, todo>>  BY <1>1
  <2> QED  BY <2>1, <2>2, <2>3, TurnKept DEF OneEach
<1>9. Allowed'
  <2>1. Acceptor \in Descriptors /\ "read" \in Kinds /\ "write" \in Kinds /\ Connections \subseteq Descriptors
    BY ServerAssumption DEF Kinds
  <2> QED  BY <2>1, <1>1, <1>6 DEF OneEach, Allowed, Early
<1> QED  BY <1>6, <1>7, <1>8, <1>9 DEF OneEach

\* The host creates the acceptor, and the reactor is put in the queue.
LEMMA OneCreateAcceptor == ASSUME SInv, OneEach, CreateAcceptor PROVE OneEach'
<1>1. /\ host = "create" /\ host' = "bind" /\ op_queue_' = Append(op_queue_, TaskOp) /\ thread' = Woken
      /\ UNCHANGED <<private_op_queue, completing>>
      /\ UNCHANGED <<m_clients, active, backlog, peer, called, todo>>
      /\ UNCHANGED <<op_queue, starting>>
  BY DEF CreateAcceptor, InitTask, Goto, reactorOnlyVars
<1>2. TaskOp \in Ops /\ TaskOp \in Unique /\ TaskOp \notin Handlers  BY Apart, ReactorAssumption DEF Unique
<1>3. op_queue_ \in Seq(Ops)  BY DEF SInv, Types
<1>4. \A x : In(op_queue_', x) <=> In(op_queue_, x) \/ x = TaskOp  BY <1>1, <1>2, <1>3, Appended
<1>5. \A d \in Descriptors, k \in Kinds :
        /\ Ready(d, k)' => Ready(d, k)
        /\ Fresh(d, k)' => Fresh(d, k)
        /\ Parked(d, k)' => Parked(d, k)
        /\ Due(d, k)' => Due(d, k)
        /\ AtHost(d, k)' => AtHost(d, k)
        /\ ToDo(d, k)' => ToDo(d, k)
  <2>1. \A d \in Descriptors, k \in Kinds : Ready(d, k)' => Ready(d, k)  BY <1>4, OpSame DEF Ready
  <2> QED  BY <2>1, <1>1, Unmoved
<1>6. Lone' /\ \A d \in Descriptors, k \in Kinds : Pending(d, k)' => Pending(d, k)
  BY <1>5, LoneKept DEF OneEach
<1>7. Sole'
  <2>1. Once(op_queue_', Unique)  BY <1>1, <1>2, <1>3, OnceAppended DEF OneEach, Sole
  <2>2. \A h \in Handlers : h # TaskOp  BY <1>2
  <2> QED  BY <2>1, <2>2, <1>1, <1>4 DEF OneEach, Sole
<1>8. Turn'
  <2>1. thread' = thread \/ {thread, thread'} \cap {"complete", "collected"} = {}  BY <1>1 DEF Woken
  <2>2. starting["host"] = Nobody  BY <1>1 DEF OneEach, Turn
  <2>3. UNCHANGED <<private_op_queue, completing, called, starting, todo>>  BY <1>1
  <2> QED  BY <2>1, <2>2, <2>3, TurnKept DEF OneEach
<1>9. Allowed'
  <2>1. Acceptor \in Descriptors /\ "read" \in Kinds /\ "write" \in Kinds /\ Connections \subseteq Descriptors
    BY ServerAssumption DEF Kinds
  <2> QED  BY <2>1, <1>1, <1>6 DEF OneEach, Allowed, Early
<1> QED  BY <1>6, <1>7, <1>8, <1>9 DEF OneEach

\* An operation that is pending nowhere, and that the host's thread is about to queue.
LEMMA OneBlocks ==
  ASSUME SInv, OneEach, NEW e \in Descriptors, NEW l \in Kinds, NEW speculative,
         StartBlocks("host", e, l, speculative), ~Pending(e, l), UNCHANGED <<called, todo>>,
         host' # "none",
         \/ host' = "queue" /\ e = Acceptor /\ l = "read"
         \/ host' = "live" /\ e \in Connections /\ l = "write"
  PROVE  /\ Lone' /\ Sole' /\ Turn'
         /\ \A d \in Descriptors, k \in Kinds : Pending(d, k)' => Pending(d, k) \/ (d = e /\ k = l)
<1>1. /\ starting' = [starting EXCEPT !["host"] = [d |-> e, kind |-> l, speculative |-> speculative]]
      /\ starting["host"] = Nobody
      /\ starting \in [Threads -> {Nobody} \cup Starting]
      /\ UNCHANGED <<schedulerVars, op_queue>>
  BY DEF StartBlocks, SInv, Types
<1>2. UNCHANGED <<op_queue_, private_op_queue, completing, thread>>  BY <1>1 DEF schedulerVars
<1>3. starting'["service"] = starting["service"]  BY <1>1 DEF Threads
<1>4. starting'["host"].d = e /\ starting'["host"].kind = l  BY <1>1 DEF Threads
<1>6. \A d, k : AtHost(d, k)' => d = e /\ k = l  BY <1>4 DEF AtHost
<1>7. \A d, k : ~AtHost(d, k)  BY <1>1 DEF AtHost
<1>8. ASSUME NEW d \in Descriptors, NEW k \in Kinds
      PROVE  Alone(d, k)' /\ (Pending(d, k)' => Pending(d, k) \/ (d = e /\ k = l))
  <2>1. /\ Ready(d, k)' <=> Ready(d, k)
        /\ Fresh(d, k)' <=> Fresh(d, k)
        /\ Parked(d, k)' <=> Parked(d, k)
        /\ Due(d, k)' <=> Due(d, k)
        /\ ToDo(d, k)' <=> ToDo(d, k)
    BY <1>1, <1>2, Unmoved
  <2>2. Alone(d, k) /\ (d = e /\ k = l => ~Pending(d, k))  BY DEF OneEach, Lone
  <2> QED  BY <2>1, <2>2, <1>6, <1>7 DEF Alone, Pending
<1>9. Sole'  BY <1>2 DEF OneEach, Sole
<1>10. Turn'
  <2>1. called' = called /\ todo' = todo  OBVIOUS
  <2> QED  BY <2>1, <1>2, <1>3, <1>4 DEF OneEach, Turn
<1> QED  BY <1>8, <1>9, <1>10 DEF Lone

\* The host starts accepting.
LEMMA OneListen == ASSUME SInv, OneEach, Listen PROVE OneEach'
<1>1. /\ Acceptor \in Descriptors /\ Connections \subseteq Descriptors /\ Acceptor \notin Connections
      /\ "read" \in Kinds /\ "write" \in Kinds
  BY ServerAssumption DEF Kinds
<1>2. /\ StartBlocks("host", Acceptor, "read", FALSE) /\ host = "listen" /\ host' = "queue"
      /\ UNCHANGED <<m_clients, backlog, peer, active>>
      /\ UNCHANGED <<called, todo>>
  BY DEF Listen, Goto
<1>3. ~Pending(Acceptor, "read")  BY <1>2 DEF OneEach, Allowed, Early
<1>4. /\ Lone' /\ Sole' /\ Turn'
      /\ \A d \in Descriptors, k \in Kinds : Pending(d, k)' => Pending(d, k) \/ (d = Acceptor /\ k = "read")
  BY <1>1, <1>2, <1>3, OneBlocks
<1>5. Allowed'
  <2>1. host' \notin Early  BY <1>2 DEF Early
  <2>2. ~Pending(Acceptor, "write")'  BY <1>1, <1>4 DEF OneEach, Allowed
  <2>3. \A c \in Connections, k \in Kinds : Pending(c, k)' => Pending(c, k)  BY <1>1, <1>4
  <2> QED  BY <2>1, <2>2, <2>3, <1>1, <1>2 DEF OneEach, Allowed
<1> QED  BY <1>4, <1>5 DEF OneEach

\* The host queues what it started.
LEMMA OneHostQueues == ASSUME SInv, OneEach, ListenQueues \/ HostQueues PROVE OneEach'
<1>1. /\ StartQueues("host") /\ "host" \in Threads
      /\ UNCHANGED <<m_clients, active, backlog, peer, called, todo>>
      /\ (host = "queue" /\ host' = "assign") \/ (host = "live" /\ host' = "live")
  BY DEF ListenQueues, HostQueues, Goto, serverOnlyVars, Threads
<1>2. PICK e, l : e = starting["host"].d /\ l = starting["host"].kind  OBVIOUS
<1>3. /\ \A d \in Descriptors, k \in Kinds : Parked(d, k)' <=> Parked(d, k) \/ (d = e /\ k = l)
      /\ starting["host"] # Nobody /\ starting' = [starting EXCEPT !["host"] = Nobody]
      /\ UNCHANGED <<op_queue_, private_op_queue, completing, thread>>
  BY <1>1, <1>2, OneParks
<1>4. starting'["service"] = starting["service"] /\ starting'["host"] = Nobody
  BY <1>3 DEF SInv, Types, Threads
<1>5. ASSUME NEW d \in Descriptors, NEW k \in Kinds
      PROVE  /\ Alone(d, k)'
             /\ Pending(d, k)' => Pending(d, k)
  <2>1. /\ Ready(d, k)' <=> Ready(d, k)
        /\ Fresh(d, k)' <=> Fresh(d, k)
        /\ Due(d, k)' <=> Due(d, k)
        /\ ToDo(d, k)' <=> ToDo(d, k)
    BY <1>1, <1>3, Unmoved
  <2>2. ~AtHost(d, k)' /\ (AtHost(d, k) <=> d = e /\ k = l)  BY <1>2, <1>3, <1>4 DEF AtHost
  <2>3. Parked(d, k)' <=> Parked(d, k) \/ (d = e /\ k = l)  BY <1>3
  <2>4. Alone(d, k)  BY DEF OneEach, Lone
  <2> QED  BY <2>1, <2>2, <2>3, <2>4 DEF Alone, Pending
<1>6. Allowed'
  <2>1. /\ Acceptor \in Descriptors /\ Connections \subseteq Descriptors
        /\ "read" \in Kinds /\ "write" \in Kinds
    BY ServerAssumption DEF Kinds
  <2>2. host' \notin Early /\ host \notin {"shut", "destroyed"}  BY <1>1 DEF Early
  <2> QED  BY <2>1, <2>2, <1>1, <1>5 DEF OneEach, Allowed
<1>7. Sole'  BY <1>1, <1>3 DEF OneEach, Sole
<1>8. Turn'
  <2>1. UNCHANGED <<private_op_queue, completing, called, todo, thread>>  BY <1>1, <1>3
  <2> QED  BY <2>1, <1>4 DEF OneEach, Turn
<1> QED  BY <1>5, <1>6, <1>7, <1>8 DEF OneEach, Lone

\* The host writes to a client: it does so once per request.
LEMMA OneHostWrites == ASSUME SInv, OneEach, NEW c \in Connections, HostWrites(c) PROVE OneEach'
<1>1. /\ Connections \subseteq Descriptors /\ c \in Descriptors /\ Acceptor \in Descriptors /\ Acceptor \notin Connections
      /\ "read" \in Kinds /\ "write" \in Kinds /\ "host" \in Threads /\ "host" # "service"
  BY ServerAssumption DEF Kinds, Threads
<1>2. /\ host = "live" /\ host' = host /\ c \notin active /\ active' = active \cup {c}
      /\ UNCHANGED <<m_clients, backlog, peer>>
      /\ UNCHANGED <<called, todo>>
  BY DEF HostWrites
<1>3. ~Pending(c, "write")  BY <1>2 DEF OneEach, Allowed
<1>4. ASSUME /\ Lone' /\ Sole' /\ Turn'
             /\ \A d \in Descriptors, k \in Kinds : Pending(d, k)' => Pending(d, k) \/ (d = c /\ k = "write")
      PROVE  OneEach'
  <2>1. host' \notin Early /\ host \notin {"shut", "destroyed"}  BY <1>2 DEF Early
  <2>2. ~Pending(Acceptor, "write")'  BY <1>1, <1>4 DEF OneEach, Allowed
  <2>3. \A d \in Connections : Pending(d, "read")' => Pending(d, "read")  BY <1>1, <1>4
  <2>4. \A d \in Connections : Pending(d, "write")' => d \in active'  BY <1>1, <1>2, <1>4 DEF OneEach, Allowed
  <2>5. Allowed'  BY <2>1, <2>2, <2>3, <2>4, <1>2 DEF OneEach, Allowed
  <2> QED  BY <2>5, <1>4 DEF OneEach
<1>5. CASE StartBlocks("host", c, "write", TRUE)
  <2>1. /\ Lone' /\ Sole' /\ Turn'
        /\ \A d \in Descriptors, k \in Kinds : Pending(d, k)' => Pending(d, k) \/ (d = c /\ k = "write")
    BY <1>1, <1>2, <1>3, <1>5, OneBlocks
  <2> QED  BY <2>1, <1>4
<1>6. ASSUME NEW left, StartPerforms("host", c, "write", FALSE, left) PROVE OneEach'
  <2>1. ~Ready(c, "write") /\ ~Fresh(c, "write")  BY <1>3 DEF Pending
  <2>2. /\ \/ \A d \in Descriptors, k \in Kinds :
                /\ Ready(d, k)' <=> Ready(d, k) \/ (d = c /\ k = "write")
                /\ Fresh(d, k)' <=> Fresh(d, k)
           \/ \A d \in Descriptors, k \in Kinds :
                /\ Ready(d, k)' <=> Ready(d, k)
                /\ Fresh(d, k)' <=> Fresh(d, k) \/ (d = c /\ k = "write")
        /\ Once(op_queue_', Unique) /\ Once(private_op_queue', Unique)
        /\ \A h \in Handlers :
             (In(op_queue_', h) => In(op_queue_, h)) /\ (In(private_op_queue', h) => In(private_op_queue, h))
        /\ UNCHANGED <<op_queue, completing, starting>>
        /\ thread' = thread \/ {thread, thread'} \cap {"complete", "collected"} = {}
        /\ private_op_queue' = private_op_queue
    BY <2>1, <1>1, <1>6, OnePosts DEF OneEach
  <2>3. ASSUME NEW d \in Descriptors, NEW k \in Kinds
        PROVE  /\ Alone(d, k)'
               /\ Pending(d, k)' => Pending(d, k) \/ (d = c /\ k = "write")
    <3>1. /\ Parked(d, k)' <=> Parked(d, k)
          /\ Due(d, k)' <=> Due(d, k)
          /\ AtHost(d, k)' <=> AtHost(d, k)
          /\ ToDo(d, k)' <=> ToDo(d, k)
      BY <1>2, <2>2, Unmoved
    <3>2. \/ (Ready(d, k)' <=> Ready(d, k) \/ (d = c /\ k = "write")) /\ (Fresh(d, k)' <=> Fresh(d, k))
          \/ (Ready(d, k)' <=> Ready(d, k)) /\ (Fresh(d, k)' <=> Fresh(d, k) \/ (d = c /\ k = "write"))
      BY <2>2
    <3>3. Alone(d, k) /\ (d = c /\ k = "write" => ~Pending(d, k))  BY <1>3 DEF OneEach, Lone
    <3> QED  BY <3>1, <3>2, <3>3 DEF Alone, Pending
  <2>4. Sole'  BY <1>2, <2>2 DEF OneEach, Sole
  <2>5. Turn'
    <3>1. UNCHANGED <<private_op_queue, completing, called, starting, todo>>  BY <1>2, <2>2
    <3> QED  BY <3>1, <1>2, <2>2, TurnKept DEF OneEach
  <2> QED  BY <2>3, <2>4, <2>5, <1>4 DEF Lone
<1> QED  BY <1>5, <1>6 DEF HostWrites

\* The service is deleted, and what is queued with it.
LEMMA OneUTEDestroy == ASSUME SInv, OneEach, UTEDestroy PROVE OneEach'
<1>1. /\ host = "shut" /\ host' = "destroyed" /\ op_queue_' = <<>> /\ op_queue' = [d \in Descriptors |-> {}]
      /\ starting["host"] = Nobody
      /\ UNCHANGED <<private_op_queue, completing, called, starting, todo>>
      /\ UNCHANGED <<thread, m_clients, active, backlog, peer>>
  BY DEF UTEDestroy, ShutdownService, Goto, Threads
<1>2. \A x : ~In(op_queue_', x)  BY <1>1 DEF In
<1>3. \A d \in Descriptors, k \in Kinds :
        /\ Ready(d, k)' => Ready(d, k)
        /\ Fresh(d, k)' => Fresh(d, k)
        /\ Parked(d, k)' => Parked(d, k)
        /\ Due(d, k)' => Due(d, k)
        /\ AtHost(d, k)' => AtHost(d, k)
        /\ ToDo(d, k)' => ToDo(d, k)
  <2>1. \A d \in Descriptors, k \in Kinds : ~Ready(d, k)'  BY <1>2 DEF Ready
  <2>2. \A d \in Descriptors, k \in Kinds : ~Parked(d, k)'  BY <1>1 DEF Parked
  <2> QED  BY <2>1, <2>2, <1>1, Unmoved
<1>4. Lone' /\ \A d \in Descriptors, k \in Kinds : Pending(d, k)' => Pending(d, k)
  BY <1>3, LoneKept DEF OneEach
<1>5. Sole'
  <2>1. Once(op_queue_', Unique)  BY <1>1 DEF Once
  <2> QED  BY <2>1, <1>1, <1>2 DEF OneEach, Sole
<1>6. Turn'  BY <1>1, TurnKept DEF OneEach
<1>7. Allowed'
  <2>1. Acceptor \in Descriptors /\ "write" \in Kinds /\ Connections \subseteq Descriptors
    BY ServerAssumption DEF Kinds
  <2>2. host' \notin Early  BY <1>1 DEF Early
  <2> QED  BY <2>1, <2>2, <1>1, <1>4 DEF OneEach, Allowed
<1> QED  BY <1>4, <1>5, <1>6, <1>7 DEF OneEach

\* The kernel and the clients.
LEMMA OneClients ==
  ASSUME OneEach, NEW c \in Connections,
         Connect(c) \/ Goes(c) \/ \E kind \in Kinds : Arrives(c, kind)
  PROVE  OneEach'
<1>1. UNCHANGED <<schedulerVars, op_queue, starting>>
  BY DEF Connect, Goes, Arrives, Becomes
<1>2. UNCHANGED <<op_queue_, private_op_queue, completing, thread>>  BY <1>1 DEF schedulerVars
<1>3. CASE UNCHANGED serverOnlyVars  BY <1>1, <1>2, <1>3, OneStill
<1>4. CASE Goes(c)
  <2>1. UNCHANGED <<called, todo, active, host, m_clients, backlog, peer>>  BY <1>4 DEF Goes
  <2>2. UNCHANGED placeVars  BY <2>1, <1>1, <1>2 DEF placeVars
  <2>3. backlog \cap m_clients = {} /\ (peer # Nobody => peer \notin m_clients \cup backlog)
    BY DEF OneEach, Allowed
  <2> QED  BY <2>1, <2>2, <2>3, <1>2, OneFrame
<1>5. CASE Connect(c)
  <2>1. /\ UNCHANGED <<called, todo, active, host, m_clients, peer>>
        /\ backlog' = backlog \cup {c} /\ c \notin m_clients /\ (peer # Nobody => c # peer)
    BY <1>5 DEF Connect, Made
  <2>2. UNCHANGED placeVars  BY <2>1, <1>1, <1>2 DEF placeVars
  <2>3. backlog \cap m_clients = {} /\ (peer # Nobody => peer \notin m_clients \cup backlog)
    BY DEF OneEach, Allowed
  <2>4. backlog' \cap m_clients' = {} /\ (peer' # Nobody => peer' \notin m_clients' \cup backlog')
    BY <2>1, <2>3
  <2> QED  BY <2>1, <2>2, <2>4, <1>2, OneFrame
<1> QED  BY <1>3, <1>4, <1>5 DEF Arrives

\* Every step keeps it: the server has one operation of a kind on a descriptor.
LEMMA OneStep == ASSUME SInv, Order, LivingObjects, OneEach, [Next]_vars PROVE OneEach'
<1>1. CASE Service  BY <1>1, OneService
<1>2. CASE InCall  BY <1>2, OneHostMoves, OneCreateAcceptor, OneListen, OneHostQueues, OneUTEDestroy DEF InCall
<1>3. CASE World
  <2>1. CASE HungUp
    <3>1. /\ UNCHANGED <<schedulerVars, op_queue, starting>> /\ UNCHANGED serverOnlyVars
      BY <2>1 DEF HungUp, Becomes
    <3>2. UNCHANGED <<op_queue_, private_op_queue, completing>> /\ thread' = thread  BY <3>1 DEF schedulerVars
    <3> QED  BY <3>1, <3>2, OneStill
  <2> QED  BY <2>1, <1>3, OneBuild, OneHostMoves, OneScheduled, OneClients, OneHostWrites DEF World
<1>4. CASE Terminated \/ UNCHANGED vars
  <2>1. UNCHANGED <<schedulerVars, reactorOnlyVars>> /\ UNCHANGED serverOnlyVars
    BY <1>4 DEF Terminated, vars, serverOnlyVars
  <2>2. UNCHANGED <<op_queue_, private_op_queue, completing>> /\ thread' = thread  BY <2>1 DEF schedulerVars
  <2>3. UNCHANGED <<op_queue, starting>>  BY <2>1 DEF reactorOnlyVars
  <2> QED  BY <2>1, <2>2, <2>3, OneStill
<1> QED  BY <1>1, <1>2, <1>3, <1>4 DEF Next

\* At the beginning nothing is pending.
LEMMA OneInit == Init => OneEach
<1> SUFFICES ASSUME Init PROVE OneEach
  OBVIOUS
<1>1. /\ op_queue_ = <<>> /\ private_op_queue = <<>> /\ completing = NoOp /\ thread = "out"
      /\ op_queue = [d \in Descriptors |-> {}] /\ starting = [t \in Threads |-> Nobody]
      /\ called = FALSE /\ todo = <<>> /\ host = "none" /\ backlog = {} /\ m_clients = {} /\ peer = Nobody
  BY DEF Init, ReactorInit, SchedulerInit
<1>2. starting["host"] = Nobody /\ starting["service"] = Nobody  BY <1>1 DEF Threads
<1>3. \A d \in Descriptors, k \in Kinds : ~Pending(d, k)
  <2> SUFFICES ASSUME NEW d \in Descriptors, NEW k \in Kinds PROVE ~Pending(d, k)
    OBVIOUS
  <2>1. ~Ready(d, k) /\ ~Fresh(d, k) /\ ~ToDo(d, k)  BY <1>1 DEF Ready, Fresh, ToDo, In
  <2>2. ~Parked(d, k) /\ ~AtHost(d, k)  BY <1>1, <1>2 DEF Parked, AtHost
  <2>3. ~Due(d, k)  BY <1>1, OpSame DEF Due
  <2> QED  BY <2>1, <2>2, <2>3 DEF Pending
<1>4. Lone  BY <1>3 DEF Lone, Alone, Pending
<1>5. Sole  BY <1>1 DEF Sole, Once, In
<1>6. Turn  BY <1>1, <1>2 DEF Turn
<1>7. Allowed
  <2>1. Acceptor \in Descriptors /\ "read" \in Kinds /\ "write" \in Kinds /\ Connections \subseteq Descriptors
    BY ServerAssumption DEF Kinds
  <2> QED  BY <2>1, <1>1, <1>3 DEF Allowed
<1> QED  BY <1>4, <1>5, <1>6, <1>7 DEF OneEach

-----------------------------------------------------------------------------
(* The executor.                                                           *)

\* A queue begins with what was in it before more was put behind it.
LEMMA QueueGrows ==
  ASSUME NEW s \in Seq(Ops), NEW t \in Seq(Ops)
  PROVE  Executed!Starts(s, s \o t)
<1>1. s \o t \in Seq(Ops) /\ Len(s) \in Nat /\ Len(t) \in Nat /\ Len(s \o t) = Len(s) + Len(t)
  BY ConcatProperties, LenProperties
<1>2. Len(s) <= Len(s \o t)  BY <1>1
<1>3. SubSeq(s \o t, 1, Len(s)) = s
  <2>1. CASE Len(s) = 0
    <3>1. s = <<>>  BY <2>1, EmptySeq
    <3>2. SubSeq(s \o t, 1, 0) = <<>>  BY SubSeqEmpty
    <3> QED  BY <3>1, <3>2, <2>1
  <2>2. CASE Len(s) # 0
    <3>1. 1 \in 1..Len(s) /\ Len(s) \in 1..Len(s)  BY <1>1, <2>2
    <3>2. SubSeq(s \o t, 1, Len(s)) = SubSeq(s, 1, Len(s))  BY <3>1, SubSeqOfConcat1
    <3> QED  BY <3>2, SubSeqFull
  <2> QED  BY <2>1, <2>2
<1> QED  BY <1>2, <1>3 DEF Executed!Starts

\* Nothing is in the queues twice.
HeldOnce == Once(Queued \o private_op_queue, {})

\* The order of the queues, and one operation of each, make it so.
LEMMA QueuedApart ==
  ASSUME Types, Order, Lone, Sole
  PROVE  Once(op_queue_, {}) /\ Once(Queued \o private_op_queue, {})
<1>1. op_queue_ \in Seq(Ops) /\ private_op_queue \in Seq(Ops) /\ Queued \in Seq(Ops)
  BY PrivateSeq, QueuedWithout, WithoutType DEF Types
<1>2. Once(op_queue_, {}) /\ Once(private_op_queue, {})  BY OnceOrdered DEF Order, Sole
<1>3. Once(Queued, {}) /\ \A x : In(Queued, x) => In(op_queue_, x) /\ x # TaskOp
  BY <1>1, <1>2, WithoutOnce, QueuedWithout
<1>4. ASSUME NEW x, In(Queued, x), In(private_op_queue, x) PROVE x \in {}
  <2>1. In(op_queue_, x) /\ x \in Unique /\ x # TaskOp  BY <1>3, <1>4, QueuesApart
  <2>2. ~Plain(op_queue_) /\ ~Plain(private_op_queue)  BY <2>1, <1>4 DEF Plain, In
  <2> QED  BY <2>2 DEF Order
<1> QED  BY <1>1, <1>2, <1>3, <1>4, OnceJoined

\* What the thread does and holds when, as far as the executor tells it apart.
Idle ==
    /\ thread # "complete" => completing = NoOp
    /\ thread \in {"poll", "block"} \/ completing \in Descriptors => private_op_queue = <<>>
    /\ thread = "ended" => stopped_

\* Every step of the reactor's, or the scheduler's, is one of the executor's or is not seen.
LEMMA ExecutorStep ==
  ASSUME Types, Types', Order, Idle, Once(op_queue_, {}), Once(Queued' \o private_op_queue', {}),
         [ReactorNext]_reactorVars
  PROVE  [Executed!Next]_(Executed!vars)
<1> DEFINE p == private_op_queue
           w == Without(op_queue_)
<1>1. Queued = w /\ Queued' = Without(op_queue_')  BY QueuedWithout DEF Queued, Without, Behind
<1>2. op_queue_ \in Seq(Ops) /\ p \in Seq(Ops) /\ w \in Seq(Ops) /\ ~In(p, TaskOp)
  <2>1. p \in Seq(Private)  BY DEF Types
  <2>2. \A i \in DOMAIN p : p[i] # TaskOp  BY <2>1, LenProperties, ElementOfSeq DEF Private
  <2>3. ~In(p, TaskOp)  BY <2>2 DEF In
  <2> QED  BY <2>1, <2>3, PrivateSeq, WithoutType DEF Types
<1>3. Executed!Once  BY DEF Once, Executed!Once, Executed!Distinct
<1> HIDE DEF w
<1> USE DEF Executed!Next
\* Operations behind those that are queued.
<1>4. ASSUME NEW s \in Seq(Ops), ~In(s, TaskOp), op_queue_' = op_queue_ \o s PROVE Queued' = Queued \o s
  BY <1>1, <1>2, <1>4, WithoutJoined DEF w
<1>5. ASSUME NEW op \in Ops, op # TaskOp, op_queue_' = op_queue_ \o <<op>>
      PROVE  Executed!Starts(Queued, Queued')
  <2>1. <<op>> \in Seq(Ops) /\ ~In(<<op>>, TaskOp)  BY <1>5, Single
  <2>2. Queued' = Queued \o <<op>>  BY <2>1, <1>4, <1>5
  <2> QED  BY <2>1, <2>2, <1>1, <1>2, QueueGrows
<1>6. ASSUME Queued' = Queued, UNCHANGED <<private_op_queue, completing, stopped_>>
      PROVE  UNCHANGED Executed!vars
  BY <1>6 DEF Executed!vars
<1>7. ASSUME UNCHANGED <<op_queue_, private_op_queue, completing, stopped_>>
      PROVE  UNCHANGED Executed!vars
  <2>1. Queued' = Queued  BY <1>1, <1>7 DEF w
  <2> QED  BY <2>1, <1>6, <1>7
<1>10. CASE (Enter \/ Leave \/ Sleep \/ Spurious \/ Awake) /\ UNCHANGED reactorOnlyVars
  <2>1. UNCHANGED <<op_queue_, private_op_queue, completing, stopped_>>  BY <1>10 DEF Enter, Leave, Sleep, Spurious, Awake
  <2> QED  BY <2>1, <1>7
<1>11. CASE RunTask
  <2>1. /\ op_queue_ # <<>> /\ Head(op_queue_) = TaskOp /\ op_queue_' = Tail(op_queue_)
        /\ UNCHANGED <<private_op_queue, completing, stopped_>>
    BY <1>11 DEF RunTask
  <2>2. w = Tail(op_queue_)  BY <2>1, <1>2, WithoutTaken DEF w
  <2>3. ~In(Tail(op_queue_), TaskOp) /\ Tail(op_queue_) \in Seq(Ops)
    <3>1. Head(op_queue_) \notin {} => ~In(Tail(op_queue_), Head(op_queue_))  BY <2>1, <1>2, OnceTaken
    <3>2. Tail(op_queue_) \in Seq(Ops)  BY <2>1, <1>2, Taken
    <3> QED  BY <3>1, <3>2, <2>1
  <2>4. Without(op_queue_') = Tail(op_queue_)  BY <2>1, <2>3, WithoutIs
  <2> QED  BY <2>1, <2>2, <2>4, <1>1, <1>6
<1>12. CASE RunHandler
  <2>1. /\ op_queue_ # <<>> /\ Head(op_queue_) # TaskOp /\ op_queue_' = Tail(op_queue_)
        /\ completing' = Head(op_queue_) /\ ~stopped_ /\ completing = NoOp
        /\ UNCHANGED <<private_op_queue, stopped_>>
    BY <1>12 DEF RunHandler, Idle
  <2>2. w # <<>> /\ Head(w) = Head(op_queue_) /\ Tail(w) = Without(op_queue_')
    BY <2>1, <1>2, WithoutTaken DEF w
  <2>3. Executed!Begin  BY <2>1, <2>2, <1>1 DEF Executed!Begin
  <2> QED  BY <2>3
<1>13. CASE TaskCleanup
  <2>1. /\ op_queue_' = Append(op_queue_ \o p, TaskOp) /\ private_op_queue' = <<>> /\ completing' = completing
        /\ completing = NoOp /\ Plain(op_queue_) /\ stopped_' = stopped_
    BY <1>13 DEF TaskCleanup, Idle, Order
  <2>2. ~In(op_queue_, TaskOp)  BY <2>1 DEF Plain, In, Unique
  <2>3. op_queue_ \o p \in Seq(Ops) /\ ~In(op_queue_ \o p, TaskOp)  BY <2>2, <1>2, Joined
  <2>4. Without(op_queue_') = op_queue_ \o p  BY <2>1, <2>3, WithoutLast
  <2>5. w = op_queue_  BY <2>2, <1>2, WithoutIs DEF w
  <2>6. Executed!End  BY <2>1, <2>4, <2>5, <1>1 DEF Executed!End
  <2> QED  BY <2>6
<1>14. CASE Completed
  <2>1. /\ op_queue_' = op_queue_ \o p /\ private_op_queue' = <<>> /\ completing' = NoOp
        /\ stopped_' \in {stopped_, TRUE}
    BY <1>14 DEF Completed, WorkCleanup
  <2>2. Queued' = Queued \o p  BY <2>1, <1>2, <1>4
  <2>3. Executed!End  BY <2>1, <2>2 DEF Executed!End
  <2> QED  BY <2>3
<1>15. CASE InitTask
  <2>1. /\ op_queue_' = Append(op_queue_, TaskOp) /\ Plain(op_queue_)
        /\ UNCHANGED <<private_op_queue, completing, stopped_>>
    BY <1>15 DEF InitTask, Order
  <2>2. ~In(op_queue_, TaskOp)  BY <2>1 DEF Plain, In, Unique
  <2>3. Without(op_queue_') = op_queue_ /\ w = op_queue_  BY <2>1, <2>2, <1>2, WithoutLast, WithoutIs DEF w
  <2> QED  BY <2>1, <2>3, <1>1, <1>6
<1>16. CASE Stop
  <2>1. stopped_' = TRUE /\ UNCHANGED <<op_queue_, private_op_queue, completing>>
    BY <1>16 DEF Stop, StopAllThreads
  <2>2. Queued' = Queued  BY <2>1, <1>1 DEF w
  <2>3. Executed!Stop  BY <2>1, <2>2 DEF Executed!Stop
  <2> QED  BY <2>3
<1>17. ASSUME NEW h \in Handlers, Dispatch(h) PROVE Executed!Next
  <2>1. op_queue_' = op_queue_ \o <<h>> /\ UNCHANGED <<private_op_queue, completing, stopped_>>
    BY <1>17 DEF Dispatch, Push
  <2>2. h \in Ops /\ h # TaskOp  BY Apart DEF Unique
  <2>3. Executed!Starts(Queued, Queued')  BY <2>1, <2>2, <1>5
  <2>4. Executed!Post  BY <2>1, <2>3, <1>3 DEF Executed!Post
  <2> QED  BY <2>4
<1>18. ASSUME NEW d \in Descriptors, NEW kinds, Register(d) \/ Resets(d) \/ Becomes(d, kinds)
       PROVE  UNCHANGED Executed!vars
  <2>1. UNCHANGED schedulerVars  BY <1>18 DEF Register, Resets, Becomes
  <2>2. UNCHANGED <<op_queue_, private_op_queue, completing, stopped_>>  BY <2>1 DEF schedulerVars
  <2> QED  BY <2>2, <1>7
<1>19. ASSUME NEW d \in Descriptors, NEW left, Perform(d, left) PROVE Executed!Next
  <2> DEFINE done == op_queue[d] \cap task_result_[d] \cap can[d]
             first == IF "write" \in done THEN "write" ELSE "read"
  <2>1. /\ completing = d /\ p = <<>>
        /\ completing' = IF done = {} THEN NoOp ELSE Op(d, first)
        /\ done = Kinds => op_queue_' = Append(op_queue_, Op(d, "read"))
        /\ done # Kinds => op_queue_' = op_queue_
        /\ UNCHANGED <<private_op_queue, stopped_>>
    BY <1>19 DEF Perform, Idle
  <2>2. first \in Kinds /\ "read" \in Kinds /\ Kinds # {}  BY DEF Kinds
  <2> HIDE DEF done, first
  <2>3. d # NoOp /\ Op(d, first) # NoOp /\ Op(d, "read") \in Ops /\ Op(d, "read") # TaskOp
    BY <2>2, OpSame, ReactorAssumption
  <2>4. CASE done = {}
    <3>1. Queued' = Queued  BY <2>1, <2>2, <2>4, <1>1 DEF w
    <3>2. Queued \o p = Queued  BY <2>1, <1>1, <1>2, ConcatEmptySeq
    <3>3. Executed!End  BY <2>1, <2>4, <3>1, <3>2 DEF Executed!End
    <3> QED  BY <3>3
  <2>5. CASE done # {}
    <3>1. Executed!Starts(Queued, Queued')
      <4>1. CASE done = Kinds
        <5>1. op_queue_' = op_queue_ \o <<Op(d, "read")>>  BY <4>1, <2>1, <2>3, <1>2, Appended
        <5> QED  BY <5>1, <2>3, <1>5
      <4>2. CASE done # Kinds
        <5>1. Queued' = Queued  BY <4>2, <2>1, <1>1 DEF w
        <5>2. <<>> \in Seq(Ops) /\ Queued \o <<>> = Queued  BY <1>1, <1>2, ConcatEmptySeq
        <5> QED  BY <5>1, <5>2, <1>1, <1>2, QueueGrows
      <4> QED  BY <4>1, <4>2
    <3>2. Executed!HandOver  BY <3>1, <2>1, <2>3, <2>5, <1>3 DEF Executed!HandOver
    <3> QED  BY <3>2
  <2> QED  BY <2>4, <2>5
<1>20. ASSUME NEW t, NEW d \in Descriptors, NEW kind \in Kinds, NEW continuation, NEW left,
              StartPerforms(t, d, kind, continuation, left)
       PROVE  Executed!Next
  <2>1. Op(d, kind) \in Ops /\ Op(d, kind) # TaskOp /\ <<Op(d, kind)>> \in Seq(Ops)  BY OpSame, Single
  <2>2. PostImmediate(Op(d, kind), continuation, t = "service")  BY <1>20 DEF StartPerforms
  <2>3. CASE continuation /\ t = "service"
    <3>1. /\ private_op_queue' = Append(p, Op(d, kind)) /\ UNCHANGED <<op_queue_, completing, stopped_>>
      BY <2>2, <2>3 DEF PostImmediate
    <3>2. private_op_queue' = p \o <<Op(d, kind)>>  BY <3>1, <2>1, <1>2, Appended
    <3>3. Executed!Starts(private_op_queue, private_op_queue')  BY <3>2, <2>1, <1>2, QueueGrows
    <3>4. Queued' = Queued  BY <3>1, <1>1 DEF w
    <3>5. Executed!Keep  BY <3>1, <3>3, <3>4, <1>3 DEF Executed!Keep
    <3> QED  BY <3>5
  <2>4. CASE ~(continuation /\ t = "service")
    <3>1. op_queue_' = op_queue_ \o <<Op(d, kind)>> /\ UNCHANGED <<private_op_queue, completing, stopped_>>
      BY <2>2, <2>4 DEF PostImmediate, Push
    <3>2. Executed!Starts(Queued, Queued')  BY <3>1, <2>1, <1>5
    <3>3. Executed!Post  BY <3>1, <3>2, <1>3 DEF Executed!Post
    <3> QED  BY <3>3
  <2> QED  BY <2>3, <2>4
<1>21. ASSUME NEW t, NEW d, NEW kind, NEW speculative, StartBlocks(t, d, kind, speculative)
       PROVE  UNCHANGED Executed!vars
  <2>1. UNCHANGED schedulerVars  BY <1>21 DEF StartBlocks
  <2>2. UNCHANGED <<op_queue_, private_op_queue, completing, stopped_>>  BY <2>1 DEF schedulerVars
  <2> QED  BY <2>2, <1>7
<1>22. ASSUME NEW t, StartQueues(t) PROVE UNCHANGED Executed!vars
  <2>1. UNCHANGED <<op_queue_, private_op_queue, completing, stopped_>>  BY <1>22 DEF StartQueues, WorkStarted
  <2> QED  BY <2>1, <1>7
<1>23. CASE Collect
  <2>1. /\ thread \in {"poll", "block"} /\ UNCHANGED <<op_queue_, completing, stopped_>>
    BY <1>23 DEF Collect, TaskReturns
  <2>2. p = <<>> /\ private_op_queue' \in Seq(Ops)  BY <2>1, PrivateSeq DEF Idle, Types
  <2>3. p \o private_op_queue' = private_op_queue'  BY <2>2, ConcatEmptySeq
  <2>4. Executed!Starts(private_op_queue, private_op_queue')
    <3>1. Executed!Starts(p, p \o private_op_queue')
      <4>1. \A s, t \in Seq(Ops) : Executed!Starts(s, s \o t)  BY QueueGrows
      <4> QED  BY <4>1, <1>2, <2>2
    <3> QED  BY <3>1, <2>3
  <2>5. Queued' = Queued  BY <2>1, <1>1 DEF w
  <2>6. Executed!Keep  BY <2>1, <2>4, <2>5, <1>3 DEF Executed!Keep
  <2> QED  BY <2>6
<1>24. CASE ShutdownService
  <2>1. /\ op_queue_' = <<>> /\ stopped_ /\ completing = NoOp
        /\ UNCHANGED <<private_op_queue, completing, stopped_>>
    BY <1>24 DEF ShutdownService, Idle
  <2>2. Without(op_queue_') = <<>>
    <3>1. <<>> \in Seq(Ops) /\ ~In(<<>>, TaskOp)  BY DEF In
    <3> QED  BY <3>1, <2>1, WithoutIs
  <2>3. Executed!Destroy  BY <2>1, <2>2, <1>1 DEF Executed!Destroy
  <2> QED  BY <2>3
<1>25. CASE UNCHANGED reactorVars
  <2>1. UNCHANGED <<op_queue_, private_op_queue, completing, stopped_>>  BY <1>25 DEF reactorVars, schedulerVars
  <2> QED  BY <2>1, <1>7
<1> QED
  BY <1>10, <1>11, <1>12, <1>13, <1>14, <1>15, <1>16, <1>17, <1>18, <1>19, <1>20, <1>21, <1>22, <1>23, <1>24,
     <1>25 DEF ReactorNext

\* It is what is known of the thread's turn.
LEMMA IdleHolds == ASSUME OneEach, Stopping PROVE Idle
<1>1. thread # "complete" => completing = NoOp  BY DEF OneEach, Turn
<1>2. NoOp \notin Descriptors  BY ReactorAssumption
<1>3. private_op_queue # <<>> => thread = "collected" \/ called  BY DEF OneEach, Turn
<1>4. completing \in Descriptors \cup {NoOp} => ~called  BY DEF OneEach, Turn
<1>5. thread \in {"poll", "block"} => private_op_queue = <<>>
  <2>1. thread \in {"poll", "block"} => thread # "complete" /\ thread # "collected"  OBVIOUS
  <2> QED  BY <2>1, <1>1, <1>3, <1>4
<1>6. completing \in Descriptors => private_op_queue = <<>>
  <2>1. completing \in Descriptors => thread = "complete"  BY <1>1, <1>2
  <2>2. "complete" # "collected"  OBVIOUS
  <2> QED  BY <2>1, <2>2, <1>3, <1>4
<1> QED  BY <1>1, <1>5, <1>6 DEF Idle, Stopping

\* The scheduler of the server is an executor: what is posted is executed once and in order, one
\* at a time, until the service is stopped; threads that sleep or wait in epoll_wait, the two
\* queues and the reactor among the operations cannot be seen.  ExecutorSpec in the run.
THEOREM ServerImplementsExecutor == Spec => ExecutorSpec
<1>1. Spec => []OneEach
  <2>1. SInv /\ Order /\ LivingObjects /\ OneEach /\ [Next]_vars => OneEach'  BY OneStep
  <2>2. IInv => Order  BY DEF IInv
  <2>3. Spec => []Order  BY <2>2, ServerUsesReactor, ReactorInvariant, PTL
  <2> QED  BY <2>1, <2>3, OneInit, ServerTypes, ServerObjectsLive, PTL DEF Spec
<1>2. Spec => []Stopping  BY ServerStopping
<1>3. Spec => [](Types /\ Order)
  <2>1. IInv => Types /\ Order  BY DEF IInv
  <2> QED  BY <2>1, ServerUsesReactor, ReactorInvariant, PTL
<1>4. Init => Executed!Init
  <2> SUFFICES ASSUME Init PROVE Executed!Init
    OBVIOUS
  <2>1. op_queue_ = <<>> /\ private_op_queue = <<>> /\ completing = NoOp /\ stopped_ = FALSE
    BY DEF Init, ReactorInit, SchedulerInit
  <2>2. <<>> \in Seq(Ops) /\ ~In(<<>>, TaskOp)  BY DEF In
  <2>3. Queued = <<>>  BY <2>1, <2>2, QueuedWithout, WithoutIs
  <2> QED  BY <2>1, <2>3 DEF Executed!Init
<1>5. ASSUME SInv, Types, Order, Stopping, OneEach, Types', HeldOnce', [Next]_vars
      PROVE  [Executed!Next]_(Executed!vars)
  <2>1. [ReactorNext]_reactorVars  BY <1>5, NextUses
  <2>2. Once(op_queue_, {})  BY <1>5, QueuedApart DEF OneEach
  <2>3. Once(Queued' \o private_op_queue', {})  BY <1>5 DEF HeldOnce
  <2> QED  BY <1>5, <2>1, <2>2, <2>3, IdleHolds, ExecutorStep
<1>6. Types /\ Order /\ OneEach => HeldOnce  BY QueuedApart DEF OneEach, HeldOnce
<1> QED  BY <1>1, <1>2, <1>3, <1>4, <1>5, <1>6, ServerTypes, PTL DEF Spec, ExecutorSpec, Executed!Spec
=============================================================================
