---------------------- MODULE XURecursiveMutexProofs ----------------------
(***************************************************************************)
(* Theorems about XURecursiveMutex, about the condition it waits for       *)
(* (Cond!, the XUMutexCondition of XUMutex) and about the two together,    *)
(* for any number of threads and any depth of nesting.  MutualExclusion    *)
(* and OwnerNeverWaits are inductive once the owner is tied to the calls   *)
(* to be undone (Owner); NoLostWakeup needs that m_waiters is right, since *)
(* unlock() signals only if it is not zero, and who it is that waits for   *)
(* m_cond (Queue).                                                         *)
(***************************************************************************)
EXTENDS XUMutex, FiniteSetTheorems, TLAPS

\* The lock is free, or it belongs to a thread that runs and has that many calls to undo.
Owner ==
    /\ m_ownerNestingLevel = 0 => m_ownerThreadId = NoThread
    /\ m_ownerNestingLevel > 0 =>
         /\ m_ownerThreadId \in Threads
         /\ depth[m_ownerThreadId] = m_ownerNestingLevel
         /\ pc[m_ownerThreadId] = "run"
    /\ \A t \in Threads : t # m_ownerThreadId => depth[t] = 0

\* A thread inside lock() may nest once more; those in m_cond->wait are m_cond's waiters.
Queue ==
    /\ \A t \in Threads : pc[t] # "run" => depth[t] < MaxNesting
    /\ waiting = {t \in Threads : pc[t] = "wait"}

IInv == TypeOK /\ Owner /\ Queue /\ NoLostWakeup /\ WaitersCounted

Inside == {t \in Threads : pc[t] # "run"}

\* Counting threads: what Cardinality says of sets of them.
LEMMA CountThreads ==
  ASSUME NEW S \in SUBSET Threads
  PROVE  /\ Cardinality(S) \in Nat
         /\ Cardinality(S) = 0 <=> S = {}
         /\ \A t \in Threads \ S : Cardinality(S \cup {t}) = Cardinality(S) + 1
         /\ \A t \in S : Cardinality(S \ {t}) = Cardinality(S) - 1
<1>1. IsFiniteSet(S)  BY MutexAssumption, FS_Subset
<1>2. Cardinality(S) \in Nat  BY <1>1, FS_CardinalityType
<1>3. Cardinality(S) = 0 <=> S = {}  BY <1>1, FS_EmptySet
<1>4. \A t \in Threads \ S : Cardinality(S \cup {t}) = Cardinality(S) + 1
  BY <1>1, FS_AddElement
<1>5. \A t \in S : Cardinality(S \ {t}) = Cardinality(S) - 1
  BY <1>1, FS_RemoveElement
<1> QED  BY <1>2, <1>3, <1>4, <1>5

LEMMA Count ==
  ASSUME TypeOK, WaitersCounted
  PROVE  m_waiters = Cardinality(Inside) /\ Inside \in SUBSET Threads
  BY DEF WaitersCounted, Inside

LEMMA InitIInv == Init => IInv
<1> SUFFICES ASSUME Init PROVE IInv  OBVIOUS
<1>1. Inside = {} /\ {} \in SUBSET Threads  BY DEF Init, Inside
<1>2. WaitersCounted  BY <1>1, CountThreads DEF Init, WaitersCounted, Inside
<1>3. waiting = {} /\ signalled = FALSE  BY DEF Init, Condition!Init
<1>4. TypeOK
  <2>1. 0 \in 0..MaxNesting  BY MutexAssumption
  <2>2. depth \in [Threads -> 0..MaxNesting]  BY <2>1 DEF Init
  <2> QED  BY <1>3, <2>2 DEF Init, TypeOK
<1>5. Owner /\ Queue /\ NoLostWakeup
  BY <1>3 DEF Init, Owner, Queue, NoLostWakeup
<1> QED  BY <1>2, <1>4, <1>5 DEF IInv
-----------------------------------------------------------------------------
\* Taking the lock, by the owner or when it is free.
LEMMA TakeInv ==
  ASSUME IInv, NEW t \in Threads, ~Busy(t), depth[t] < MaxNesting, Take(t),
         waiting' = waiting, signalled' = signalled,
         pc[t] \in {"run", "relock"},
         m_waiters' = IF pc[t] = "run" THEN m_waiters ELSE m_waiters - 1
  PROVE  IInv'
<1> USE DEF IInv
<1>1. /\ m_ownerNestingLevel' = m_ownerNestingLevel + 1 /\ m_ownerNestingLevel \in Nat
      /\ m_ownerThreadId' = t
      /\ pc' = [pc EXCEPT ![t] = "run"] /\ depth' = [depth EXCEPT ![t] = @ + 1]
  BY DEF Take, TypeOK
<1>2. depth[t] = m_ownerNestingLevel /\ \A u \in Threads : u # t => depth[u] = 0
  BY MutexAssumption DEF Busy, Owner, TypeOK
<1>3. depth' \in [Threads -> 0..MaxNesting]
  BY <1>1, MutexAssumption DEF TypeOK
<1>4. Owner'  BY <1>1, <1>2 DEF Owner, TypeOK
<1>5. Queue'  BY <1>1 DEF Queue, TypeOK
<1>6. m_waiters = Cardinality(Inside) /\ Inside \in SUBSET Threads  BY Count
<1>7. m_waiters' = Cardinality(Inside') /\ m_waiters' \in Nat
  <2>1. CASE pc[t] = "run"
    <3>1. Inside' = Inside  BY <1>1, <2>1 DEF Inside, TypeOK
    <3> QED  BY <1>6, <2>1, <3>1 DEF TypeOK
  <2>2. CASE pc[t] = "relock"
    <3>1. Inside' = Inside \ {t} /\ t \in Inside  BY <1>1, <2>2 DEF Inside, TypeOK
    <3>2. Inside \ {t} \in SUBSET Threads  BY <1>6
    <3> QED  BY <1>6, <2>2, <3>1, <3>2, CountThreads
  <2> QED  BY <2>1, <2>2
<1>8. WaitersCounted'  BY <1>7 DEF WaitersCounted, Inside
<1>9. TypeOK'  BY <1>1, <1>3, <1>7 DEF TypeOK
<1>10. NoLostWakeup'  BY <1>1 DEF NoLostWakeup
<1> QED  BY <1>4, <1>5, <1>8, <1>9, <1>10

\* Beginning to wait, or to wait again, for another thread.
LEMMA AwaitInv ==
  ASSUME IInv, NEW t \in Threads, Busy(t), depth[t] < MaxNesting, Await(t),
         pc[t] \in {"run", "relock"},
         m_waiters' = IF pc[t] = "run" THEN m_waiters + 1 ELSE m_waiters
  PROVE  IInv'
<1> USE DEF IInv
<1>1. /\ m_ownerNestingLevel' = m_ownerNestingLevel /\ m_ownerThreadId' = m_ownerThreadId
      /\ pc' = [pc EXCEPT ![t] = "wait"] /\ depth' = depth
      /\ waiting' = waiting \cup {t} /\ signalled' = signalled
  BY DEF Await, Condition!Arrive
<1>2. m_ownerNestingLevel > 0 /\ m_ownerThreadId # t  BY DEF Busy
<1>3. Owner'  BY <1>1, <1>2 DEF Owner, TypeOK
<1>4. Queue'  BY <1>1 DEF Queue, TypeOK
<1>5. m_waiters = Cardinality(Inside) /\ Inside \in SUBSET Threads  BY Count
<1>6. m_waiters' = Cardinality(Inside')
  <2>1. CASE pc[t] = "run"
    <3>1. Inside' = Inside \cup {t} /\ t \notin Inside  BY <1>1, <2>1 DEF Inside, TypeOK
    <3> QED  BY <1>5, <2>1, <3>1, CountThreads
  <2>2. CASE pc[t] = "relock"
    <3>1. Inside' = Inside  BY <1>1, <2>2 DEF Inside, TypeOK
    <3> QED  BY <1>5, <2>2, <3>1
  <2> QED  BY <2>1, <2>2
<1>7. WaitersCounted'  BY <1>6 DEF WaitersCounted, Inside
<1>8. TypeOK'  BY <1>1 DEF TypeOK
<1>9. NoLostWakeup'  BY <1>1, <1>2 DEF NoLostWakeup
<1> QED  BY <1>3, <1>4, <1>7, <1>8, <1>9

LEMMA WaitEndsInv ==
  ASSUME IInv, NEW t \in Threads, WaitEnds(t)
  PROVE  IInv'
<1> USE DEF IInv
<1>1. /\ m_ownerNestingLevel' = m_ownerNestingLevel /\ m_ownerThreadId' = m_ownerThreadId
      /\ pc[t] = "wait" /\ pc' = [pc EXCEPT ![t] = "relock"] /\ depth' = depth
      /\ waiting' = waiting \ {t} /\ signalled' = FALSE /\ m_waiters' = m_waiters
  BY DEF WaitEnds, Condition!Pass
<1>2. Owner'  BY <1>1 DEF Owner, TypeOK
<1>3. Queue'  BY <1>1 DEF Queue, TypeOK
<1>4. Inside' = Inside  BY <1>1 DEF Inside, TypeOK
<1>5. WaitersCounted'  BY <1>1, <1>4 DEF WaitersCounted, Inside
<1>6. TypeOK'  BY <1>1 DEF TypeOK
<1>7. NoLostWakeup'
  <2>1. pc'[t] = "relock"  BY <1>1 DEF TypeOK
  <2> QED  BY <2>1 DEF NoLostWakeup
<1> QED  BY <1>2, <1>3, <1>5, <1>6, <1>7

LEMMA UnlockInv ==
  ASSUME IInv, NEW t \in Threads, Unlock(t)
  PROVE  IInv'
<1> USE DEF IInv
<1>1. /\ pc[t] = "run" /\ m_ownerNestingLevel > 0 /\ m_ownerThreadId = t
      /\ m_ownerNestingLevel' = m_ownerNestingLevel - 1 /\ m_ownerNestingLevel \in Nat
      /\ depth' = [depth EXCEPT ![t] = @ - 1] /\ pc' = pc /\ m_waiters' = m_waiters
  BY DEF Unlock, TypeOK
<1>2. depth[t] = m_ownerNestingLevel /\ \A u \in Threads : u # t => depth[u] = 0
  BY <1>1 DEF Owner
<1>3. /\ waiting' = waiting
      /\ signalled' \in BOOLEAN
      /\ m_ownerNestingLevel' = 0 => m_ownerThreadId' = NoThread
      /\ m_ownerNestingLevel' > 0 => m_ownerThreadId' = t /\ signalled' = signalled
      /\ m_ownerNestingLevel' = 0 /\ m_waiters > 0 => signalled' = TRUE
  <2>1. CASE m_ownerNestingLevel' = 0 /\ m_waiters > 0
    <3>1. m_ownerThreadId' = NoThread /\ Condition!Signal
      BY <2>1 DEF Unlock
    <3>2. waiting' = waiting /\ signalled' = TRUE
      BY <3>1 DEF Condition!Signal
    <3> QED  BY <2>1, <3>1, <3>2
  <2>2. CASE m_ownerNestingLevel' = 0 /\ ~(m_waiters > 0)
    BY <1>1, <2>2 DEF Unlock, cond, TypeOK
  <2>3. CASE m_ownerNestingLevel' # 0
    BY <1>1, <2>3 DEF Unlock, cond, TypeOK
  <2> QED  BY <2>1, <2>2, <2>3
<1>4. depth' \in [Threads -> 0..MaxNesting]
  BY <1>1, <1>2, MutexAssumption DEF TypeOK
<1>5. Owner'
  <2>1. CASE m_ownerNestingLevel' = 0
    BY <1>1, <1>2, <1>3, <2>1 DEF Owner, TypeOK
  <2>2. CASE m_ownerNestingLevel' # 0
    <3>1. m_ownerNestingLevel' > 0  BY <1>1, <2>2
    <3> QED  BY <1>1, <1>2, <1>3, <3>1 DEF Owner, TypeOK
  <2> QED  BY <2>1, <2>2
<1>6. Queue'
  <2>1. \A u \in Threads : pc[u] # "run" => depth'[u] = depth[u]  BY <1>1 DEF TypeOK
  <2> QED  BY <1>1, <1>3, <2>1 DEF Queue
<1>7. WaitersCounted'  BY <1>1 DEF WaitersCounted
<1>8. m_ownerThreadId' \in Threads \cup {NoThread}  BY <1>1, <1>3
<1>9. TypeOK'  BY <1>1, <1>3, <1>4, <1>8 DEF TypeOK
<1>10. NoLostWakeup'
  <2> SUFFICES ASSUME m_ownerNestingLevel' = 0, waiting' # {} PROVE signalled'
    BY DEF NoLostWakeup
  <2>1. Inside # {}  BY <1>3 DEF Queue, Inside
  <2>2. m_waiters = Cardinality(Inside) /\ Inside \in SUBSET Threads  BY Count
  <2>3. m_waiters # 0 /\ m_waiters \in Nat  BY <2>1, <2>2, CountThreads
  <2> QED  BY <1>3, <2>3
<1> QED  BY <1>5, <1>6, <1>7, <1>9, <1>10

LEMMA NextInv ==
  ASSUME IInv, [Next]_vars
  PROVE  IInv'
<1>1. ASSUME NEW t \in Threads, Lock(t) PROVE IInv'
  <2>1. CASE Busy(t)  BY <1>1, <2>1, AwaitInv DEF Lock
  <2>2. CASE ~Busy(t)  BY <1>1, <2>2, TakeInv DEF Lock, cond
  <2> QED  BY <2>1, <2>2
<1>2. ASSUME NEW t \in Threads, Relock(t) PROVE IInv'
  <2>0. pc[t] = "relock" /\ depth[t] < MaxNesting  BY <1>2 DEF Relock, IInv, Queue
  <2>1. CASE Busy(t)  BY <1>2, <2>0, <2>1, AwaitInv DEF Relock
  <2>2. CASE ~Busy(t)  BY <1>2, <2>0, <2>2, TakeInv DEF Relock, cond
  <2> QED  BY <2>1, <2>2
<1>3. ASSUME NEW t \in Threads, WaitEnds(t) PROVE IInv'  BY <1>3, WaitEndsInv
<1>4. ASSUME NEW t \in Threads, Unlock(t) PROVE IInv'  BY <1>4, UnlockInv
<1>5. CASE UNCHANGED vars
  BY <1>5 DEF vars, cond, IInv, TypeOK, Owner, Queue, NoLostWakeup, WaitersCounted
<1> QED  BY <1>1, <1>2, <1>3, <1>4, <1>5 DEF Next

LEMMA Inductive == Spec => []IInv
<1>1. IInv /\ [Next]_vars => IInv'  BY NextInv
<1> QED  BY <1>1, InitIInv, PTL DEF Spec

\* lock() and unlock() exclude threads from each other however they nest.
THEOREM Excludes == Spec => []MutualExclusion
<1>1. IInv => MutualExclusion
  <2> SUFFICES ASSUME IInv PROVE MutualExclusion  OBVIOUS
  <2>1. \A t \in Threads : depth[t] > 0 => m_ownerThreadId = t /\ m_ownerNestingLevel = depth[t]
    BY MutexAssumption DEF IInv, TypeOK, Owner
  <2> QED  BY <2>1 DEF MutualExclusion
<1> QED  BY <1>1, Inductive, PTL

\* The owner never waits for itself (lock()'s test of m_ownerThreadId).
THEOREM Recursive == Spec => []OwnerNeverWaits
<1>1. IInv => OwnerNeverWaits
  BY MutexAssumption DEF IInv, TypeOK, Owner, OwnerNeverWaits
<1> QED  BY <1>1, Inductive, PTL

\* A free lock that is waited for has been signalled (unlock()'s test of m_waiters).
THEOREM WakeupsKept == Spec => []NoLostWakeup
<1>1. IInv => NoLostWakeup  BY DEF IInv
<1> QED  BY <1>1, Inductive, PTL
-----------------------------------------------------------------------------
(* The condition the lock is built on, by itself: Cond is XUMutexCondition, and
   signalled whether it owes a signal. *)

\* Its three properties, and the meaning of m_signal.
CondInv == Cond!TypeOK /\ Cond!WaitersCounted /\ Cond!NoLostWakeup /\ signalled = m_signal

CondCounted == {t \in Threads : at[t] \in {"asleep", "woken"}}

\* The condition counts as this module does.
LEMMA SameCardinality == \A S : Cond!Cardinality(S) = Cardinality(S)
  BY DEF Cond!Cardinality, Cardinality

LEMMA CondInit == Cond!Init => CondInv
<1> SUFFICES ASSUME Cond!Init PROVE CondInv  OBVIOUS
<1>1. CondCounted = {} /\ {} \in SUBSET Threads  BY DEF Cond!Init, CondCounted
<1>2. Cond!WaitersCounted  BY <1>1, CountThreads, SameCardinality DEF Cond!Init, Cond!WaitersCounted, CondCounted
<1> QED  BY <1>2 DEF Cond!Init, CondInv, Cond!TypeOK, Cond!NoLostWakeup
-----------------------------------------------------------------------------
LEMMA CondEnterInv ==
  ASSUME CondInv, NEW t \in Threads, Cond!Enter(t)
  PROVE  CondInv'
<1> USE DEF CondInv, Cond!TypeOK, Cond!Enter
<1>1. Cond!TypeOK' /\ signalled' = m_signal'  OBVIOUS
<1>2. CondCounted' = CondCounted  BY DEF CondCounted
<1>3. Cond!WaitersCounted'  BY <1>2, SameCardinality DEF Cond!WaitersCounted, CondCounted
<1>4. t \in Cond!Awake'  BY DEF Cond!Awake
<1> QED  BY <1>1, <1>3, <1>4 DEF Cond!NoLostWakeup

LEMMA CondSleepInv ==
  ASSUME CondInv, NEW t \in Threads, at[t] \in {"enter", "woken"}, ~m_signal, Cond!Sleep(t)
  PROVE  CondInv'
<1> USE DEF CondInv, Cond!TypeOK, Cond!Sleep
<1>1. Cond!TypeOK' /\ signalled' = m_signal'  OBVIOUS
<1>2. cond_waiters = Cardinality(CondCounted) /\ CondCounted \in SUBSET Threads
  BY SameCardinality DEF Cond!WaitersCounted, CondCounted
<1>3. CASE at[t] = "woken"
  <2>1. CondCounted' = CondCounted  BY <1>3 DEF CondCounted
  <2> QED  BY <1>1, <1>2, <1>3, <2>1, SameCardinality DEF Cond!WaitersCounted, CondCounted, Cond!NoLostWakeup
<1>4. CASE at[t] = "enter"
  <2>1. CondCounted' = CondCounted \cup {t} /\ t \notin CondCounted  BY <1>4 DEF CondCounted
  <2>2. cond_waiters' = Cardinality(CondCounted')  BY <1>2, <1>4, <2>1, CountThreads
  <2> QED  BY <1>1, <2>2, SameCardinality DEF Cond!WaitersCounted, CondCounted, Cond!NoLostWakeup
<1> QED  BY <1>3, <1>4

LEMMA CondLeaveInv ==
  ASSUME CondInv, NEW t \in Threads, at[t] \in {"enter", "woken"}, Cond!Leave(t)
  PROVE  CondInv'
<1> USE DEF CondInv, Cond!TypeOK, Cond!Leave
<1>1. cond_waiters = Cardinality(CondCounted) /\ CondCounted \in SUBSET Threads
  BY SameCardinality DEF Cond!WaitersCounted, CondCounted
<1>2. cond_waiters' = Cardinality(CondCounted')
  <2>1. CASE at[t] = "woken"
    <3>1. CondCounted' = CondCounted \ {t} /\ t \in CondCounted  BY <2>1 DEF CondCounted
    <3> QED  BY <1>1, <2>1, <3>1, CountThreads
  <2>2. CASE at[t] = "enter"
    <3>1. CondCounted' = CondCounted  BY <2>2 DEF CondCounted
    <3> QED  BY <1>1, <2>2, <3>1
  <2> QED  BY <2>1, <2>2
<1>3. Cond!WaitersCounted'  BY <1>2, SameCardinality DEF Cond!WaitersCounted, CondCounted
<1>4. cond_waiters' \in Nat
  <2>1. CondCounted' \in SUBSET Threads  BY DEF CondCounted
  <2> QED  BY <1>2, <2>1, CountThreads
<1>5. Cond!TypeOK' /\ signalled' = m_signal' /\ Cond!NoLostWakeup'  BY <1>4 DEF Cond!NoLostWakeup
<1> QED  BY <1>3, <1>5

\* Waking keeps the count: it is about those asleep and those woken alike.
LEMMA CondWakeCount ==
  ASSUME Cond!TypeOK, NEW some \in SUBSET Cond!Sleepers, Cond!Wake(some)
  PROVE  /\ CondCounted' = CondCounted /\ Cond!Waiting' = Cond!Waiting
         /\ at' \in [Threads -> {"out", "enter", "asleep", "woken"}]
         /\ some \cup Cond!Awake \subseteq Cond!Awake'
  BY DEF Cond!TypeOK, Cond!Wake, Cond!Sleepers, CondCounted, Cond!Waiting, Cond!Awake

LEMMA CondSignalInv ==
  ASSUME CondInv, Cond!Signal
  PROVE  CondInv'
<1> USE DEF CondInv
<1>1. m_signal' = TRUE /\ signalled' = TRUE /\ cond_waiters' = cond_waiters  BY DEF Cond!Signal
<1>2. cond_waiters = Cardinality(CondCounted) /\ CondCounted \in SUBSET Threads
  BY SameCardinality DEF Cond!WaitersCounted, CondCounted
<1>3. CASE cond_waiters > 0
  <2>1. PICK some \in SUBSET Cond!Sleepers : (some = {} => Cond!Sleepers = {}) /\ Cond!Wake(some)
    BY <1>3 DEF Cond!Signal
  <2>2. /\ CondCounted' = CondCounted /\ Cond!Waiting' = Cond!Waiting
        /\ at' \in [Threads -> {"out", "enter", "asleep", "woken"}]
        /\ some \cup Cond!Awake \subseteq Cond!Awake'
    BY <2>1, CondWakeCount
  <2>3. Cond!TypeOK' /\ Cond!WaitersCounted'
    BY <1>1, <1>2, <2>2, SameCardinality DEF Cond!TypeOK, Cond!WaitersCounted, CondCounted
  <2>4. Cond!NoLostWakeup'
    <3>1. CASE some = {}
      <4>1. Cond!Waiting' = Cond!Awake  BY <2>1, <2>2, <3>1 DEF Cond!Waiting
      <4> QED  BY <2>2, <4>1 DEF Cond!NoLostWakeup
    <3>2. CASE some # {}
      BY <2>2, <3>2 DEF Cond!NoLostWakeup
    <3> QED  BY <3>1, <3>2
  <2> QED  BY <1>1, <2>3, <2>4
<1>4. CASE ~(cond_waiters > 0)
  <2>1. CondCounted = {}
    <3>1. cond_waiters = 0  BY <1>4 DEF Cond!TypeOK
    <3> QED  BY <1>2, <3>1, CountThreads
  <2>2. Cond!Sleepers = {}  BY <2>1 DEF Cond!Sleepers, CondCounted
  <2>3. at' = at  BY <1>4 DEF Cond!Signal
  <2>4. Cond!TypeOK' /\ Cond!WaitersCounted'  BY <1>1, <2>3 DEF Cond!TypeOK, Cond!WaitersCounted
  <2>5. Cond!NoLostWakeup'  BY <2>2, <2>3 DEF Cond!NoLostWakeup, Cond!Waiting, Cond!Sleepers, Cond!Awake
  <2> QED  BY <1>1, <2>4, <2>5
<1> QED  BY <1>3, <1>4

LEMMA CondSpuriousInv ==
  ASSUME CondInv, NEW t \in Threads, Cond!Spurious(t)
  PROVE  CondInv'
<1> USE DEF CondInv
<1>1. {t} \in SUBSET Cond!Sleepers /\ Cond!Wake({t})  BY DEF Cond!Spurious, Cond!Sleepers
<1>2. /\ CondCounted' = CondCounted /\ at' \in [Threads -> {"out", "enter", "asleep", "woken"}]
      /\ {t} \cup Cond!Awake \subseteq Cond!Awake'
  BY <1>1, CondWakeCount
<1>3. m_signal' = m_signal /\ cond_waiters' = cond_waiters /\ signalled' = signalled  BY DEF Cond!Spurious
<1> QED  BY <1>2, <1>3, SameCardinality DEF Cond!TypeOK, Cond!WaitersCounted, CondCounted, Cond!NoLostWakeup

LEMMA CondNextInv ==
  ASSUME CondInv, [Cond!Next]_(Cond!vars)
  PROVE  CondInv'
<1>1. ASSUME NEW t \in Threads, Cond!Enter(t) PROVE CondInv'  BY <1>1, CondEnterInv
<1>2. ASSUME NEW t \in Threads, Cond!Test(t) PROVE CondInv'
  <2>1. CASE m_signal  BY <1>2, <2>1, CondLeaveInv DEF Cond!Test
  <2>2. CASE ~m_signal  BY <1>2, <2>2, CondSleepInv DEF Cond!Test
  <2> QED  BY <2>1, <2>2
<1>3. ASSUME NEW t \in Threads, Cond!Spurious(t) PROVE CondInv'  BY <1>3, CondSpuriousInv
<1>4. CASE Cond!Signal  BY <1>4, CondSignalInv
<1>5. CASE UNCHANGED Cond!vars
  BY <1>5 DEF Cond!vars, CondInv, Cond!TypeOK, Cond!WaitersCounted, Cond!NoLostWakeup, Cond!Waiting, Cond!Sleepers, Cond!Awake
<1> QED  BY <1>1, <1>2, <1>3, <1>4, <1>5 DEF Cond!Next

LEMMA CondInductive == Cond!Spec => []CondInv
<1>1. CondInv /\ [Cond!Next]_(Cond!vars) => CondInv'  BY CondNextInv
<1> QED  BY <1>1, CondInit, PTL DEF Cond!Spec

\* cond_waiters counts the threads in pthread_cond_wait (XUMutexConditionImpl::wait).
THEOREM CondWaitersCounted == Cond!Spec => []Cond!WaitersCounted
<1>1. CondInv => Cond!WaitersCounted  BY DEF CondInv
<1> QED  BY <1>1, CondInductive, PTL

\* While a signal is there to be used, somebody who waits is awake.
THEOREM CondWakeupsKept == Cond!Spec => []Cond!NoLostWakeup
<1>1. CondInv => Cond!NoLostWakeup  BY DEF CondInv
<1> QED  BY <1>1, CondInductive, PTL
-----------------------------------------------------------------------------
LEMMA CondStepRefines ==
  ASSUME CondInv, [Cond!Next]_(Cond!vars)
  PROVE  [Cond!Condition!Next]_(Cond!Condition!vars)
<1> USE DEF CondInv
<1> DEFINE Stays == signalled' = signalled /\ Cond!Waiting' = Cond!Waiting
<1>0. Stays => [Cond!Condition!Next]_(Cond!Condition!vars)  BY DEF Cond!Condition!vars
<1>1. ASSUME NEW t \in Threads, Cond!Enter(t) PROVE [Cond!Condition!Next]_(Cond!Condition!vars)
  <2>1. Cond!Waiting' = Cond!Waiting \cup {t} /\ signalled' = signalled
    BY <1>1 DEF Cond!Enter, Cond!TypeOK, Cond!Waiting, Cond!Sleepers, Cond!Awake
  <2>2. Cond!Condition!Arrive(t)  BY <2>1 DEF Cond!Condition!Arrive
  <2> QED  BY <2>2 DEF Cond!Condition!Next
<1>2. ASSUME NEW t \in Threads, Cond!Test(t) PROVE [Cond!Condition!Next]_(Cond!Condition!vars)
  <2>1. CASE m_signal
    <3>1. /\ signalled = TRUE /\ signalled' = FALSE /\ t \in Cond!Waiting /\ Cond!Waiting' = Cond!Waiting \ {t}
      BY <1>2, <2>1 DEF Cond!Test, Cond!Leave, Cond!TypeOK, Cond!Waiting, Cond!Sleepers, Cond!Awake
    <3>2. Cond!Condition!Pass(t)  BY <3>1 DEF Cond!Condition!Pass
    <3> QED  BY <3>2 DEF Cond!Condition!Next
  <2>2. CASE ~m_signal
    <3>1. Stays  BY <1>2, <2>2 DEF Cond!Test, Cond!Sleep, Cond!TypeOK, Cond!Waiting, Cond!Sleepers, Cond!Awake
    <3> QED  BY <1>0, <3>1
  <2> QED  BY <2>1, <2>2
<1>3. ASSUME NEW t \in Threads, Cond!Spurious(t) PROVE [Cond!Condition!Next]_(Cond!Condition!vars)
  <2>1. {t} \in SUBSET Cond!Sleepers /\ Cond!Wake({t})  BY <1>3 DEF Cond!Spurious, Cond!Sleepers
  <2>2. Stays  BY <1>3, <2>1, CondWakeCount DEF Cond!Spurious
  <2> QED  BY <1>0, <2>2
<1>4. ASSUME Cond!Signal PROVE [Cond!Condition!Next]_(Cond!Condition!vars)
  <2>1. Cond!Waiting' = Cond!Waiting
    <3>1. CASE cond_waiters > 0
      <4>1. PICK some \in SUBSET Cond!Sleepers : Cond!Wake(some)  BY <1>4, <3>1 DEF Cond!Signal
      <4> QED  BY <4>1, CondWakeCount
    <3>2. CASE ~(cond_waiters > 0)
      BY <1>4, <3>2 DEF Cond!Signal, Cond!Waiting, Cond!Sleepers, Cond!Awake
    <3> QED  BY <3>1, <3>2
  <2>2. Cond!Condition!Signal  BY <1>4, <2>1 DEF Cond!Signal, Cond!Condition!Signal
  <2> QED  BY <2>2 DEF Cond!Condition!Next
<1>5. CASE UNCHANGED Cond!vars
  <2>1. Stays  BY <1>5 DEF Cond!vars, Cond!Waiting, Cond!Sleepers, Cond!Awake
  <2> QED  BY <1>0, <2>1
<1> QED  BY <1>1, <1>2, <1>3, <1>4, <1>5 DEF Cond!Next

\* XUMutexCondition on pthreads does what the other modules take it for: it remembers one
\* signal until one wait() has used it (the safety part of ConditionSpec).
THEOREM CondImplementsSignal == Cond!Spec => Cond!Condition!Spec
<1>1. Cond!Init => Cond!Condition!Init
  BY DEF Cond!Init, Cond!Condition!Init, Cond!Waiting, Cond!Sleepers, Cond!Awake
<1>2. CondInv /\ [Cond!Next]_(Cond!vars) => [Cond!Condition!Next]_(Cond!Condition!vars)
  BY CondStepRefines
<1> QED  BY <1>1, <1>2, CondInductive, PTL DEF Cond!Spec, Cond!Condition!Spec
-----------------------------------------------------------------------------
(* The lock on the condition it is built on (XUMutex) is this lock.        *)

\* Who is in m_cond->wait, and what signals it knows of.
Joint ==
    /\ at \in [Threads -> {"out", "enter", "asleep", "woken"}]
    /\ pc \in [Threads -> {"run", "wait", "relock"}]
    /\ \A t \in Threads : pc[t] = "wait" <=> at[t] # "out"
    /\ waiting = {t \in Threads : pc[t] = "wait"}
    /\ m_signal = signalled

Level == m_ownerNestingLevel \in Nat

LEMMA LevelStep ==
  ASSUME Level, [Next]_vars
  PROVE  Level'
  BY DEF Level, Next, Lock, WaitEnds, Relock, Unlock, Take, Await, vars

LEMMA JointWake ==
  ASSUME Joint, NEW some \in SUBSET Cond!Sleepers, Cond!Wake(some), pc' = pc
  PROVE  /\ at' \in [Threads -> {"out", "enter", "asleep", "woken"}]
         /\ \A t \in Threads : pc'[t] = "wait" <=> at'[t] # "out"
  BY DEF Joint, Cond!Wake, Cond!Sleepers

LEMMA CallsWaitJoint ==
  ASSUME Joint, NEW t \in Threads, CallsWait(t), Lock(t) \/ Relock(t)
  PROVE  Joint'
<1>1. CASE Busy(t)
  <2>1. /\ pc' = [pc EXCEPT ![t] = "wait"] /\ waiting' = waiting \cup {t} /\ signalled' = signalled
    BY <1>1 DEF Lock, Relock, Await, Condition!Arrive
  <2>2. at[t] = "out" /\ at' = [at EXCEPT ![t] = "enter"] /\ m_signal' = m_signal
    BY <1>1 DEF CallsWait, Cond!Enter
  <2> QED  BY <2>1, <2>2 DEF Joint
<1>2. CASE ~Busy(t)
  <2>1. pc' = [pc EXCEPT ![t] = "run"] /\ pc[t] # "wait" /\ UNCHANGED <<waiting, signalled>>
    BY <1>2 DEF Lock, Relock, Take, cond
  <2>2. UNCHANGED <<at, m_signal>>  BY <1>2 DEF CallsWait, condVars
  <2> QED  BY <2>1, <2>2 DEF Joint
<1> QED  BY <1>1, <1>2

LEMMA BuiltStep ==
  ASSUME Joint, Level, [BuiltNext]_builtVars
  PROVE  Joint' /\ [Next]_vars
<1>1. ASSUME NEW t \in Threads, BuiltLock(t) PROVE Joint' /\ Next
  BY <1>1, CallsWaitJoint DEF BuiltLock, Next
<1>2. ASSUME NEW t \in Threads, BuiltRelock(t) PROVE Joint' /\ Next
  BY <1>2, CallsWaitJoint DEF BuiltRelock, Next
<1>3. ASSUME NEW t \in Threads, InWait(t) PROVE Joint' /\ [Next]_vars
  <2>1. CASE m_signal
    <3>1. /\ m_signal' = FALSE /\ signalled' = FALSE /\ at' = [at EXCEPT ![t] = "out"]
          /\ pc' = [pc EXCEPT ![t] = "relock"] /\ waiting' = waiting \ {t}
          /\ at[t] \in {"enter", "woken"}
      BY <1>3, <2>1 DEF InWait, Cond!Leave
    <3>2. Joint'  BY <3>1 DEF Joint
    <3>3. pc[t] = "wait" /\ t \in waiting /\ signalled  BY <2>1, <3>1 DEF Joint
    <3>4. WaitEnds(t)  BY <1>3, <3>1, <3>3 DEF InWait, WaitEnds, Condition!Pass
    <3> QED  BY <3>2, <3>4 DEF Next
  <2>2. CASE ~m_signal
    <3>1. /\ UNCHANGED <<m_signal, signalled, pc, waiting>> /\ at' = [at EXCEPT ![t] = "asleep"]
          /\ at[t] \in {"enter", "woken"}
      BY <1>3, <2>2 DEF InWait, Cond!Sleep
    <3>2. Joint'  BY <3>1 DEF Joint
    <3>3. UNCHANGED vars  BY <1>3, <3>1 DEF InWait, vars, cond
    <3> QED  BY <3>2, <3>3
  <2> QED  BY <2>1, <2>2
<1>4. ASSUME NEW t \in Threads, SpuriousWakeup(t) PROVE Joint' /\ [Next]_vars
  <2>1. {t} \in SUBSET Cond!Sleepers /\ Cond!Wake({t})
    BY <1>4 DEF SpuriousWakeup, Cond!Spurious, Cond!Sleepers
  <2>2. UNCHANGED <<vars, m_signal>>  BY <1>4 DEF SpuriousWakeup, Cond!Spurious
  <2>3. UNCHANGED <<pc, waiting, signalled>>  BY <2>2 DEF vars, cond
  <2> QED  BY <2>1, <2>2, <2>3, JointWake DEF Joint
<1>5. ASSUME NEW t \in Threads, BuiltUnlock(t) PROVE Joint' /\ Next
  <2>1. pc' = pc /\ Unlock(t)  BY <1>5 DEF BuiltUnlock, Unlock
  <2>2. CASE m_ownerNestingLevel = 1 /\ m_waiters > 0
    <3>1. Cond!Signal  BY <1>5, <2>2 DEF BuiltUnlock
    <3>2. m_signal' = TRUE /\ signalled' = TRUE  BY <3>1 DEF Cond!Signal
    <3>3. waiting' = waiting  BY <2>1 DEF Unlock, Condition!Signal, cond
    <3>4. /\ at' \in [Threads -> {"out", "enter", "asleep", "woken"}]
          /\ \A u \in Threads : pc'[u] = "wait" <=> at'[u] # "out"
      <4>1. CASE cond_waiters > 0
        <5>1. PICK some \in SUBSET Cond!Sleepers : Cond!Wake(some)  BY <3>1, <4>1 DEF Cond!Signal
        <5> QED  BY <2>1, <5>1, JointWake
      <4>2. CASE ~(cond_waiters > 0)
        BY <2>1, <3>1, <4>2 DEF Cond!Signal, Joint
      <4> QED  BY <4>1, <4>2
    <3> QED  BY <2>1, <3>2, <3>3, <3>4 DEF Joint, Next
  <2>3. CASE ~(m_ownerNestingLevel = 1 /\ m_waiters > 0)
    <3>1. UNCHANGED condVars  BY <1>5, <2>3 DEF BuiltUnlock
    <3>2. UNCHANGED <<signalled, waiting>>  BY <2>1, <2>3 DEF Unlock, Level, cond
    <3> QED  BY <2>1, <3>1, <3>2 DEF condVars, Joint, Next
  <2> QED  BY <2>2, <2>3
<1>6. CASE UNCHANGED builtVars
  BY <1>6 DEF builtVars, condVars, vars, cond, Joint
<1> QED  BY <1>1, <1>2, <1>3, <1>4, <1>5, <1>6 DEF BuiltNext

\* lock() and unlock() on an XUMutexCondition, with all that happens inside it, are the lock
\* the theorems above are about.
THEOREM BuiltImplements == BuiltSpec => Spec
<1>1. BuiltInit => Init /\ Joint /\ Level
  <2> SUFFICES ASSUME BuiltInit PROVE Init /\ Joint /\ Level  OBVIOUS
  <2>1. Init /\ Cond!Init  BY DEF BuiltInit
  <2>2. waiting = {} /\ signalled = FALSE  BY <2>1 DEF Init, Condition!Init
  <2>3. pc = [t \in Threads |-> "run"] /\ m_ownerNestingLevel = 0  BY <2>1 DEF Init
  <2>4. at = [t \in Threads |-> "out"] /\ m_signal = FALSE  BY <2>1 DEF Cond!Init
  <2> QED  BY <2>1, <2>2, <2>3, <2>4 DEF Joint, Level
<1>2. Joint /\ Level /\ [BuiltNext]_builtVars => Joint' /\ Level' /\ [Next]_vars
  BY BuiltStep, LevelStep
<1> QED  BY <1>1, <1>2, PTL DEF BuiltSpec, Spec

\* lock() excludes whatever pthreads does to those who wait.
THEOREM BuiltExcludes == BuiltSpec => []MutualExclusion
  BY BuiltImplements, Excludes, PTL

\* Every step of the lock is one of its condition's, or none that the condition sees.
LEMMA BuiltUsesCondition ==
  ASSUME Level, [BuiltNext]_builtVars
  PROVE  [Cond!Next]_(Cond!vars)
<1> DEFINE Stays == UNCHANGED condVars /\ signalled' = signalled
<1>0. Stays => UNCHANGED Cond!vars  BY DEF condVars, Cond!vars
<1>1. ASSUME NEW t \in Threads, BuiltLock(t) \/ BuiltRelock(t) PROVE [Cond!Next]_(Cond!vars)
  <2>1. CallsWait(t) /\ (Lock(t) \/ Relock(t))  BY <1>1 DEF BuiltLock, BuiltRelock
  <2>2. CASE Busy(t)
    <3>1. Cond!Enter(t)  BY <2>1, <2>2 DEF CallsWait
    <3> QED  BY <3>1 DEF Cond!Next
  <2>3. CASE ~Busy(t)
    <3>1. Stays  BY <2>1, <2>3 DEF CallsWait, Lock, Relock, cond
    <3> QED  BY <3>1, <1>0
  <2> QED  BY <2>2, <2>3
<1>2. ASSUME NEW t \in Threads, InWait(t) PROVE [Cond!Next]_(Cond!vars)
  <2>1. Cond!Test(t)  BY <1>2 DEF InWait, Cond!Test
  <2> QED  BY <2>1 DEF Cond!Next
<1>3. ASSUME NEW t \in Threads, SpuriousWakeup(t) PROVE [Cond!Next]_(Cond!vars)
  BY <1>3 DEF SpuriousWakeup, Cond!Next
<1>4. ASSUME NEW t \in Threads, BuiltUnlock(t) PROVE [Cond!Next]_(Cond!vars)
  <2>1. Unlock(t)  BY <1>4 DEF BuiltUnlock
  <2>2. CASE m_ownerNestingLevel = 1 /\ m_waiters > 0
    <3>1. Cond!Signal  BY <1>4, <2>2 DEF BuiltUnlock
    <3> QED  BY <3>1 DEF Cond!Next
  <2>3. CASE ~(m_ownerNestingLevel = 1 /\ m_waiters > 0)
    <3>1. UNCHANGED condVars  BY <1>4, <2>3 DEF BuiltUnlock
    <3>2. signalled' = signalled  BY <2>1, <2>3 DEF Unlock, Level, cond
    <3> QED  BY <3>1, <3>2, <1>0
  <2> QED  BY <2>2, <2>3
<1>5. CASE UNCHANGED builtVars
  <2>1. Stays  BY <1>5 DEF builtVars, vars, cond
  <2> QED  BY <2>1, <1>0
<1> QED  BY <1>1, <1>2, <1>3, <1>4, <1>5 DEF BuiltNext

\* The condition in the lock, called as lock() and unlock() call it, remembers one signal until
\* one wait() has used it (the safety part of ConditionSpec).
THEOREM BuiltKeepsSignals == BuiltSpec => Cond!Condition!Spec
<1>1. BuiltInit => Cond!Init /\ Level  BY DEF BuiltInit, Init, Level
<1>2. Level /\ [BuiltNext]_builtVars => Level' /\ [Cond!Next]_(Cond!vars)
  <2> SUFFICES ASSUME Level, [BuiltNext]_builtVars PROVE Level'  BY BuiltUsesCondition
  <2>1. CASE UNCHANGED builtVars  BY <2>1 DEF builtVars, vars, Level
  <2>2. ASSUME NEW t \in Threads, BuiltLock(t) \/ BuiltRelock(t) \/ BuiltUnlock(t) PROVE Level'
    BY <2>2, LevelStep DEF BuiltLock, BuiltRelock, BuiltUnlock, Next
  <2>3. ASSUME NEW t \in Threads, InWait(t) \/ SpuriousWakeup(t) PROVE Level'
    BY <2>3 DEF InWait, SpuriousWakeup, vars, Level
  <2> QED  BY <2>1, <2>2, <2>3 DEF BuiltNext
<1>3. BuiltSpec => Cond!Spec  BY <1>1, <1>2, PTL DEF BuiltSpec, Cond!Spec
<1> QED  BY <1>3, CondImplementsSignal
===========================================================================
