--------------------- MODULE XUFunctorCommandTaskProofs ---------------------
(***************************************************************************)
(* Theorems about the thread pool, for any number of workers, starts and   *)
(* commands.  The counts say which of its threads exist and which have     *)
(* registered, as long as the pool is not being stopped (Phase); that      *)
(* start() returns with all of them ready is a matter of two sets with     *)
(* equally many members.  That stop() loses no command rests on the last   *)
(* worker to look at the queue, which finds m_wantExit and takes the rest; *)
(* that none is executed twice on where the commands are (Placed).         *)
(***************************************************************************)
EXTENDS XUFunctorCommandTask, FiniteSetTheorems, SequenceTheorems, TLAPS

Stopping == {"join", "joinwait", "reset"}

\* The threads spawned, and those that have counted themselves.
Alive == {w \in Workers : pc[w] # "none"}
Up    == {w \in Workers : pc[w] \notin {"none", "born"}}

Types ==
    /\ m_threadCountSum \in 0..Cardinality(Workers)
    /\ m_threadCountNow \in Nat /\ m_threadCount \in Nat
    /\ m_wantExit \in BOOLEAN
    /\ m_commands \in Seq(Command) /\ executed \in Seq(Command)
    /\ counted \in BOOLEAN /\ commanded \in BOOLEAN /\ ended \in BOOLEAN
    /\ ctl \in {"idle", "countwait", "count", "join", "joinwait", "reset"}
    /\ pc \in [Workers -> {"none", "born", "look", "wait", "execute", "drain", "end"}]
    /\ hand \in [Workers -> Seq(Command)]
    /\ starts \in 0..MaxStarts /\ puts \in 0..MaxPuts

\* What the counts, and whoever holds m_lockInit, say of the threads.
Phase ==
    /\ m_threadCount = Cardinality(Alive)
    /\ m_threadCountNow <= m_threadCountSum
    /\ m_wantExit <=> ctl \in Stopping
    /\ ~m_wantExit => m_threadCountSum = Cardinality(Alive) /\ m_threadCountNow = Cardinality(Up)
    /\ ~m_wantExit => \A w \in Workers : pc[w] \notin {"drain", "end"}
    /\ ctl \in {"idle"} \cup Stopping => \A w \in Workers : pc[w] # "born"
    /\ ctl = "idle" /\ ~m_wantExit => m_threadCountNow = m_threadCountSum
    /\ ctl = "reset" => Alive = {}
    /\ ctl \in Stopping =>
         m_commands = <<>> \/ \E w \in Workers : pc[w] \in {"look", "wait", "execute"}

Distinct(s) == \A i, j \in DOMAIN s : s[i] = s[j] => i = j

\* Where the commands are.
Placed ==
    /\ \A c \in 1..puts :
         c \in Ran(m_commands) \/ c \in Ran(executed) \/ \E w \in Workers : c \in Ran(hand[w])
    /\ Ran(m_commands) \subseteq 1..puts /\ Ran(executed) \subseteq 1..puts
    /\ Distinct(m_commands) /\ Distinct(executed)
    /\ Ran(m_commands) \cap Ran(executed) = {}
    /\ \A w \in Workers : Ran(hand[w]) \subseteq 1..puts /\ Distinct(hand[w])
    /\ \A w \in Workers : Ran(hand[w]) \cap (Ran(m_commands) \cup Ran(executed)) = {}
    /\ \A w, u \in Workers : w # u => Ran(hand[w]) \cap Ran(hand[u]) = {}
    /\ \A w \in Workers : hand[w] # <<>> => pc[w] \in {"execute", "drain"}
    /\ \A w \in Workers : pc[w] = "execute" => Tail(hand[w]) = <<>>
-----------------------------------------------------------------------------
(* Sets of workers, and sequences of commands.                             *)

\* What Cardinality says of sets of workers.
LEMMA CountWorkers ==
  /\ Cardinality(Workers) \in Nat /\ Cardinality({}) = 0
  /\ \A S \in SUBSET Workers :
       /\ Cardinality(S) \in 0..Cardinality(Workers)
       /\ Cardinality(S) = 0 <=> S = {}
       /\ \A w \in Workers \ S : Cardinality(S \cup {w}) = Cardinality(S) + 1
       /\ \A w \in S : Cardinality(S \ {w}) = Cardinality(S) - 1
       /\ \A T \in SUBSET S : /\ Cardinality(T) <= Cardinality(S)
                              /\ Cardinality(S) = Cardinality(T) => S = T
<1>1. IsFiniteSet(Workers)  BY PoolAssumption
<1>2. Cardinality(Workers) \in Nat /\ Cardinality({}) = 0  BY <1>1, FS_CardinalityType, FS_EmptySet
<1>3. ASSUME NEW S \in SUBSET Workers
      PROVE  /\ IsFiniteSet(S) /\ Cardinality(S) \in 0..Cardinality(Workers)
             /\ Cardinality(S) = 0 <=> S = {}
  <2>1. IsFiniteSet(S) /\ Cardinality(S) <= Cardinality(Workers)  BY <1>1, FS_Subset
  <2>2. Cardinality(S) \in Nat  BY <2>1, FS_CardinalityType
  <2> QED  BY <1>2, <2>1, <2>2, FS_EmptySet
<1>4. ASSUME NEW S \in SUBSET Workers, NEW w \in Workers \ S
      PROVE  Cardinality(S \cup {w}) = Cardinality(S) + 1
  BY <1>3, FS_AddElement
<1>5. ASSUME NEW S \in SUBSET Workers, NEW w \in S PROVE Cardinality(S \ {w}) = Cardinality(S) - 1
  BY <1>3, FS_RemoveElement
<1>6. ASSUME NEW S \in SUBSET Workers, NEW T \in SUBSET S
      PROVE  Cardinality(T) <= Cardinality(S) /\ (Cardinality(S) = Cardinality(T) => S = T)
  BY <1>3, FS_Subset
<1> QED  BY <1>2, <1>3, <1>4, <1>5, <1>6

\* The commands of no sequence, and of one.
LEMMA NothingRan == Ran(<<>>) = {} /\ Distinct(<<>>)
  BY DEF Ran, Distinct

LEMMA OneRan ==
  ASSUME NEW c \in Command
  PROVE  Ran(<<c>>) = {c} /\ Distinct(<<c>>) /\ Tail(<<c>>) = <<>> /\ <<c>> # <<>>
<1>1. DOMAIN <<c>> = {1} /\ <<c>>[1] = c /\ Tail(<<c>>) = <<>> /\ <<c>> # <<>>  OBVIOUS
<1> QED  BY <1>1 DEF Ran, Distinct

\* One command more at the end.
LEMMA AddedLast ==
  ASSUME NEW s \in Seq(Command), NEW c \in Command, c \notin Ran(s), Distinct(s)
  PROVE  Ran(Append(s, c)) = Ran(s) \cup {c} /\ Distinct(Append(s, c))
<1> DEFINE t == Append(s, c)
           n == Len(s)
<1>1. /\ n \in Nat /\ DOMAIN s = 1..n /\ DOMAIN t = 1..n + 1
      /\ (\A i \in 1..n : t[i] = s[i]) /\ t[n + 1] = c
  BY AppendProperties, LenProperties
<1>2. \A i \in 1..n + 1 : i \in 1..n \/ i = n + 1  BY <1>1
<1>3. 1..n \subseteq 1..n + 1 /\ n + 1 \in 1..n + 1  BY <1>1
<1> HIDE DEF t, n
<1>4. Ran(t) = Ran(s) \cup {c}  BY <1>1, <1>2, <1>3 DEF Ran
<1>5. \A i \in 1..n : s[i] # c  BY <1>1 DEF Ran
<1>6. Distinct(t)  BY <1>1, <1>2, <1>5 DEF Distinct
<1> QED  BY <1>4, <1>6 DEF t

\* The first taken.
LEMMA TakenFirst ==
  ASSUME NEW s \in Seq(Command), s # <<>>
  PROVE  /\ Head(s) \in Command /\ Tail(s) \in Seq(Command)
         /\ Ran(s) = {Head(s)} \cup Ran(Tail(s))
         /\ Distinct(s) => Distinct(Tail(s)) /\ Head(s) \notin Ran(Tail(s))
<1> DEFINE t == Tail(s)
           n == Len(s)
<1>1. /\ t \in Seq(Command) /\ n \in Nat /\ n > 0
      /\ DOMAIN s = 1..n /\ DOMAIN t = 1..n - 1
      /\ \A i \in 1..n - 1 : t[i] = s[i + 1]
      /\ Head(s) = s[1] /\ Head(s) \in Command
  BY HeadTailProperties, LenProperties
<1>2. \A i \in 1..n - 1 : i + 1 \in 1..n /\ i + 1 # 1  BY <1>1
<1>3. \A i \in 1..n : i = 1 \/ (i - 1 \in 1..n - 1 /\ t[i - 1] = s[i])
  <2> SUFFICES ASSUME NEW i \in 1..n, i # 1 PROVE i - 1 \in 1..n - 1 /\ t[i - 1] = s[i]
    OBVIOUS
  <2>1. i - 1 \in 1..n - 1 /\ (i - 1) + 1 = i  BY <1>1
  <2> QED  BY <2>1, <1>1
<1>4. 1 \in 1..n  BY <1>1
<1> HIDE DEF t, n
<1>5. Ran(s) \subseteq {Head(s)} \cup Ran(t)  BY <1>1, <1>3 DEF Ran
<1>6. Ran(t) \subseteq Ran(s) /\ Head(s) \in Ran(s)  BY <1>1, <1>2, <1>4 DEF Ran
<1>7. ASSUME Distinct(s) PROVE Distinct(t) /\ Head(s) \notin Ran(t)
  <2>1. ASSUME NEW i \in 1..n - 1, NEW j \in 1..n - 1, t[i] = t[j] PROVE i = j
    <3>1. i + 1 \in DOMAIN s /\ j + 1 \in DOMAIN s /\ s[i + 1] = s[j + 1]  BY <2>1, <1>1, <1>2
    <3>2. i + 1 = j + 1  BY <3>1, <1>7 DEF Distinct
    <3> QED  BY <3>2, <1>1
  <2>2. \A i \in 1..n - 1 : t[i] # s[1]  BY <1>1, <1>2, <1>4, <1>7 DEF Distinct
  <2> QED  BY <2>1, <2>2, <1>1 DEF Distinct, Ran
<1> QED  BY <1>1, <1>5, <1>6, <1>7 DEF t
-----------------------------------------------------------------------------
(* Types and counts.                                                       *)

\* Every step keeps the types.
LEMMA TypesStep ==
  ASSUME Types, Phase, [Next]_vars
  PROVE  Types'
<1>1. ASSUME NEW team \in SUBSET Workers \ {{}}, Start(team) PROVE Types'
  <2>1. Cardinality(team) \in 0..Cardinality(Workers) /\ Cardinality(team) \in Nat  BY CountWorkers
  <2>2. /\ m_threadCountSum' = Cardinality(team) /\ m_threadCount' = m_threadCount + Cardinality(team)
        /\ pc' = [w \in Workers |-> IF w \in team THEN "born" ELSE pc[w]] /\ ctl' = "countwait"
        /\ starts' = starts + 1 /\ starts < MaxStarts
        /\ UNCHANGED <<m_threadCountNow, m_wantExit, counted, commanded, ended, m_commands, hand, puts, executed>>
    BY <1>1 DEF Start, Spawn, work
  <2>3. starts' \in 0..MaxStarts  BY <2>2, PoolAssumption DEF Types
  <2>4. m_threadCount' \in Nat  BY <2>1, <2>2 DEF Types
  <2> QED  BY <2>1, <2>2, <2>3, <2>4 DEF Types
<1>2. CASE CountWaitEnds  BY <1>2 DEF Types, CountWaitEnds, pool, work
<1>3. CASE Count  BY <1>3 DEF Types, Count, pool, work
<1>4. CASE Stop  BY <1>4 DEF Types, Stop, pool, work
<1>5. CASE Join  BY <1>5 DEF Types, Join, pool, work
<1>6. CASE JoinWaitEnds  BY <1>6 DEF Types, JoinWaitEnds, pool, work
<1>7. CASE Reset
  <2>1. 0 \in 0..Cardinality(Workers)  BY CountWorkers
  <2>2. /\ m_threadCountSum' = 0 /\ m_threadCountNow' = 0 /\ m_wantExit' = FALSE /\ ctl' = "idle"
        /\ UNCHANGED <<m_threadCount, counted, commanded, ended, pc, starts, m_commands, hand, puts, executed>>
    BY <1>7 DEF Reset, work
  <2> QED  BY <2>1, <2>2 DEF Types
<1>8. CASE Put
  <2>1. puts + 1 \in Command /\ puts' \in 0..MaxPuts  BY <1>8, PoolAssumption DEF Types, Put, Command
  <2> QED  BY <2>1, <1>8 DEF Types, Put, pool
<1>9. ASSUME NEW w \in Workers, Register(w) PROVE Types'
  BY <1>9 DEF Types, Register, Goto, pool, work
<1>10. ASSUME NEW w \in Workers, Look(w) PROVE Types'
  <2>1. CASE m_wantExit
    <3>1. /\ hand' = [hand EXCEPT ![w] = m_commands] /\ m_commands' = <<>> /\ pc' = [pc EXCEPT ![w] = "drain"]
          /\ UNCHANGED <<m_threadCountSum, m_threadCountNow, m_wantExit, m_threadCount, counted, commanded, ended, ctl,
                         starts, puts, executed>>
      BY <2>1, <1>10 DEF Look, TakeRest, Goto, pool
    <3>2. <<>> \in Seq(Command)  OBVIOUS
    <3> QED  BY <3>1, <3>2 DEF Types
  <2>2. CASE ~m_wantExit /\ m_commands # <<>>
    <3>1. Head(m_commands) \in Command /\ Tail(m_commands) \in Seq(Command)  BY <2>2, TakenFirst DEF Types
    <3>2. <<Head(m_commands)>> \in Seq(Command)  BY <3>1
    <3> QED  BY <2>2, <3>1, <3>2, <1>10 DEF Types, Look, TakeOne, Goto, pool
  <2>3. CASE ~m_wantExit /\ m_commands = <<>>  BY <2>3, <1>10 DEF Types, Look, Goto, pool
  <2> QED  BY <2>1, <2>2, <2>3
<1>11. ASSUME NEW w \in Workers, WaitEnds(w) PROVE Types'
  BY <1>11 DEF Types, WaitEnds, Goto, pool, work
<1>12. ASSUME NEW w \in Workers, Execute(w) PROVE Types'
  <2>1. /\ Head(hand[w]) \in Command /\ Tail(hand[w]) \in Seq(Command)
    BY <1>12, TakenFirst DEF Types, Execute
  <2> QED  BY <2>1, <1>12 DEF Types, Execute, Goto, pool
<1>13. ASSUME NEW w \in Workers, Leave(w) PROVE Types'  BY <1>13 DEF Types, Leave, Goto, pool, work
<1>14. ASSUME NEW w \in Workers, End(w) PROVE Types'
  <2>1. w \in Alive  BY <1>14 DEF Alive, End
  <2>2. m_threadCount - 1 \in Nat
    <3>1. Alive \in SUBSET Workers  BY DEF Alive
    <3>2. Cardinality(Alive) \in Nat /\ Cardinality(Alive \ {w}) \in Nat
          /\ Cardinality(Alive \ {w}) = Cardinality(Alive) - 1
      BY <2>1, <3>1, CountWorkers
    <3> QED  BY <3>2 DEF Phase
  <2> QED  BY <2>2, <1>14 DEF Types, End, Goto, pool, work
<1>15. CASE UNCHANGED vars  BY <1>15 DEF Types, vars, pool, work
<1> QED
  BY <1>1, <1>2, <1>3, <1>4, <1>5, <1>6, <1>7, <1>8, <1>9, <1>10, <1>11, <1>12, <1>13, <1>14, <1>15
  DEF Next, Control, WorkOf

\* Every step keeps what the counts say of the threads.
LEMMA PhaseStep ==
  ASSUME Types, Phase, [Next]_vars
  PROVE  Phase'
<1>1. ASSUME NEW team \in SUBSET Workers \ {{}}, Start(team) PROVE Phase'
  <2>1. /\ m_threadCountSum = 0 /\ ctl = "idle" /\ ~m_wantExit  BY <1>1 DEF Start, Phase, Stopping
  <2>2. Alive = {} /\ Up = {}
    <3>1. Alive \in SUBSET Workers /\ Up \in SUBSET Alive  BY DEF Alive, Up
    <3> QED  BY <2>1, <3>1, CountWorkers DEF Phase
  <2>3. /\ pc' = [w \in Workers |-> IF w \in team THEN "born" ELSE pc[w]] /\ team \subseteq Workers
        /\ m_threadCountSum' = Cardinality(team) /\ m_threadCount' = m_threadCount + Cardinality(team)
        /\ UNCHANGED <<m_threadCountNow, m_wantExit>> /\ ctl' = "countwait"
    BY <1>1 DEF Start, Spawn
  <2>4. Alive' = team /\ Up' = {}  BY <2>2, <2>3 DEF Alive, Up
  <2>5. Cardinality({}) = 0 /\ Cardinality(team) \in Nat  BY FS_EmptySet, CountWorkers
  <2>6. m_threadCount = 0 /\ m_threadCountNow = 0  BY <2>1, <2>2, <2>5 DEF Phase
  <2>7. \A w \in Workers : pc'[w] \notin {"drain", "end"}  BY <2>1, <2>3 DEF Phase
  <2> QED  BY <2>1, <2>3, <2>4, <2>5, <2>6, <2>7 DEF Phase, Stopping
<1>2. CASE CountWaitEnds
  <2>1. pc' = pc  BY <1>2 DEF CountWaitEnds
  <2>2. Alive' = Alive /\ Up' = Up  BY <2>1 DEF Alive, Up
  <2> QED  BY <2>1, <2>2, <1>2 DEF Types, Phase, Stopping, CountWaitEnds, pool, work
<1>3. CASE Count
  <2>1. Alive' = Alive /\ Up' = Up /\ pc' = pc  BY <1>3 DEF Alive, Up, Count
  <2>2. ~m_wantExit  BY <1>3 DEF Phase, Stopping, Count
  <2>3. Alive \in SUBSET Workers /\ Up \in SUBSET Alive  BY DEF Alive, Up
  <2>4. /\ Cardinality(Alive) \in Nat /\ Cardinality(Up) \in Nat /\ Cardinality(Up) <= Cardinality(Alive)
        /\ Cardinality(Alive) = Cardinality(Up) => Alive = Up
    BY <2>3, CountWorkers
  <2>5. ctl' = "idle" => Cardinality(Alive) = Cardinality(Up)  BY <2>2, <2>4, <1>3 DEF Phase, Count
  <2>6. ctl' = "idle" => \A w \in Workers : pc[w] # "born"  BY <2>4, <2>5 DEF Alive, Up
  <2>7. /\ ctl' \in {"idle", "countwait"} /\ ctl = "count"
        /\ UNCHANGED <<m_threadCountSum, m_threadCountNow, m_wantExit, m_threadCount, m_commands>>
    BY <1>3 DEF Count, pool, work
  <2> QED  BY <2>1, <2>2, <2>5, <2>6, <2>7 DEF Phase, Stopping
<1>4. CASE Stop
  <2>1. Alive' = Alive /\ Up' = Up /\ pc' = pc  BY <1>4 DEF Alive, Up, Stop
  <2>2. /\ m_threadCountSum > 0 /\ ctl = "idle" /\ ~m_wantExit /\ m_wantExit' = TRUE /\ ctl' = "join"
        /\ UNCHANGED <<m_threadCountSum, m_threadCountNow, m_threadCount, m_commands>>
    BY <1>4 DEF Stop, work
  <2>3. \E w \in Workers : pc[w] \in {"look", "wait", "execute"}
    <3>1. m_threadCountSum = Cardinality(Alive)  BY <2>2 DEF Phase
    <3>4. Alive # {}  BY <2>2, <3>1, FS_EmptySet
    <3>2. PICK w \in Workers : pc[w] # "none"  BY <3>4 DEF Alive
    <3>3. pc[w] \notin {"born", "drain", "end"}  BY <2>2 DEF Phase
    <3> QED  BY <3>2, <3>3 DEF Types
  <2> QED  BY <2>1, <2>2, <2>3 DEF Phase, Stopping
<1>5. CASE Join
  <2>1. Alive' = Alive /\ Up' = Up /\ pc' = pc  BY <1>5 DEF Alive, Up, Join
  <2>2. ctl' = "reset" => Alive = {}
    <3>1. Alive \in SUBSET Workers  BY DEF Alive
    <3>2. Cardinality(Alive) \in Nat /\ (Cardinality(Alive) = 0 => Alive = {})  BY <3>1, CountWorkers
    <3> QED  BY <3>2, <1>5 DEF Phase, Join
  <2> QED  BY <2>1, <2>2, <1>5 DEF Phase, Stopping, Join, pool, work
<1>6. CASE JoinWaitEnds
  <2>1. pc' = pc  BY <1>6 DEF JoinWaitEnds
  <2>2. Alive' = Alive /\ Up' = Up  BY <2>1 DEF Alive, Up
  <2> QED  BY <2>1, <2>2, <1>6 DEF Types, Phase, Stopping, JoinWaitEnds, pool, work
<1>7. CASE Reset
  <2>1. Alive' = Alive /\ Up' = Up /\ pc' = pc  BY <1>7 DEF Alive, Up, Reset
  <2>2. Alive = {} /\ Up = {}  BY <1>7 DEF Phase, Reset, Alive, Up
  <2>3. Cardinality({}) = 0  BY FS_EmptySet
  <2>4. \A w \in Workers : pc[w] = "none"  BY <2>2 DEF Alive
  <2>5. /\ m_threadCountSum' = 0 /\ m_threadCountNow' = 0 /\ m_wantExit' = FALSE /\ ctl' = "idle"
        /\ m_threadCount' = m_threadCount
    BY <1>7 DEF Reset
  <2>6. m_threadCount = 0  BY <2>2, <2>3 DEF Phase
  <2> QED  BY <2>1, <2>2, <2>3, <2>4, <2>5, <2>6 DEF Phase, Stopping
<1>8. CASE Put
  <2>1. pc' = pc  BY <1>8 DEF Put
  <2>2. Alive' = Alive /\ Up' = Up  BY <2>1 DEF Alive, Up
  <2> QED  BY <2>1, <2>2, <1>8 DEF Types, Phase, Stopping, Put, pool, work
<1>9. ASSUME NEW w \in Workers, Register(w) PROVE Phase'
  <2>1. pc[w] = "born" /\ pc' = [pc EXCEPT ![w] = "look"]  BY <1>9 DEF Register, Goto
  <2>2. ctl \in {"countwait", "count"} /\ ~m_wantExit  BY <2>1 DEF Phase, Types, Stopping
  <2>3. Alive' = Alive /\ Up' = Up \cup {w} /\ w \notin Up  BY <2>1 DEF Alive, Up, Types
  <2>4. Up \in SUBSET Workers /\ Alive \in SUBSET Workers /\ Up' \in SUBSET Alive  BY <2>1, <2>3 DEF Up, Alive
  <2>5. /\ Cardinality(Up') = Cardinality(Up) + 1 /\ Cardinality(Up') <= Cardinality(Alive)
        /\ Cardinality(Up) \in Nat /\ Cardinality(Alive) \in Nat
    BY <2>3, <2>4, CountWorkers
  <2>6. /\ m_threadCountNow' = m_threadCountNow + 1
        /\ UNCHANGED <<m_threadCountSum, m_threadCount, m_wantExit, ctl>>
    BY <1>9 DEF Register
  <2>7. \A u \in Workers : pc'[u] \notin {"drain", "end"}  BY <2>1, <2>2 DEF Phase, Types
  <2> QED  BY <2>2, <2>3, <2>5, <2>6, <2>7 DEF Phase, Stopping
<1>10. ASSUME NEW w \in Workers, Look(w) PROVE Phase'
  <2>1. pc' = [pc EXCEPT ![w] = pc'[w]] /\ pc[w] \notin {"none", "born"} /\ pc'[w] \notin {"none", "born"}
    BY <1>10 DEF Look, TakeRest, TakeOne, Goto, Types
  <2>2. Alive' = Alive /\ Up' = Up  BY <2>1 DEF Alive, Up, Types
  <2>3. UNCHANGED <<m_threadCountSum, m_threadCountNow, m_threadCount, m_wantExit, ctl>>  BY <1>10 DEF Look, TakeRest, TakeOne, Goto, pool
  <2>4. ctl # "reset"  BY <2>1 DEF Phase, Alive
  <2>5. ~m_wantExit => pc'[w] \in {"execute", "wait"}  BY <1>10 DEF Look, TakeOne, Goto, Types
  <2>6. m_wantExit => m_commands' = <<>>  BY <1>10 DEF Look, TakeRest
  <2>7. m_wantExit <=> ctl \in Stopping  BY DEF Phase
  <2>8. ~m_wantExit => \A u \in Workers : pc'[u] \notin {"drain", "end"}  BY <2>1, <2>5 DEF Phase, Types
  <2>9. ctl \in {"idle"} \cup Stopping => \A u \in Workers : pc'[u] # "born"  BY <2>1 DEF Phase, Types
  <2> QED  BY <2>2, <2>3, <2>4, <2>6, <2>7, <2>8, <2>9 DEF Phase
<1>11. ASSUME NEW w \in Workers, WaitEnds(w) PROVE Phase'
  <2>1. pc' = [pc EXCEPT ![w] = pc'[w]] /\ pc[w] \notin {"none", "born"} /\ pc'[w] \notin {"none", "born"}
    BY <1>11 DEF WaitEnds, Goto, Types
  <2>2. Alive' = Alive /\ Up' = Up  BY <2>1 DEF Alive, Up, Types
  <2>3. UNCHANGED <<m_threadCountSum, m_threadCountNow, m_threadCount, m_wantExit, ctl>>  BY <1>11 DEF WaitEnds, Goto, pool
  <2>4. ctl # "reset"  BY <2>1 DEF Phase, Alive
  <2>5. pc'[w] \in {"look"}  BY <1>11 DEF WaitEnds, Goto, Types
  <2>6. m_commands' = m_commands  BY <1>11 DEF WaitEnds, Goto, work
  <2>7. ~m_wantExit => \A u \in Workers : pc'[u] \notin {"drain", "end"}  BY <2>1, <2>5, <1>11 DEF Phase, Types, WaitEnds, Goto
  <2>8. ctl \in {"idle"} \cup Stopping => \A u \in Workers : pc'[u] # "born"  BY <2>1 DEF Phase, Types
  <2>9. (\E u \in Workers : pc[u] \in {"look", "wait", "execute"}) =>
          \E u \in Workers : pc'[u] \in {"look", "wait", "execute"}
    BY <2>1, <2>5, <1>11 DEF Types, WaitEnds, Goto
  <2> QED  BY <2>2, <2>3, <2>4, <2>6, <2>7, <2>8, <2>9 DEF Phase
<1>12. ASSUME NEW w \in Workers, Execute(w) PROVE Phase'
  <2>1. pc' = [pc EXCEPT ![w] = pc'[w]] /\ pc[w] \notin {"none", "born"} /\ pc'[w] \notin {"none", "born"}
    BY <1>12 DEF Execute, Goto, Types
  <2>2. Alive' = Alive /\ Up' = Up  BY <2>1 DEF Alive, Up, Types
  <2>3. UNCHANGED <<m_threadCountSum, m_threadCountNow, m_threadCount, m_wantExit, ctl>>  BY <1>12 DEF Execute, Goto, pool
  <2>4. ctl # "reset"  BY <2>1 DEF Phase, Alive
  <2>5. pc'[w] \in {"look", "drain"}  BY <1>12 DEF Execute, Goto, Types
  <2>6. m_commands' = m_commands  BY <1>12 DEF Execute, Goto, work
  <2>7. ~m_wantExit => \A u \in Workers : pc'[u] \notin {"drain", "end"}  BY <2>1, <2>5, <1>12 DEF Phase, Types, Execute, Goto
  <2>8. ctl \in {"idle"} \cup Stopping => \A u \in Workers : pc'[u] # "born"  BY <2>1 DEF Phase, Types
  <2>9. (\E u \in Workers : pc[u] \in {"look", "wait", "execute"}) =>
          \E u \in Workers : pc'[u] \in {"look", "wait", "execute"}
    BY <2>1, <2>5, <1>12 DEF Types, Execute, Goto
  <2> QED  BY <2>2, <2>3, <2>4, <2>6, <2>7, <2>8, <2>9 DEF Phase
<1>13. ASSUME NEW w \in Workers, Leave(w) PROVE Phase'
  <2>1. pc' = [pc EXCEPT ![w] = pc'[w]] /\ pc[w] \notin {"none", "born"} /\ pc'[w] \notin {"none", "born"}
    BY <1>13 DEF Leave, Goto, Types
  <2>2. Alive' = Alive /\ Up' = Up  BY <2>1 DEF Alive, Up, Types
  <2>3. UNCHANGED <<m_threadCountSum, m_threadCountNow, m_threadCount, m_wantExit, ctl>>  BY <1>13 DEF Leave, Goto, pool
  <2>4. ctl # "reset"  BY <2>1 DEF Phase, Alive
  <2>5. pc'[w] \in {"end"}  BY <1>13 DEF Leave, Goto, Types
  <2>6. m_commands' = m_commands  BY <1>13 DEF Leave, Goto, work
  <2>7. ~m_wantExit => \A u \in Workers : pc'[u] \notin {"drain", "end"}  BY <2>1, <2>5, <1>13 DEF Phase, Types, Leave, Goto
  <2>8. ctl \in {"idle"} \cup Stopping => \A u \in Workers : pc'[u] # "born"  BY <2>1 DEF Phase, Types
  <2>9. (\E u \in Workers : pc[u] \in {"look", "wait", "execute"}) =>
          \E u \in Workers : pc'[u] \in {"look", "wait", "execute"}
    BY <2>1, <2>5, <1>13 DEF Types, Leave, Goto
  <2> QED  BY <2>2, <2>3, <2>4, <2>6, <2>7, <2>8, <2>9 DEF Phase
<1>14. ASSUME NEW w \in Workers, End(w) PROVE Phase'
  <2>1. pc[w] = "end" /\ pc' = [pc EXCEPT ![w] = "none"]  BY <1>14 DEF End, Goto
  <2>2. m_wantExit /\ ctl # "reset"  BY <2>1 DEF Phase, Alive
  <2>3. Alive' = Alive \ {w} /\ w \in Alive /\ Alive \in SUBSET Workers  BY <2>1 DEF Alive, Types
  <2>4. Cardinality(Alive') = Cardinality(Alive) - 1  BY <2>3, CountWorkers
  <2>5. /\ m_threadCount' = m_threadCount - 1
        /\ UNCHANGED <<m_threadCountSum, m_threadCountNow, m_wantExit, ctl, m_commands>>
    BY <1>14 DEF End, pool, work
  <2>6. \A u \in Workers : pc[u] # "born" => pc'[u] # "born"  BY <2>1 DEF Types
  <2>7. (\E u \in Workers : pc[u] \in {"look", "wait", "execute"}) =>
          \E u \in Workers : pc'[u] \in {"look", "wait", "execute"}
    BY <2>1 DEF Types
  <2> QED  BY <2>2, <2>4, <2>5, <2>6, <2>7 DEF Phase, Stopping
<1>15. CASE UNCHANGED vars
  <2>1. Alive' = Alive /\ Up' = Up  BY <1>15 DEF Alive, Up, vars
  <2> QED  BY <2>1, <1>15 DEF Types, Phase, vars, pool, work
<1> QED
  BY <1>1, <1>2, <1>3, <1>4, <1>5, <1>6, <1>7, <1>8, <1>9, <1>10, <1>11, <1>12, <1>13, <1>14, <1>15
  DEF Next, Control, WorkOf
-----------------------------------------------------------------------------
(* Commands.                                                               *)

\* Every step leaves every command in one place.
LEMMA PlacedStep ==
  ASSUME Types, Phase, Placed, [Next]_vars
  PROVE  Placed'
<1>1. ASSUME NEW team \in SUBSET Workers \ {{}}, Start(team) PROVE Placed'
  <2>1. UNCHANGED work  BY <1>1 DEF Start
  <2>2. \A w \in Workers : pc[w] = "none"
    <3>1. Alive \in SUBSET Workers /\ ~m_wantExit /\ m_threadCountSum = 0  BY <1>1 DEF Alive, Start, Phase, Stopping
    <3>2. Alive = {}  BY <3>1, CountWorkers DEF Phase
    <3> QED  BY <3>2 DEF Alive
  <2>3. \A w \in Workers : hand[w] = <<>> /\ pc'[w] \notin {"execute", "drain"}
    BY <2>2, <1>1 DEF Placed, Start, Spawn
  <2> QED  BY <2>1, <2>3 DEF Placed, work
<1>2. CASE CountWaitEnds  BY <1>2 DEF Placed, CountWaitEnds, work
<1>3. CASE Count  BY <1>3 DEF Placed, Count, work
<1>4. CASE Stop  BY <1>4 DEF Placed, Stop, work
<1>5. CASE Join  BY <1>5 DEF Placed, Join, work
<1>6. CASE JoinWaitEnds  BY <1>6 DEF Placed, JoinWaitEnds, work
<1>7. CASE Reset  BY <1>7 DEF Placed, Reset, work
<1>8. CASE Put
  <2>1. /\ m_commands' = Append(m_commands, puts + 1) /\ puts' = puts + 1 /\ puts \in Nat
        /\ UNCHANGED <<hand, executed, pc>>
    BY <1>8 DEF Put, Types
  <2>2. puts + 1 \in Command  BY <1>8, PoolAssumption DEF Put, Types, Command
  <2>3. puts + 1 \notin 1..puts /\ 1..puts + 1 = 1..puts \cup {puts + 1}  BY <2>1
  <2>4. puts + 1 \notin Ran(m_commands)  BY <2>3 DEF Placed
  <2>5. Ran(m_commands') = Ran(m_commands) \cup {puts + 1} /\ Distinct(m_commands')
    BY <2>1, <2>2, <2>4, AddedLast DEF Types, Placed
  <2> DEFINE n == puts + 1
  <2>6. 1..puts' = 1..puts \cup {n} /\ n \notin 1..puts  BY <2>1, <2>3
  <2>7. /\ Ran(m_commands') = Ran(m_commands) \cup {n} /\ Distinct(m_commands')
        /\ UNCHANGED <<hand, executed, pc>>
    BY <2>1, <2>5
  <2> HIDE DEF n
  <2>8. \A c \in 1..puts' :
          c \in Ran(m_commands') \/ c \in Ran(executed) \/ \E w \in Workers : c \in Ran(hand[w])
    BY <2>6, <2>7 DEF Placed
  <2>9. n \notin Ran(executed) /\ \A w \in Workers : n \notin Ran(hand[w])  BY <2>6 DEF Placed
  <2>10. /\ Ran(m_commands') \subseteq 1..puts' /\ Ran(executed) \subseteq 1..puts'
         /\ \A w \in Workers : Ran(hand[w]) \subseteq 1..puts'
    BY <2>6, <2>7 DEF Placed
  <2>11. /\ Ran(m_commands') \cap Ran(executed) = {}
         /\ \A w \in Workers : Ran(hand[w]) \cap (Ran(m_commands') \cup Ran(executed)) = {}
    BY <2>7, <2>9 DEF Placed
  <2> QED  BY <2>7, <2>8, <2>10, <2>11 DEF Placed
<1>9. ASSUME NEW w \in Workers, Register(w) PROVE Placed'
  <2>1. UNCHANGED work /\ hand[w] = <<>>  BY <1>9 DEF Register, Placed
  <2>2. pc' = [pc EXCEPT ![w] = pc'[w]] /\ pc'[w] # "execute"  BY <1>9 DEF Register, Goto, Types
  <2> QED  BY <2>1, <2>2 DEF Placed, work, Types
<1>10. ASSUME NEW w \in Workers, Look(w) PROVE Placed'
  <2>1. pc[w] = "look" /\ hand[w] = <<>> /\ Ran(<<>>) = {} /\ Distinct(<<>>)
    BY <1>10, NothingRan DEF Look, Placed
  <2>2. UNCHANGED <<puts, executed>>  BY <1>10 DEF Look
  <2>3. CASE m_wantExit
    <3>1. /\ hand' = [hand EXCEPT ![w] = m_commands] /\ m_commands' = <<>>
          /\ pc' = [pc EXCEPT ![w] = "drain"]
      BY <2>3, <1>10 DEF Look, TakeRest, Goto
    <3> QED  BY <3>1, <2>1, <2>2 DEF Placed, Types
  <2>4. CASE ~m_wantExit /\ m_commands # <<>>
    <3> DEFINE c == Head(m_commands)
    <3>1. /\ hand' = [hand EXCEPT ![w] = <<c>>] /\ m_commands' = Tail(m_commands)
          /\ pc' = [pc EXCEPT ![w] = "execute"]
      BY <2>4, <1>10 DEF Look, TakeOne, Goto
    <3>2. /\ Ran(m_commands) = {c} \cup Ran(m_commands') /\ c \notin Ran(m_commands') /\ Distinct(m_commands')
          /\ c \in Command
      BY <2>4, <3>1, TakenFirst DEF Types, Placed
    <3>3. Ran(<<c>>) = {c} /\ Distinct(<<c>>) /\ Tail(<<c>>) = <<>> /\ <<c>> # <<>>  BY <3>2, OneRan
    <3> HIDE DEF c
    <3>4. /\ \A u \in Workers \ {w} : hand'[u] = hand[u] /\ pc'[u] = pc[u]
          /\ hand'[w] = <<c>> /\ pc'[w] = "execute"
      BY <3>1 DEF Types
    <3>5. /\ \A u \in Workers : hand'[u] # <<>> => pc'[u] \in {"execute", "drain"}
          /\ \A u \in Workers : pc'[u] = "execute" => Tail(hand'[u]) = <<>>
          /\ \A u \in Workers : Distinct(hand'[u])
      BY <3>3, <3>4 DEF Placed
    <3>6. \A x \in 1..puts : x \in Ran(m_commands') \/ x \in Ran(executed) \/ \E u \in Workers : x \in Ran(hand'[u])
      <4> SUFFICES ASSUME NEW x \in 1..puts, x \notin Ran(m_commands'), x \notin Ran(executed)
                   PROVE  \E u \in Workers : x \in Ran(hand'[u])
        OBVIOUS
      <4>1. CASE x = c  BY <4>1, <3>3, <3>4
      <4>2. CASE x # c
        <5>1. PICK u \in Workers : x \in Ran(hand[u])  BY <4>2, <3>2 DEF Placed
        <5>2. u # w  BY <5>1, <2>1
        <5> QED  BY <5>1, <5>2, <3>4
      <4> QED  BY <4>1, <4>2
    <3>7. /\ Ran(m_commands') \subseteq 1..puts /\ \A u \in Workers : Ran(hand'[u]) \subseteq 1..puts
      BY <3>2, <3>3, <3>4 DEF Placed
    <3>8. /\ Ran(m_commands') \cap Ran(executed) = {}
          /\ \A u \in Workers : Ran(hand'[u]) \cap (Ran(m_commands') \cup Ran(executed)) = {}
      BY <3>2, <3>3, <3>4 DEF Placed
    <3>9. \A u, v \in Workers : u # v => Ran(hand'[u]) \cap Ran(hand'[v]) = {}
      BY <3>2, <3>3, <3>4 DEF Placed
    <3> QED  BY <2>2, <3>2, <3>5, <3>6, <3>7, <3>8, <3>9 DEF Placed
  <2>5. CASE ~m_wantExit /\ m_commands = <<>>
    <3>1. UNCHANGED <<hand, m_commands>> /\ pc' = [pc EXCEPT ![w] = "wait"]  BY <2>5, <1>10 DEF Look, Goto
    <3> QED  BY <3>1, <2>1, <2>2 DEF Placed, Types
  <2> QED  BY <2>3, <2>4, <2>5
<1>11. ASSUME NEW w \in Workers, WaitEnds(w) PROVE Placed'
  <2>1. UNCHANGED work /\ hand[w] = <<>>  BY <1>11 DEF WaitEnds, Placed
  <2>2. pc' = [pc EXCEPT ![w] = pc'[w]] /\ pc'[w] # "execute"  BY <1>11 DEF WaitEnds, Goto, Types
  <2> QED  BY <2>1, <2>2 DEF Placed, work, Types
<1>12. ASSUME NEW w \in Workers, Execute(w) PROVE Placed'
  <2> DEFINE c == Head(hand[w])
             rest == Tail(hand[w])
  <2>1. /\ hand[w] # <<>> /\ executed' = Append(executed, c) /\ hand' = [hand EXCEPT ![w] = rest]
        /\ UNCHANGED <<m_commands, puts>>
    BY <1>12 DEF Execute
  <2>2. pc' = [pc EXCEPT ![w] = IF pc[w] = "drain" THEN "drain" ELSE "look"] /\ pc[w] \in {"execute", "drain"}
    BY <1>12 DEF Execute, Goto
  <2>3. /\ Ran(hand[w]) = {c} \cup Ran(rest) /\ c \notin Ran(rest) /\ Distinct(rest) /\ c \in Command
    BY <2>1, TakenFirst DEF Types, Placed
  <2>4. c \notin Ran(executed) /\ c \notin Ran(m_commands)  BY <2>3 DEF Placed
  <2>5. Ran(executed') = Ran(executed) \cup {c} /\ Distinct(executed')
    BY <2>1, <2>3, <2>4, AddedLast DEF Types, Placed
  <2>6. pc[w] = "execute" => rest = <<>>  BY DEF Placed
  <2>7. \A u \in Workers \ {w} : c \notin Ran(hand[u])  BY <2>3 DEF Placed
  <2> HIDE DEF c, rest
  <2>8. /\ \A u \in Workers \ {w} : hand'[u] = hand[u] /\ pc'[u] = pc[u]
        /\ hand'[w] = rest
    BY <2>1, <2>2 DEF Types
  <2>9. \A u \in Workers : hand'[u] # <<>> => pc'[u] \in {"execute", "drain"}
    BY <2>2, <2>6, <2>8 DEF Placed, Types
  <2>10. \A u \in Workers : pc'[u] = "execute" => Tail(hand'[u]) = <<>>  BY <2>2, <2>8 DEF Placed, Types
  <2>11. \A x \in 1..puts : x \in Ran(m_commands) \/ x \in Ran(executed') \/ \E u \in Workers : x \in Ran(hand'[u])
    <3> SUFFICES ASSUME NEW x \in 1..puts, x \notin Ran(m_commands), x \notin Ran(executed')
                 PROVE  \E u \in Workers : x \in Ran(hand'[u])
      OBVIOUS
    <3>1. PICK u \in Workers : x \in Ran(hand[u])  BY <2>5 DEF Placed
    <3>2. x # c  BY <2>5
    <3> QED  BY <3>1, <3>2, <2>3, <2>8
  <2>12. /\ \A u \in Workers : Ran(hand'[u]) \subseteq 1..puts /\ Distinct(hand'[u])
         /\ Ran(executed') \subseteq 1..puts
    BY <2>3, <2>5, <2>8 DEF Placed
  <2>13. \A u \in Workers : Ran(hand'[u]) \cap (Ran(m_commands) \cup Ran(executed')) = {}
    BY <2>3, <2>5, <2>7, <2>8 DEF Placed
  <2>14. \A u, v \in Workers : u # v => Ran(hand'[u]) \cap Ran(hand'[v]) = {}
    BY <2>3, <2>8 DEF Placed
  <2>15. Ran(m_commands) \cap Ran(executed') = {}  BY <2>4, <2>5 DEF Placed
  <2> QED  BY <2>1, <2>5, <2>9, <2>10, <2>11, <2>12, <2>13, <2>14, <2>15 DEF Placed
<1>13. ASSUME NEW w \in Workers, Leave(w) PROVE Placed'
  <2>1. UNCHANGED work /\ hand[w] = <<>>  BY <1>13 DEF Leave, Placed
  <2>2. pc' = [pc EXCEPT ![w] = pc'[w]] /\ pc'[w] # "execute"  BY <1>13 DEF Leave, Goto, Types
  <2> QED  BY <2>1, <2>2 DEF Placed, work, Types
<1>14. ASSUME NEW w \in Workers, End(w) PROVE Placed'
  <2>1. UNCHANGED work /\ hand[w] = <<>>  BY <1>14 DEF End, Placed
  <2>2. pc' = [pc EXCEPT ![w] = pc'[w]] /\ pc'[w] # "execute"  BY <1>14 DEF End, Goto, Types
  <2> QED  BY <2>1, <2>2 DEF Placed, work, Types
<1>15. CASE UNCHANGED vars  BY <1>15 DEF Placed, vars, work
<1> QED
  BY <1>1, <1>2, <1>3, <1>4, <1>5, <1>6, <1>7, <1>8, <1>9, <1>10, <1>11, <1>12, <1>13, <1>14, <1>15
  DEF Next, Control, WorkOf

\* Every step leaves somebody to see what is queued.
LEMMA NoLostWakeupStep ==
  ASSUME Types, Phase, NoLostWakeup, [Next]_vars
  PROVE  NoLostWakeup'
<1>1. ASSUME NEW team \in SUBSET Workers \ {{}}, Start(team) PROVE NoLostWakeup'
  <2>1. \A w \in Workers : pc[w] = "none"
    <3>1. Alive \in SUBSET Workers /\ ~m_wantExit /\ m_threadCountSum = 0  BY <1>1 DEF Alive, Start, Phase, Stopping
    <3>2. Alive = {}  BY <3>1, CountWorkers DEF Phase
    <3> QED  BY <3>2 DEF Alive
  <2> QED  BY <2>1, <1>1 DEF NoLostWakeup, Start, work
<1>2. CASE CountWaitEnds  BY <1>2 DEF NoLostWakeup, Types, CountWaitEnds, work
<1>3. CASE Count  BY <1>3 DEF NoLostWakeup, Types, Count, work
<1>4. CASE Stop  BY <1>4 DEF NoLostWakeup, Types, Stop, work
<1>5. CASE Join  BY <1>5 DEF NoLostWakeup, Types, Join, work
<1>6. CASE JoinWaitEnds  BY <1>6 DEF NoLostWakeup, Types, JoinWaitEnds, work
<1>7. CASE Reset  BY <1>7 DEF NoLostWakeup, Types, Reset, work
<1>8. CASE Put  BY <1>8 DEF NoLostWakeup, Types, Put, work
<1>9. ASSUME NEW w \in Workers, Register(w) PROVE NoLostWakeup'
  BY <1>9 DEF NoLostWakeup, Types, Register, Goto, work
<1>10. ASSUME NEW w \in Workers, Look(w) PROVE NoLostWakeup'
  BY <1>10 DEF NoLostWakeup, Types, Look, TakeRest, TakeOne, Goto
<1>11. ASSUME NEW w \in Workers, WaitEnds(w) PROVE NoLostWakeup'
  BY <1>11 DEF NoLostWakeup, Types, WaitEnds, Goto, work
<1>12. ASSUME NEW w \in Workers, Execute(w) PROVE NoLostWakeup'
  BY <1>12 DEF NoLostWakeup, Types, Execute, Goto, work
<1>13. ASSUME NEW w \in Workers, Leave(w) PROVE NoLostWakeup'
  BY <1>13 DEF NoLostWakeup, Types, Leave, Goto, work
<1>14. ASSUME NEW w \in Workers, End(w) PROVE NoLostWakeup'
  BY <1>14 DEF NoLostWakeup, Types, End, Goto, work
<1>15. CASE UNCHANGED vars  BY <1>15 DEF NoLostWakeup, Types, vars, work
<1> QED
  BY <1>1, <1>2, <1>3, <1>4, <1>5, <1>6, <1>7, <1>8, <1>9, <1>10, <1>11, <1>12, <1>13, <1>14, <1>15
  DEF Next, Control, WorkOf
-----------------------------------------------------------------------------
(* The theorems.                                                           *)

IInv == Types /\ Phase /\ Placed /\ NoLostWakeup

\* It holds at first, and every step keeps it.
LEMMA InitIInv == Init => IInv
<1> SUFFICES ASSUME Init PROVE IInv
  OBVIOUS
<1> USE DEF Init
<1>1. Types
  <2>1. 0 \in 0..Cardinality(Workers) /\ 0 \in 0..MaxStarts /\ 0 \in 0..MaxPuts
    BY CountWorkers, PoolAssumption
  <2>2. <<>> \in Seq(Command)  OBVIOUS
  <2> QED  BY <2>1, <2>2 DEF Types
<1>2. Alive = {} /\ Up = {}  BY DEF Alive, Up
<1>3. Phase  BY <1>2, CountWorkers DEF Phase, Stopping
<1>4. Placed  BY NothingRan DEF Placed
<1>5. NoLostWakeup  BY DEF NoLostWakeup
<1> QED  BY <1>1, <1>3, <1>4, <1>5 DEF IInv

\* It is an invariant of the pool.
THEOREM PoolInvariant == Spec => []IInv
<1>1. IInv /\ [Next]_vars => IInv'  BY TypesStep, PhaseStep, PlacedStep, NoLostWakeupStep DEF IInv
<1> QED  BY <1>1, InitIInv, PTL DEF Spec

\* Every variable has its type; the counts never exceed the threads there may be.
THEOREM TypeCorrect == Spec => []TypeOK
<1>1. IInv => TypeOK
  <2> SUFFICES ASSUME IInv PROVE TypeOK
    OBVIOUS
  <2>1. Alive \in SUBSET Workers  BY DEF Alive
  <2>2. m_threadCount \in 0..Cardinality(Workers)  BY <2>1, CountWorkers DEF IInv, Phase
  <2>3. m_threadCountNow \in 0..Cardinality(Workers)  BY CountWorkers DEF IInv, Phase, Types
  <2> QED  BY <2>2, <2>3 DEF IInv, Types, TypeOK
<1> QED  BY <1>1, PoolInvariant, PTL

\* A command put() has taken is executed by one worker, once.
THEOREM OnePlaceAlways == Spec => []OnePlace
<1>1. IInv => OnePlace  BY DEF IInv, Placed, OnePlace, Distinct
<1> QED  BY <1>1, PoolInvariant, PTL

\* stop() returns when every command is executed and every thread has ended.
THEOREM StopFinishesAlways == Spec => []StopFinishes
<1>1. IInv => StopFinishes
  <2> SUFFICES ASSUME IInv, ctl = "reset"
               PROVE  Ran(executed) = 1..puts /\ \A w \in Workers : pc[w] = "none"
    BY DEF StopFinishes
  <2>1. \A w \in Workers : pc[w] = "none"  BY DEF IInv, Phase, Alive
  <2>2. \A w \in Workers : hand[w] = <<>>  BY <2>1 DEF IInv, Placed
  <2>3. m_commands = <<>>  BY <2>1 DEF IInv, Phase, Stopping
  <2>4. Ran(<<>>) = {}  BY NothingRan
  <2> QED  BY <2>1, <2>2, <2>3, <2>4 DEF IInv, Placed
<1> QED  BY <1>1, PoolInvariant, PTL

\* start() returns with all its threads ready to take commands.
THEOREM StartReadyAlways == Spec => []StartReady
<1>1. IInv => StartReady  BY DEF IInv, Phase, StartReady, Stopping
<1> QED  BY <1>1, PoolInvariant, PTL

\* While commands are queued, a worker has been signalled or will look.
THEOREM NoLostWakeupAlways == Spec => []NoLostWakeup
  BY PoolInvariant, PTL DEF IInv
=============================================================================
