----------------------- MODULE UTETcpTransportProofs -----------------------
(***************************************************************************)
(* Theorems about UTETcpTransport for any payloads, message length and     *)
(* number of writes.  OneWriteInFlight is not inductive by itself: that    *)
(* write() and on_write never start a second operation rests on what an    *)
(* empty active buffer means, and that depends on how the last operation   *)
(* ended.  Buffers below says it.                                          *)
(***************************************************************************)
EXTENDS UTETcpTransport, SequenceTheorems, TLAPS

\* The state of the two buffers between, during and after operations.
Buffers ==
    /\ ops # <<>> => Head(ops).done <= Head(ops).n
    /\ ops = <<>> /\ buf[active] = <<>> /\ buf[pending] # <<>> => completion = "ok"
    /\ ops = <<>> /\ buf[active] # <<>> => failed
    /\ failed => ops = <<>> /\ buf[active] # <<>> /\ completion # "ok"
    /\ completion = "error" => failed

IInv == TypeOK /\ OneWriteInFlight /\ Buffers

\* The part of the buffers asio has not handed to the socket.
Sent == IF ops = <<>> THEN 0 ELSE Head(ops).done
Unsent == SubSeq(buf[active], Sent + 1, Len(buf[active])) \o buf[pending]

\* What is on the wire and what is buffered make up what was accepted.
Fifo == accepted = wire \o Unsent
-----------------------------------------------------------------------------
(* Sequences.                                                                             *)

LEMMA UnitsType ==
  ASSUME NEW p \in Payload
  PROVE  Units(p) \in Seq(Unit) /\ Units(p) # <<>> /\ Len(Units(p)) = MsgUnits
<1>1. Units(p) \in [1..MsgUnits -> Unit]
  BY DEF Units, Unit
<1>2. Units(p) \in Seq(Unit) /\ Len(Units(p)) = MsgUnits
  BY <1>1, TransportAssumption
<1> QED  BY <1>2, TransportAssumption

LEMMA Swap == Other(active) \in Buffer /\ (active \in Buffer => Other(Other(active)) = active)
              /\ (active \in Buffer => Other(active) # active)
  BY DEF Other, Buffer

\* Facts of the library about concatenation, for the sequences of this module.
LEMMA UnitsAssoc ==
  ASSUME NEW a \in Seq(Unit), NEW b \in Seq(Unit), NEW c \in Seq(Unit)
  PROVE  (a \o b) \o c = a \o (b \o c)
  BY ConcatAssociative

LEMMA UnitsConcat ==
  ASSUME NEW a \in Seq(Unit), NEW b \in Seq(Unit)
  PROVE  /\ Len(a \o b) = Len(a) + Len(b)
         /\ \A i \in 1..Len(a) + Len(b) :
              (a \o b)[i] = IF i <= Len(a) THEN a[i] ELSE b[i - Len(a)]
  BY ConcatProperties

LEMMA OneOp ==
  ASSUME TypeOK, OneWriteInFlight, ops # <<>>
  PROVE  /\ ops = <<ops[1]>> /\ Head(ops) = ops[1] /\ Tail(ops) = <<>>
         /\ ops[1] \in Op /\ ops[1].buf = active /\ ops[1].n = Len(buf[active])
<1>1. ops \in Seq(Op) /\ Len(ops) \in Nat \ {0}
  BY EmptySeq DEF TypeOK
<1>2. Len(ops) = 1
  <2>1. Len(ops) <= 1  BY DEF OneWriteInFlight
  <2>2. \A k \in Nat \ {0} : k <= 1 => k = 1  OBVIOUS
  <2>3. Len(ops) \in Nat \ {0}  BY <1>1
  <2> HIDE <1>1
  <2> QED  BY <2>1, <2>2, <2>3
<1>3. ops[1] \in Op
  BY <1>1, <1>2, ElementOfSeq
<1>4. Head(ops) = ops[1]
  BY <1>1
<1>5. ops = <<ops[1]>>
  BY <1>1, <1>2, <1>3, SeqEqual
<1>6. Tail(ops) = <<>>
  <2>1. Tail(ops) \in Seq(Op) /\ Len(Tail(ops)) = 0
    BY <1>1, <1>2, HeadTailProperties
  <2> QED  BY <2>1, EmptySeq
<1> QED  BY <1>3, <1>4, <1>5, <1>6 DEF OneWriteInFlight

-----------------------------------------------------------------------------
LEMMA InitIInv == Init => IInv /\ Fifo
<1> SUFFICES ASSUME Init PROVE IInv /\ Fifo
  OBVIOUS
<1>1. ops = <<>> /\ Len(ops) = 0 /\ \A b \in Buffer : buf[b] = <<>> /\ Len(buf[b]) = 0
  BY EmptySeq DEF Init
<1>2. active \in Buffer /\ pending \in Buffer
  BY Swap DEF Init, Buffer, pending
<1>3. TypeOK
  <2>1. <<>> \in Seq(Unit) /\ <<>> \in Seq(Op)
    BY EmptySeq
  <2>2. 0 \in 0..MaxWrites
    BY TransportAssumption
  <2> QED  BY <1>2, <2>1, <2>2 DEF Init, TypeOK
<1>4. OneWriteInFlight /\ Buffers
  BY <1>1, <1>2 DEF Init, OneWriteInFlight, Buffers
<1>5. Unsent = <<>>
  <2>1. SubSeq(buf[active], Sent + 1, Len(buf[active])) = <<>>
    BY <1>1, <1>2, SubSeqEmpty DEF Sent
  <2> QED  BY <1>1, <1>2, <2>1, EmptySeq, ConcatEmptySeq DEF Unsent
<1> QED
  BY <1>3, <1>4, <1>5, EmptySeq, ConcatEmptySeq DEF IInv, Fifo, Init

\* Starting an operation on the other buffer when none is in progress.
LEMMA Started ==
  ASSUME TypeOK, NEW contents \in Seq(Unit), contents # <<>>, ops = <<>>,
         StartWrite(pending, contents)
  PROVE  /\ active' = pending /\ active' \in Buffer /\ pending' = active
         /\ ops' = <<[buf |-> pending, n |-> Len(contents), done |-> 0]>>
         /\ ops' \in Seq(Op) /\ ops' # <<>> /\ Len(ops') = 1
         /\ Head(ops') = [buf |-> pending, n |-> Len(contents), done |-> 0]
<1>1. active' = pending /\ active' \in Buffer /\ pending' = active
  BY Swap DEF StartWrite, pending, TypeOK
<1>2. [buf |-> pending, n |-> Len(contents), done |-> 0] \in Op
  BY <1>1 DEF Op
<1>3. ops' = <<[buf |-> pending, n |-> Len(contents), done |-> 0]>>
  BY <1>1 DEF StartWrite
<1> QED  BY <1>1, <1>2, <1>3

LEMMA WriteIInv ==
  ASSUME IInv, NEW t \in Writer, NEW p \in Payload, Write(t, p)
  PROVE  IInv'
<1> DEFINE filled == buf[pending] \o Units(p)
<1>1. /\ buf \in [Buffer -> Seq(Unit)] /\ pending \in Buffer /\ active \in Buffer
      /\ pending # active
  BY Swap DEF IInv, TypeOK, pending
<1>2. filled \in Seq(Unit) /\ filled # <<>>
  <2>1. buf[pending] \in Seq(Unit)
    BY <1>1
  <2>2. Len(filled) = Len(buf[pending]) + MsgUnits
    BY <2>1, UnitsType
  <2> QED  BY <2>1, <2>2, UnitsType, TransportAssumption
<1>3. /\ buf' = [buf EXCEPT ![pending] = filled] /\ buf' \in [Buffer -> Seq(Unit)]
      /\ buf'[active] = buf[active] /\ buf'[pending] = filled
  BY <1>1, <1>2 DEF Write
<1>4. /\ writes' \in 0..MaxWrites /\ completion' = completion /\ failed' = failed
      /\ wire' = wire /\ accepted' \in Seq(Unit)
  BY UnitsType, TransportAssumption DEF Write, IInv, TypeOK
<1>5. CASE buf[active] = <<>>
  <2>1. ops = <<>>
    BY <1>5, OneOp DEF IInv, Op
  <2>2. StartWrite(pending, filled)
    BY <1>5 DEF Write
  <2> HIDE DEF filled
  <2>3. /\ active' = pending /\ active' \in Buffer /\ pending' = active
        /\ ops' \in Seq(Op) /\ ops' # <<>> /\ Len(ops') = 1
        /\ Head(ops') = [buf |-> pending, n |-> Len(filled), done |-> 0]
    BY <1>2, <2>1, <2>2, Started DEF IInv
  <2>4. TypeOK'
    BY <1>3, <1>4, <2>3 DEF IInv, TypeOK
  <2>5. OneWriteInFlight'
    BY <1>3, <2>3 DEF OneWriteInFlight
  <2>6. Buffers'
    BY <1>2, <1>4, <1>5, <2>3 DEF Buffers, IInv
  <2> QED  BY <2>4, <2>5, <2>6 DEF IInv
<1>6. CASE buf[active] # <<>>
  <2>1. active' = active /\ ops' = ops /\ pending' = pending
    BY <1>6 DEF Write, pending
  <2>2. TypeOK'
    BY <1>3, <1>4, <2>1 DEF IInv, TypeOK
  <2>3. OneWriteInFlight'
    BY <1>3, <2>1 DEF IInv, OneWriteInFlight
  <2>4. Buffers'
    BY <1>3, <1>4, <1>6, <2>1 DEF IInv, Buffers
  <2> QED  BY <2>2, <2>3, <2>4 DEF IInv
<1> QED  BY <1>5, <1>6

LEMMA TransferIInv == ASSUME IInv, Transfer PROVE IInv'
<1> DEFINE op == ops[1]
<1>1. /\ ops = <<op>> /\ Head(ops) = op /\ Tail(ops) = <<>> /\ op \in Op
      /\ op.buf = active /\ op.n = Len(buf[active])
  BY OneOp DEF Transfer, IInv
<1>2. op.done < op.n /\ ops' = <<[op EXCEPT !.done = @ + 1]>> \o <<>>
  BY <1>1 DEF Transfer
<1>3. [op EXCEPT !.done = @ + 1] \in Op
  BY <1>1 DEF Op
<1>4. /\ ops' \in Seq(Op) /\ Len(ops') = 1 /\ ops' # <<>>
      /\ ops' = <<[op EXCEPT !.done = @ + 1]>>
      /\ Head(ops') = [op EXCEPT !.done = @ + 1]
  BY <1>2, <1>3
<1>5. /\ Head(ops').buf = active /\ Head(ops').n = op.n /\ Head(ops').done = op.done + 1
      /\ op.done + 1 <= op.n
  BY <1>1, <1>2, <1>4 DEF Op
<1>6. wire' \in Seq(Unit)
  <2>1. buf[active] \in Seq(Unit) /\ op.done + 1 \in 1..Len(buf[active])
    BY <1>1, <1>2 DEF IInv, TypeOK, Op
  <2>2. buf[active][op.done + 1] \in Unit
    BY <2>1, ElementOfSeq
  <2>3. wire' = Append(wire, buf[active][op.done + 1])
    BY <1>1 DEF Transfer
  <2> QED  BY <2>2, <2>3 DEF IInv, TypeOK
<1>7. TypeOK'
  BY <1>4, <1>6 DEF Transfer, IInv, TypeOK
<1>8. OneWriteInFlight'
  <2>1. buf' = buf /\ active' = active
    BY DEF Transfer
  <2> QED  BY <1>1, <1>4, <1>5, <2>1 DEF OneWriteInFlight
<1>9. Buffers'
  BY <1>1, <1>4, <1>5 DEF Transfer, IInv, Buffers, pending
<1> QED  BY <1>7, <1>8, <1>9 DEF IInv

LEMMA ConsumeIInv ==
  ASSUME IInv, NEW result \in {"ok", "error"}, Consume(result)
  PROVE  IInv'
<1> DEFINE op == ops[1]
           rest == SubSeq(buf[active], op.done + 1, Len(buf[active]))
<1>1. /\ ops = <<op>> /\ Head(ops) = op /\ Tail(ops) = <<>> /\ op \in Op
      /\ op.buf = active /\ op.n = Len(buf[active]) /\ op.done <= op.n
  BY OneOp DEF Consume, IInv, Buffers
<1>2. /\ ops' = <<>> /\ completion' = result /\ completion = "none"
      /\ (result = "ok" <=> op.done = op.n) /\ buf' = [buf EXCEPT ![active] = rest]
      /\ failed' = (failed \/ result = "error")
  BY <1>1 DEF Consume
<1>3. buf[active] \in Seq(Unit) /\ active \in Buffer /\ pending \in Buffer /\ pending # active
  BY Swap DEF IInv, TypeOK, pending
<1>4. /\ rest \in Seq(Unit)
      /\ Len(rest) = IF op.done < op.n THEN op.n - op.done ELSE 0
  <2>1. op.done + 1 \in Int /\ Len(buf[active]) \in Int
    BY <1>1, <1>3, LenProperties DEF Op
  <2>2. \A i \in op.done + 1..Len(buf[active]) : buf[active][i] \in Unit
    BY <1>1, <1>3, ElementOfSeq DEF Op
  <2>3. /\ rest \in Seq(Unit)
        /\ Len(rest) = IF op.done + 1 <= Len(buf[active])
                       THEN Len(buf[active]) - (op.done + 1) + 1 ELSE 0
    BY <2>1, <2>2, SubSeqProperties
  <2> QED  BY <1>1, <2>3 DEF Op
<1>5. buf'[active] = rest /\ buf'[pending] = buf[pending] /\ buf' \in [Buffer -> Seq(Unit)]
  BY <1>2, <1>3, <1>4 DEF IInv, TypeOK
<1>6. active' = active /\ pending' = pending /\ ~failed
  BY <1>1 DEF Consume, pending, IInv, Buffers
<1>7. (rest = <<>>) <=> (result = "ok")
  <2>1. op.done \in Nat /\ op.n \in Nat
    BY <1>1 DEF Op
  <2>2. Len(rest) = 0 <=> result = "ok"
    BY <1>1, <1>2, <1>4, <2>1
  <2> HIDE DEF rest
  <2> QED  BY <1>4, <2>2, EmptySeq
<1>8. TypeOK'
  BY <1>2, <1>5, <1>6, EmptySeq DEF Consume, IInv, TypeOK
<1>9. OneWriteInFlight'
  BY <1>2, EmptySeq DEF OneWriteInFlight
<1>10. Buffers'
  BY <1>2, <1>5, <1>6, <1>7 DEF Buffers
<1> QED  BY <1>8, <1>9, <1>10 DEF IInv

LEMMA OnWriteIInv == ASSUME IInv, OnWrite PROVE IInv'
<1>1. /\ completion # "none" /\ completion' = "none" /\ buf' = buf /\ failed' = failed
      /\ UNCHANGED <<writes, accepted, wire>>
  BY DEF OnWrite, FinishOnWrite
<1>2. active \in Buffer /\ pending \in Buffer /\ pending # active /\ buf \in [Buffer -> Seq(Unit)]
  BY Swap DEF IInv, TypeOK, pending
<1>3. CASE completion = "ok" /\ buf[active] = <<>> /\ buf[pending] # <<>>
  <2>1. ops = <<>>
    BY <1>3, <1>2, OneOp, EmptySeq DEF IInv, Op
  <2>2. StartWrite(pending, buf[pending])
    BY <1>3 DEF OnWrite
  <2>3. /\ active' = pending /\ active' \in Buffer /\ pending' = active
        /\ ops' \in Seq(Op) /\ ops' # <<>> /\ Len(ops') = 1
        /\ Head(ops') = [buf |-> pending, n |-> Len(buf[pending]), done |-> 0]
    BY <1>2, <1>3, <2>1, <2>2, Started DEF IInv
  <2>4. TypeOK'
    BY <1>1, <2>3 DEF IInv, TypeOK
  <2>5. OneWriteInFlight'
    BY <1>1, <2>3 DEF OneWriteInFlight
  <2>6. Buffers'
    BY <1>1, <1>2, <1>3, <2>3, EmptySeq DEF Buffers, IInv
  <2> QED  BY <2>4, <2>5, <2>6 DEF IInv
<1>4. CASE ~(completion = "ok" /\ buf[active] = <<>> /\ buf[pending] # <<>>)
  <2>1. active' = active /\ ops' = ops /\ pending' = pending
    BY <1>4 DEF OnWrite, pending
  <2>2. TypeOK'
    BY <1>1, <2>1 DEF IInv, TypeOK
  <2>3. OneWriteInFlight'
    BY <1>1, <2>1 DEF IInv, OneWriteInFlight
  <2>4. Buffers'
    BY <1>1, <1>4, <2>1 DEF IInv, Buffers
  <2> QED  BY <2>2, <2>3, <2>4 DEF IInv
<1> QED  BY <1>3, <1>4

LEMMA IInvStep == IInv /\ [Next]_vars => IInv'
<1> SUFFICES ASSUME IInv, [Next]_vars PROVE IInv'
  OBVIOUS
<1>1. CASE UNCHANGED vars
  BY <1>1 DEF vars, IInv, TypeOK, OneWriteInFlight, Buffers, pending
<1>2. ASSUME NEW t \in Writer, NEW p \in Payload, Write(t, p) PROVE IInv'
  BY <1>2, WriteIInv
<1>3. CASE Transfer  BY <1>3, TransferIInv
<1>4. CASE Consume("ok")  BY <1>4, ConsumeIInv
<1>5. CASE Consume("error")  BY <1>5, ConsumeIInv
<1>6. CASE OnWrite  BY <1>6, OnWriteIInv
<1> QED  BY <1>1, <1>2, <1>3, <1>4, <1>5, <1>6 DEF Next

LEMMA SpecIInv == Spec => []IInv
<1>1. Init => IInv  BY InitIInv
<1> QED  BY <1>1, IInvStep, PTL DEF Spec
-----------------------------------------------------------------------------
(* The order of the units.                                                                *)

\* The buffer of the operation in progress, from the next unit on.
Rest == SubSeq(buf[active], Sent + 1, Len(buf[active]))

LEMMA RestType ==
  ASSUME IInv
  PROVE  /\ Rest \in Seq(Unit) /\ buf[pending] \in Seq(Unit) /\ buf[active] \in Seq(Unit)
         /\ Unsent = Rest \o buf[pending] /\ Unsent \in Seq(Unit)
         /\ Sent \in Nat /\ Sent <= Len(buf[active])
         /\ wire \in Seq(Unit) /\ accepted \in Seq(Unit)
<1>1. buf[active] \in Seq(Unit) /\ buf[pending] \in Seq(Unit) /\ wire \in Seq(Unit)
      /\ accepted \in Seq(Unit)
  BY Swap DEF IInv, TypeOK, pending
<1>2. Len(buf[active]) \in Nat
  BY <1>1, LenProperties
<1>3. Sent \in Nat /\ Sent <= Len(buf[active])
  <2>1. CASE ops = <<>>  BY <1>2, <2>1 DEF Sent
  <2>2. CASE ops # <<>>  BY <1>2, <2>2, OneOp DEF Sent, IInv, Buffers, Op
  <2> QED  BY <2>1, <2>2
<1>4. Rest \in Seq(Unit)
  <2>1. \A i \in Sent + 1..Len(buf[active]) : buf[active][i] \in Unit
    BY <1>1, <1>2, <1>3, ElementOfSeq
  <2>2. Sent + 1 \in Int /\ Len(buf[active]) \in Int
    BY <1>2, <1>3
  <2> QED  BY <2>1, <2>2, SubSeqProperties DEF Rest
<1> QED  BY <1>1, <1>3, <1>4, ConcatProperties DEF Unsent, Rest

\* With nothing in progress and the active buffer empty, what is unsent is what is pending.
LEMMA UnsentPending ==
  ASSUME IInv, ops = <<>>, buf[active] = <<>>
  PROVE  Unsent = buf[pending]
<1>1. Rest = <<>>
  BY SubSeqEmpty, EmptySeq DEF Rest, Sent
<1> QED  BY <1>1, RestType, ConcatEmptySeq

\* An operation that has just begun has everything to send.
LEMMA UnsentStarted == IInv /\ Sent = 0 => Unsent = buf[active] \o buf[pending]
<1> SUFFICES ASSUME IInv, Sent = 0 PROVE Unsent = buf[active] \o buf[pending]
  OBVIOUS
<1>1. Rest = buf[active]
  BY RestType, SubSeqFull DEF Rest
<1> QED  BY <1>1, RestType

LEMMA StartedNext ==
  ASSUME IInv', Sent' = 0
  PROVE  Unsent' = buf'[active'] \o buf'[pending']
<1>1. (IInv /\ Sent = 0 => Unsent = buf[active] \o buf[pending])'
  BY UnsentStarted, PTL
<1> QED  BY <1>1

LEMMA WriteFifo ==
  ASSUME IInv, IInv', Fifo, NEW t \in Writer, NEW p \in Payload, Write(t, p)
  PROVE  Fifo'
<1> DEFINE u == Units(p)
<1>1. u \in Seq(Unit) /\ accepted' = accepted \o u /\ wire' = wire
  BY UnitsType DEF Write
<1>2. accepted' = wire \o (Unsent \o u)
  <2>1. accepted = wire \o Unsent
    BY DEF Fifo
  <2>2. (wire \o Unsent) \o u = wire \o (Unsent \o u)
    BY <1>1, RestType, UnitsAssoc
  <2> QED  BY <1>1, <2>1, <2>2
<1>3. active \in Buffer /\ pending \in Buffer /\ pending # active
      /\ buf' = [buf EXCEPT ![pending] = buf[pending] \o u]
  BY Swap DEF IInv, TypeOK, pending, Write
<1>4. buf'[active] = buf[active] /\ buf'[pending] = buf[pending] \o u
  BY <1>3 DEF IInv, TypeOK
<1>5. Unsent' = Unsent \o u
  <2>1. CASE buf[active] = <<>>
    <3>1. ops = <<>>
      BY <2>1, OneOp, EmptySeq DEF IInv, Op
    <3>2. active' = pending /\ pending' = active /\ Sent' = 0
      <4>1. StartWrite(pending, buf[pending] \o u)
        BY <2>1 DEF Write
      <4>2. buf[pending] \o u \in Seq(Unit) /\ buf[pending] \o u # <<>>
        BY <1>1, RestType, UnitsType, ConcatProperties, ConcatEqualIffEmpty
      <4> HIDE DEF u
      <4>3. active' = pending /\ pending' = active /\ ops' # <<>>
            /\ Head(ops') = [buf |-> pending, n |-> Len(buf[pending] \o u), done |-> 0]
        BY <3>1, <4>1, <4>2, Started DEF IInv
      <4> QED  BY <4>3 DEF Sent
    <3>3. Unsent' = buf'[active'] \o buf'[pending']
      BY <3>2, StartedNext
    <3>4. Unsent' = (buf[pending] \o u) \o <<>>
      BY <1>4, <2>1, <3>2, <3>3
    <3>5. Unsent = buf[pending]
      BY <2>1, <3>1, UnsentPending
    <3>6. buf[pending] \o u \in Seq(Unit)
      BY <1>1, RestType, ConcatProperties
    <3> QED  BY <3>4, <3>5, <3>6, ConcatEmptySeq
  <2>2. CASE buf[active] # <<>>
    <3>1. active' = active /\ ops' = ops /\ pending' = pending
      BY <2>2 DEF Write, pending
    <3>2. Unsent' = Rest \o (buf[pending] \o u)
      BY <1>4, <3>1 DEF Unsent, Rest, Sent
    <3>3. (Rest \o buf[pending]) \o u = Rest \o (buf[pending] \o u)
      <4>1. u \in Seq(Unit) /\ Rest \in Seq(Unit) /\ buf[pending] \in Seq(Unit)
        BY <1>1, RestType
      <4> HIDE DEF u
      <4> QED  BY <4>1, UnitsAssoc
    <3> QED  BY <3>2, <3>3, RestType
  <2> QED  BY <2>1, <2>2
<1> QED  BY <1>1, <1>2, <1>5 DEF Fifo

\* The unit Transfer takes is the first of the unsent ones.
LEMMA TransferUnit ==
  ASSUME IInv, Transfer
  PROVE  LET x == buf[active][Sent + 1]
         IN  /\ x \in Unit /\ wire' = wire \o <<x>> /\ wire' = Append(wire, x)
             /\ Unsent = <<x>> \o Unsent' /\ Unsent' \in Seq(Unit)
<1> DEFINE x == buf[active][Sent + 1]
           r == SubSeq(buf[active], Sent + 1 + 1, Len(buf[active]))
<1>1. /\ Head(ops) = ops[1] /\ ops[1] \in Op /\ ops[1].buf = active
      /\ ops[1].n = Len(buf[active]) /\ ops # <<>> /\ Tail(ops) = <<>>
  BY OneOp DEF Transfer, IInv
<1>2. Sent = ops[1].done /\ Sent < Len(buf[active])
  BY <1>1 DEF Sent, Transfer
<1>3. Sent + 1 \in 1..Len(buf[active]) /\ Len(buf[active]) \in Sent + 1..Len(buf[active])
  BY <1>2, RestType, LenProperties
<1>4. x \in Unit
  BY <1>3, RestType, ElementOfSeq
<1>5. Rest = <<x>> \o r
  BY <1>3, RestType, SubSeqRecursiveFirst DEF Rest
<1>6. wire' = Append(wire, x) /\ buf' = buf /\ active' = active /\ pending' = pending
  BY <1>1, <1>2 DEF Transfer, pending
<1>7. wire' = wire \o <<x>>
  BY <1>4, <1>6, RestType, AppendIsConcat
<1>8. Sent' = Sent + 1
  <2>1. ops' = <<[ops[1] EXCEPT !.done = @ + 1]>> \o <<>>
    BY <1>1 DEF Transfer
  <2>2. [ops[1] EXCEPT !.done = @ + 1] \in Op
    BY <1>1 DEF Op
  <2>3. ops' = <<[ops[1] EXCEPT !.done = @ + 1]>>
    BY <2>1, <2>2
  <2>4. ops' # <<>> /\ Head(ops').done = ops[1].done + 1
    BY <1>1, <2>2, <2>3 DEF Op
  <2> QED  BY <1>2, <2>4 DEF Sent
<1>9. Unsent' = r \o buf[pending]
  BY <1>6, <1>8 DEF Unsent
<1>10. r \in Seq(Unit)
  <2>1. \A i \in Sent + 1 + 1..Len(buf[active]) : buf[active][i] \in Unit
    BY RestType, LenProperties, ElementOfSeq
  <2>2. Sent + 1 + 1 \in Int /\ Len(buf[active]) \in Int
    BY RestType, LenProperties
  <2> QED  BY <2>1, <2>2, SubSeqProperties
<1>11. Unsent = <<x>> \o (r \o buf[pending])
  <2>1. <<x>> \in Seq(Unit)
    BY <1>4
  <2>2. (<<x>> \o r) \o buf[pending] = <<x>> \o (r \o buf[pending])
    BY <1>10, <2>1, RestType, UnitsAssoc
  <2> QED  BY <1>5, <2>2, RestType
<1>12. r \o buf[pending] \in Seq(Unit)
  BY <1>10, RestType, ConcatProperties
<1> QED  BY <1>4, <1>6, <1>7, <1>9, <1>11, <1>12

LEMMA TransferFifo == ASSUME IInv, Fifo, Transfer PROVE Fifo'
<1> DEFINE x == buf[active][Sent + 1]
<1>1. x \in Unit /\ wire' = wire \o <<x>> /\ Unsent = <<x>> \o Unsent' /\ Unsent' \in Seq(Unit)
  BY TransferUnit
<1>2. <<x>> \in Seq(Unit)
  BY <1>1
<1>3. wire \o (<<x>> \o Unsent') = (wire \o <<x>>) \o Unsent'
  <2>1. <<x>> \in Seq(Unit) /\ Unsent' \in Seq(Unit) /\ wire \in Seq(Unit)
    BY <1>1, <1>2, RestType
  <2> HIDE DEF x
  <2> QED  BY <2>1, UnitsAssoc
<1>4. accepted' = accepted
  BY DEF Transfer
<1> QED  BY <1>1, <1>3, <1>4 DEF Fifo

LEMMA ConsumeFifo ==
  ASSUME IInv, IInv', Fifo, NEW result \in {"ok", "error"}, Consume(result)
  PROVE  Fifo'
<1>1. /\ Head(ops) = ops[1] /\ ops[1].buf = active /\ ops # <<>> /\ Tail(ops) = <<>>
  BY OneOp DEF Consume, IInv
<1>2. /\ buf' = [buf EXCEPT ![active] = Rest] /\ ops' = <<>>
      /\ UNCHANGED <<active, pending, accepted, wire>>
  BY <1>1 DEF Consume, Rest, Sent, pending
<1>3. buf'[active] = Rest /\ buf'[pending] = buf[pending]
  BY <1>2, Swap DEF IInv, TypeOK, pending
<1>4. Unsent' = buf'[active'] \o buf'[pending']
  <2>1. Sent' = 0  BY <1>2 DEF Sent
  <2> QED  BY <2>1, StartedNext
<1> QED  BY <1>2, <1>3, <1>4, RestType DEF Fifo

LEMMA OnWriteFifo == ASSUME IInv, IInv', Fifo, OnWrite PROVE Fifo'
<1>1. UNCHANGED <<buf, accepted, wire>>
  BY DEF OnWrite, FinishOnWrite
<1>2. CASE completion = "ok" /\ buf[active] = <<>> /\ buf[pending] # <<>>
  <2>1. ops = <<>>
    BY <1>2, OneOp, EmptySeq DEF IInv, Op
  <2>2. active' = pending /\ pending' = active /\ Sent' = 0
    <3>1. StartWrite(pending, buf[pending])
      BY <1>2 DEF OnWrite
    <3>2. active' = pending /\ pending' = active /\ ops' # <<>>
          /\ Head(ops') = [buf |-> pending, n |-> Len(buf[pending]), done |-> 0]
      BY <1>2, <2>1, <3>1, RestType, Started DEF IInv
    <3> QED  BY <3>2 DEF Sent
  <2>3. Unsent' = buf'[active'] \o buf'[pending']
    BY <2>2, StartedNext
  <2>4. Unsent' = buf[pending]
    BY <1>1, <1>2, <2>2, <2>3, RestType, ConcatEmptySeq
  <2>5. Unsent = buf[pending]
    BY <1>2, <2>1, UnsentPending
  <2> QED  BY <1>1, <2>4, <2>5 DEF Fifo
<1>3. CASE ~(completion = "ok" /\ buf[active] = <<>> /\ buf[pending] # <<>>)
  BY <1>1, <1>3 DEF OnWrite, Fifo, Unsent, Sent, pending
<1> QED  BY <1>2, <1>3

LEMMA FifoStep == IInv /\ IInv' /\ Fifo /\ [Next]_vars => Fifo'
<1> SUFFICES ASSUME IInv, IInv', Fifo, [Next]_vars PROVE Fifo'
  OBVIOUS
<1>1. CASE UNCHANGED vars
  BY <1>1 DEF vars, Fifo, Unsent, Sent, pending
<1>2. ASSUME NEW t \in Writer, NEW p \in Payload, Write(t, p) PROVE Fifo'
  BY <1>2, WriteFifo
<1>3. CASE Transfer  BY <1>3, TransferFifo
<1>4. CASE Consume("ok")  BY <1>4, ConsumeFifo
<1>5. CASE Consume("error")  BY <1>5, ConsumeFifo
<1>6. CASE OnWrite  BY <1>6, OnWriteFifo
<1> QED  BY <1>1, <1>2, <1>3, <1>4, <1>5, <1>6 DEF Next

\* Every step is a step of the channel or leaves it alone.
LEMMA ChannelStep == IInv /\ Fifo /\ [Next]_vars => [Channel!Next]_(Channel!vars)
<1> SUFFICES ASSUME IInv, Fifo, [Next]_vars PROVE [Channel!Next]_(Channel!vars)
  OBVIOUS
<1> USE DEF Channel!Next, Channel!vars
<1>1. CASE UNCHANGED vars
  BY <1>1 DEF vars
<1>2. ASSUME NEW t \in Writer, NEW p \in Payload, Write(t, p) PROVE [Channel!Next]_(Channel!vars)
  <2>1. Units(p) \in {Units(q) : q \in Payload}
    OBVIOUS
  <2>2. Channel!Send(Units(p))
    BY <1>2 DEF Channel!Send, Write
  <2> QED  BY <2>1, <2>2
<1>3. CASE Transfer
  <2> DEFINE x == buf[active][Sent + 1]
             z == <<x>> \o Unsent'
  <2>1. /\ x \in Unit /\ wire' = Append(wire, x) /\ Unsent = z /\ Unsent' \in Seq(Unit)
        /\ <<x>> \in Seq(Unit)
    BY <1>3, TransferUnit
  <2>2. z \in Seq(Unit) /\ Len(z) = 1 + Len(Unsent') /\ z[1] = x /\ Len(Unsent') \in Nat
    <3>1. Len(<<x>>) = 1 /\ <<x>>[1] = x
      OBVIOUS
    <3>2. Len(Unsent') \in Nat
      BY <2>1, LenProperties
    <3> QED  BY <2>1, <3>1, <3>2, ConcatProperties
  <2> HIDE DEF z
  <2>3. accepted = wire \o z
    BY <2>1 DEF Fifo
  <2>4. Len(accepted) = Len(wire) + Len(z) /\ accepted[Len(wire) + 1] = z[1]
        /\ Len(wire) \in Nat
    <3>1. wire \in Seq(Unit) /\ Len(wire) \in Nat
      BY RestType, LenProperties
    <3>2. /\ Len(wire \o z) = Len(wire) + Len(z)
          /\ \A i \in 1..Len(wire) + Len(z) :
               (wire \o z)[i] = IF i <= Len(wire) THEN wire[i] ELSE z[i - Len(wire)]
      <4>1. z \in Seq(Unit)  BY <2>2
      <4> QED  BY <3>1, <4>1, UnitsConcat
    <3>3. Len(wire) + 1 \in 1..Len(wire) + Len(z) /\ ~(Len(wire) + 1 <= Len(wire))
          /\ Len(wire) + 1 - Len(wire) = 1
      BY <2>2, <3>1
    <3> QED  BY <2>3, <3>1, <3>2, <3>3
  <2>5. UNCHANGED accepted
    BY <1>3 DEF Transfer
  <2>6. Channel!Deliver
    BY <2>1, <2>2, <2>4, <2>5 DEF Channel!Deliver
  <2> QED  BY <2>6
<1>4. CASE Consume("ok")
  BY <1>4 DEF Consume
<1>5. CASE Consume("error")
  BY <1>5 DEF Consume
<1>6. CASE OnWrite
  BY <1>6 DEF OnWrite, FinishOnWrite
<1> QED  BY <1>1, <1>2, <1>3, <1>4, <1>5, <1>6 DEF Next
-----------------------------------------------------------------------------
(* The theorems.                                                                          *)

\* At most one asio::async_write is in progress and it sends the active buffer, although
\* write() and on_write decide on it at different times (UTETcpTransport::write).
THEOREM OneWrite == Spec => [](TypeOK /\ OneWriteInFlight)
<1>1. IInv => TypeOK /\ OneWriteInFlight  BY DEF IInv
<1> QED  BY <1>1, SpecIInv, PTL

\* Until an operation fails, buffered data has an operation or a completion to send it
\* (UTETcpTransport::on_write).
THEOREM NothingStalls == Spec => []NoStalledData
<1>1. IInv => NoStalledData
  BY Swap DEF IInv, Buffers, NoStalledData, TypeOK, pending, Buffer, Other
<1> QED  BY <1>1, SpecIInv, PTL

\* After a failed operation no byte is handed to the socket again.
THEOREM FailureSilences == Spec => SilentAfterFailure
<1>1. IInv /\ [Next]_vars => [failed => UNCHANGED wire]_vars
  BY DEF IInv, Buffers, Next, vars, Write, Transfer, Consume, OnWrite, FinishOnWrite
<1>2. Spec => [][failed => UNCHANGED wire]_vars
  BY <1>1, SpecIInv, PTL DEF Spec
<1> QED  BY <1>2 DEF SilentAfterFailure

\* The transport implements a FIFO channel of whole messages, for any payloads, any message
\* length and any interleaving of the two writers, asio and a failure.
THEOREM ImplementsChannel == Spec => ChannelSpec
<1>1. Init => Fifo /\ Channel!Init
  BY InitIInv DEF Init, Channel!Init
<1>2. IInv /\ IInv' /\ Fifo /\ [Next]_vars => Fifo'
  BY FifoStep
<1>3. IInv /\ Fifo /\ [Next]_vars => [Channel!Next]_(Channel!vars)
  BY ChannelStep
<1> QED
  BY <1>1, <1>2, <1>3, SpecIInv, PTL DEF Spec, ChannelSpec, Channel!Spec
============================================================================
