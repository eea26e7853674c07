-------------------------- MODULE AVCStreamProofs --------------------------
(***************************************************************************)
(* Theorems about AVCStream for any packet size, units, parameter sets and *)
(* frames.  They assume ParseExact: what push_frame's scanners compute is  *)
(* a recursive function and is left to TLC.  What remains is send_nalu:    *)
(* the fragments sent so far of a unit are a prefix of it (Fragments), and *)
(* what the receiver has and what is still to be sent make up what was     *)
(* given (Kept).  Last, the description (SDPEncoder): base64 loses nothing *)
(* (Base64Inverse), and the sets come first (SetsFirst).                   *)
(***************************************************************************)
EXTENDS SDPEncoder, SequenceTheorems, TLAPS

U == [data : Bytes, marker : BOOLEAN]

\* What is known of the units still to be sent.
Queue ==
    /\ \A i \in 1..Len(queue) : queue[i].data # <<>> /\ (queue[i].marker <=> i = Len(queue))
    /\ pc = "frame" => queue # <<>>
    /\ pc = "idle" => queue = <<>>
    /\ pack = "rfc" => queue = <<>>
    /\ pc \in {"sps", "pps"} /\ pack # "rfc" => queue # <<>>

\* The receiver's partial unit is what the fragments sent so far carried.
Fragments ==
    /\ left = 0 => partial = <<>>
    /\ left # 0 => /\ pc # "idle" /\ Len(Nalu) >= MaxPacketSize
                   /\ left < Len(Nalu) - 1
                   /\ partial = SubSeq(Nalu, 1, Len(Nalu) - left)

Data(q) == [i \in 1..Len(q) |-> q[i].data]

\* The units still to be sent to their end.
Remaining ==
    (IF pc = "sps" THEN Opt(sps) ELSE <<>>)
      \o ((IF pc \in {"sps", "pps"} THEN Opt(pps) ELSE <<>>) \o Data(queue))

Kept == accepted = rebuilt \o Remaining

Numbers == out # NoPacket => seqno = (out.seq + 1) % SeqMod

IInv == TypeOK /\ Queue /\ Fragments /\ Kept /\ Numbers
-----------------------------------------------------------------------------
(* Sequences of units.                                                                    *)

LEMMA DataType ==
  ASSUME NEW q \in Seq(U)
  PROVE  Data(q) \in Seq(Bytes) /\ Len(Data(q)) = Len(q)
<1>1. \A i \in 1..Len(q) : q[i].data \in Bytes
  <2>1. \A i \in 1..Len(q) : q[i] \in U
    BY ElementOfSeq
  <2> QED  BY <2>1 DEF U
<1>2. Data(q) \in [1..Len(q) -> Bytes]
  BY <1>1 DEF Data
<1>3. Len(q) \in Nat
  BY LenProperties
<1>4. Data(q) \in Seq(Bytes)
  BY <1>2, <1>3, IsASeq
<1> QED  BY <1>2, <1>3, <1>4, LenProperties

LEMMA DataEmpty == Data(<<>>) = <<>>
<1>1. Data(<<>>) \in Seq(Bytes) /\ Len(Data(<<>>)) = 0
  BY DataType, EmptySeq
<1> QED  BY <1>1, EmptySeq

LEMMA DataTail ==
  ASSUME NEW q \in Seq(U), q # <<>>
  PROVE  Data(q) = <<Head(q).data>> \o Data(Tail(q))
<1>1. Head(q) \in U /\ Tail(q) \in Seq(U) /\ Len(Tail(q)) = Len(q) - 1
      /\ \A i \in 1..Len(Tail(q)) : Tail(q)[i] = q[i + 1]
  BY HeadTailProperties
<1>2. Len(q) \in Nat \ {0} /\ Head(q) = q[1]
  BY EmptySeq, LenProperties
<1> DEFINE h == <<Head(q).data>>
           t == Data(Tail(q))
<1>3. h \in Seq(Bytes) /\ Len(h) = 1 /\ h[1] = q[1].data
  BY <1>1, <1>2 DEF U
<1>4. t \in Seq(Bytes) /\ Len(t) = Len(q) - 1 /\ \A i \in 1..Len(t) : t[i] = q[i + 1].data
  BY <1>1, <1>2, DataType DEF Data
<1>5. /\ h \o t \in Seq(Bytes) /\ Len(h \o t) = Len(q)
      /\ \A i \in 1..Len(q) : (h \o t)[i] = q[i].data
  <2> HIDE DEF h, t
  <2>1. /\ h \o t \in Seq(Bytes) /\ Len(h \o t) = Len(h) + Len(t)
        /\ \A i \in 1..Len(h) + Len(t) : (h \o t)[i] = IF i <= Len(h) THEN h[i] ELSE t[i - Len(h)]
    BY <1>3, <1>4, ConcatProperties
  <2>2. ASSUME NEW i \in 1..Len(q) PROVE (h \o t)[i] = q[i].data
    <3>1. CASE i = 1
      BY <1>2, <1>3, <1>4, <2>1, <3>1
    <3>2. CASE i # 1
      <4>1. i - 1 \in 1..Len(t) /\ ~(i <= Len(h)) /\ i \in 1..Len(h) + Len(t)
        BY <1>2, <1>3, <1>4, <3>2
      <4>2. (h \o t)[i] = t[i - 1] /\ t[i - 1] = q[(i - 1) + 1].data
        BY <1>3, <1>4, <2>1, <4>1
      <4> QED  BY <1>2, <4>2
    <3> QED  BY <3>1, <3>2
  <2> QED  BY <1>2, <1>3, <1>4, <2>1, <2>2
<1>6. Data(q) \in Seq(Bytes) /\ Len(Data(q)) = Len(q) /\ \A i \in 1..Len(q) : Data(q)[i] = q[i].data
  BY DataType DEF Data
<1> QED  BY <1>5, <1>6, SeqEqual

LEMMA UnitsAssoc ==
  ASSUME NEW a \in Seq(Bytes), NEW b \in Seq(Bytes), NEW c \in Seq(Bytes)
  PROVE  (a \o b) \o c = a \o (b \o c)
  BY ConcatAssociative

LEMMA OptType ==
  ASSUME NEW s \in Bytes
  PROVE  Opt(s) \in Seq(Bytes)
  BY EmptySeq DEF Opt

LEMMA SetsType == TypeOK => sps \in Bytes /\ pps \in Bytes
  BY PacketizerAssumption DEF TypeOK

LEMMA RemainingType ==
  ASSUME TypeOK
  PROVE  /\ Data(queue) \in Seq(Bytes) /\ Remaining \in Seq(Bytes)
         /\ (IF pc = "sps" THEN Opt(sps) ELSE <<>>) \in Seq(Bytes)
         /\ (IF pc \in {"sps", "pps"} THEN Opt(pps) ELSE <<>>) \in Seq(Bytes)
<1>1. Data(queue) \in Seq(Bytes)
  BY DataType DEF TypeOK, U
<1>2. /\ (IF pc = "sps" THEN Opt(sps) ELSE <<>>) \in Seq(Bytes)
      /\ (IF pc \in {"sps", "pps"} THEN Opt(pps) ELSE <<>>) \in Seq(Bytes)
  BY OptType, SetsType, EmptySeq
<1> QED  BY <1>1, <1>2, ConcatProperties DEF Remaining

LEMMA NaluType ==
  ASSUME TypeOK, Queue, pc # "idle"
  PROVE  Nalu \in Bytes /\ Len(Nalu) \in Nat /\ Present.marker \in BOOLEAN
<1>1. CASE pc = "frame"
  <2>1. Head(queue) \in U
    BY <1>1, HeadTailProperties DEF TypeOK, Queue, U
  <2> QED  BY <1>1, <2>1, LenProperties DEF Nalu, Present, U, Bytes
<1>2. CASE pc # "frame"
  <2>1. pc \in {"sps", "pps"}
    BY <1>2 DEF TypeOK
  <2> QED  BY <2>1, SetsType, LenProperties DEF Nalu, Present, Bytes
<1> QED  BY <1>1, <1>2
-----------------------------------------------------------------------------
(* Steps.                                                                                 *)

LEMMA InitIInv == Init => IInv
<1> SUFFICES ASSUME Init PROVE IInv
  OBVIOUS
<1>1. TypeOK
  <2>1. <<sps, pps>> \in ParamSets
    <3>1. PICK s \in ParamSets : sps = s[1] /\ pps = s[2]
      BY DEF Init
    <3>2. s = <<s[1], s[2]>>
      BY PacketizerAssumption
    <3> QED  BY <3>1, <3>2
  <2>2. <<>> \in Seq(U) /\ <<>> \in Seq(Bytes) /\ <<>> \in Bytes /\ 0 \in 0..MaxFrames
    BY EmptySeq, PacketizerAssumption DEF Bytes
  <2> QED  BY <2>1, <2>2 DEF Init, TypeOK, U
<1>2. Remaining = <<>>
  <2>1. Data(queue) = <<>>
    BY DataEmpty DEF Init
  <2>2. pc = "idle"
    BY DEF Init
  <2> QED  BY <2>1, <2>2, EmptySeq, ConcatEmptySeq DEF Remaining
<1>3. Kept
  BY <1>2, EmptySeq, ConcatEmptySeq DEF Kept, Init
<1>4. Queue /\ Fragments /\ Numbers
  BY EmptySeq DEF Init, Queue, Fragments, Numbers
<1> QED  BY <1>1, <1>3, <1>4 DEF IInv

\* The unit at hand was the first of the remaining ones; with it gone the queue is in order.
LEMMA UnitDone ==
  ASSUME TypeOK, Queue, pc # "idle", NextUnit, UNCHANGED params
  PROVE  /\ queue' \in Seq(U) /\ pc' \in {"idle", "pps", "frame"} /\ left' = 0
         /\ Queue'
         /\ Remaining' \in Seq(Bytes)
         /\ Remaining = Opt(Nalu) \o Remaining'
<1>1. queue \in Seq(U) /\ pc \in {"sps", "pps", "frame"} /\ sps' = sps /\ pps' = pps /\ pack' = pack
  BY DEF TypeOK, U, params
<1>2. CASE pc = "frame"
  <2>1. queue # <<>> /\ queue' = Tail(queue) /\ pack # "rfc"
    BY <1>2 DEF NextUnit, Queue
  <2>2. /\ queue' \in Seq(U) /\ Len(queue') = Len(queue) - 1
        /\ \A i \in 1..Len(queue') : queue'[i] = queue[i + 1]
        /\ Len(queue) \in Nat \ {0}
    BY <1>1, <2>1, HeadTailProperties, LenProperties, EmptySeq
  <2>3. pc' = IF queue' = <<>> THEN "idle" ELSE "frame"
    BY <1>2 DEF NextUnit
  <2>4. \A i \in 1..Len(queue') :
          queue'[i].data # <<>> /\ (queue'[i].marker <=> i = Len(queue'))
    <3> SUFFICES ASSUME NEW i \in 1..Len(queue')
                 PROVE  queue'[i].data # <<>> /\ (queue'[i].marker <=> i = Len(queue'))
      OBVIOUS
    <3>1. i + 1 \in 1..Len(queue) /\ (i + 1 = Len(queue) <=> i = Len(queue'))
      BY <2>2
    <3> QED  BY <2>2, <3>1 DEF Queue
  <2>5. Queue'
    BY <1>1, <2>1, <2>3, <2>4 DEF Queue
  <2>6. Remaining' = Data(queue')
    <3>1. Data(queue') \in Seq(Bytes)
      BY <2>2, DataType
    <3>2. ~(pc' \in {"sps", "pps"})
      BY <2>3
    <3> QED  BY <3>1, <3>2, ConcatEmptySeq, EmptySeq DEF Remaining, Data
  <2>7. Remaining = Data(queue)
    <3>1. Data(queue) \in Seq(Bytes)
      BY <1>1, DataType
    <3> QED  BY <1>2, <3>1, ConcatEmptySeq, EmptySeq DEF Remaining
  <2>8. Opt(Nalu) = <<Head(queue).data>>
    <3>1. Head(queue) = queue[1] /\ 1 \in 1..Len(queue)
      BY <1>1, <2>1, <2>2
    <3> QED  BY <1>2, <3>1 DEF Opt, Nalu, Present, Queue
  <2>9. Data(queue) = <<Head(queue).data>> \o Data(queue')
    BY <1>1, <2>1, DataTail
  <2> QED  BY <2>2, <2>3, <2>5, <2>6, <2>7, <2>8, <2>9, DataType DEF NextUnit
<1>3. CASE pc \in {"sps", "pps"}
  <2>1. queue' = queue /\ Queue' /\ pc' \in {"idle", "pps", "frame"}
    BY <1>1, <1>3 DEF NextUnit, Queue
  <2>2. Data(queue) \in Seq(Bytes) /\ Opt(sps) \in Seq(Bytes) /\ Opt(pps) \in Seq(Bytes)
    BY <1>1, DataType, OptType, SetsType
  <2>3. Data(queue)' = Data(queue)
    BY <2>1 DEF Data
  <2>4. Opt(sps)' = Opt(sps) /\ Opt(pps)' = Opt(pps)
    BY <1>1 DEF Opt
  <2>5. CASE pc = "sps"
    <3>1. pc' = "pps" /\ Nalu = sps
      BY <2>5 DEF NextUnit, Nalu, Present
    <3>2. Remaining = Opt(sps) \o (Opt(pps) \o Data(queue))
      BY <2>5 DEF Remaining
    <3>3. Opt(pps) \o Data(queue) \in Seq(Bytes)
      BY <2>2, ConcatProperties
    <3>4. Remaining' = Opt(pps) \o Data(queue)
      BY <2>3, <2>4, <3>1, <3>3, ConcatEmptySeq DEF Remaining
    <3> QED  BY <1>1, <2>1, <3>1, <3>2, <3>3, <3>4 DEF NextUnit
  <2>6. CASE pc = "pps"
    <3>1. pc' \notin {"sps", "pps"} /\ Nalu = pps
      BY <2>6 DEF NextUnit, Nalu, Present
    <3>2. Opt(pps) \o Data(queue) \in Seq(Bytes)
      BY <2>2, ConcatProperties
    <3>3. Remaining = Opt(pps) \o Data(queue)
      BY <2>6, <3>2, ConcatEmptySeq DEF Remaining
    <3>4. Remaining' = Data(queue)
      <4>1. Remaining' = <<>> \o (<<>> \o Data(queue))
        BY <2>3, <3>1 DEF Remaining
      <4> QED  BY <2>2, <4>1, ConcatEmptySeq
    <3> QED  BY <1>1, <2>1, <2>2, <3>1, <3>3, <3>4 DEF NextUnit
  <2> QED  BY <1>3, <2>5, <2>6
<1> QED  BY <1>1, <1>2, <1>3

\* The receiver gets the unit at hand, unless it is empty, and the packetizer goes on.
LEMMA UnitDelivered ==
  ASSUME TypeOK, Queue, Kept, pc # "idle", NextUnit, UNCHANGED params, accepted' = accepted,
         rebuilt' = IF Nalu = <<>> THEN rebuilt ELSE Append(rebuilt, Nalu)
  PROVE  Kept' /\ rebuilt' \in Seq(Bytes)
<1>1. rebuilt \in Seq(Bytes) /\ Nalu \in Bytes /\ Opt(Nalu) \in Seq(Bytes)
  BY NaluType, OptType DEF TypeOK
<1>2. Remaining' \in Seq(Bytes) /\ Remaining = Opt(Nalu) \o Remaining'
  BY UnitDone
<1>3. rebuilt \o Opt(Nalu) = rebuilt' /\ rebuilt' \in Seq(Bytes)
  <2>1. CASE Nalu = <<>>
    BY <1>1, <2>1, ConcatEmptySeq DEF Opt
  <2>2. CASE Nalu # <<>>
    BY <1>1, <2>2, AppendIsConcat, AppendProperties DEF Opt
  <2> QED  BY <2>1, <2>2
<1>4. rebuilt \o (Opt(Nalu) \o Remaining') = (rebuilt \o Opt(Nalu)) \o Remaining'
  BY <1>1, <1>2, UnitsAssoc
<1> QED  BY <1>2, <1>3, <1>4 DEF Kept

LEMMA Numbering ==
  ASSUME TypeOK, NEW p, NEW m, Numbers, SendPacket(p, m)
  PROVE  /\ seqno' \in 0..SeqMod - 1 /\ Numbers'
         /\ out # NoPacket /\ out' # out => out'.seq = (out.seq + 1) % SeqMod
<1>1. (seqno + 1) % SeqMod \in 0..SeqMod - 1
  BY PacketizerAssumption DEF TypeOK
<1>2. CASE p.data = <<>>
  BY <1>2 DEF SendPacket, TypeOK, Numbers
<1>3. CASE p.data # <<>>
  <2>1. out' = [packet |-> p, marker |-> m, seq |-> seqno] /\ seqno' = (seqno + 1) % SeqMod
    BY <1>3 DEF SendPacket, Numbered
  <2> QED  BY <1>1, <2>1 DEF Numbers
<1> QED  BY <1>2, <1>3

LEMMA SingleStep ==
  ASSUME IInv, SendSingle
  PROVE  /\ IInv'
         /\ rebuilt' = IF Nalu = <<>> THEN rebuilt ELSE Append(rebuilt, Nalu)
         /\ out' # out => /\ out'.marker = Present.marker
                          /\ out'.packet = Single(Nalu)
<1> USE DEF IInv
<1> DEFINE p == Single(Nalu)
<1>1. /\ pc # "idle" /\ NextUnit /\ UNCHANGED params /\ accepted' = accepted
      /\ first' = first /\ frames' = frames /\ SendPacket(p, Present.marker)
      /\ Len(Nalu) < MaxPacketSize
  BY DEF SendSingle
<1>2. Nalu \in Bytes /\ Len(Nalu) \in Nat
  BY <1>1, NaluType
<1>3. left = 0 /\ partial = <<>>
  BY <1>1, <1>2, PacketizerAssumption DEF Fragments, TypeOK
<1>4. p.form = "single" /\ p.data = Nalu
  BY DEF Single
<1>5. /\ rebuilt' = IF Nalu = <<>> THEN rebuilt ELSE Append(rebuilt, Nalu)
      /\ partial' = <<>>
  <2>1. CASE Nalu = <<>>
    BY <1>1, <1>3, <1>4, <2>1 DEF SendPacket
  <2>2. CASE Nalu # <<>>
    BY <1>1, <1>4, <2>2 DEF SendPacket, Unpack
  <2> QED  BY <2>1, <2>2
<1>6. Kept' /\ rebuilt' \in Seq(Bytes)
  BY <1>1, <1>5, UnitDelivered
<1>7. queue' \in Seq(U) /\ pc' \in {"idle", "pps", "frame"} /\ left' = 0 /\ Queue'
  BY <1>1, UnitDone
<1>8. seqno' \in 0..SeqMod - 1 /\ Numbers'
  BY <1>1, Numbering
<1>9. TypeOK'
  <2>1. <<>> \in Bytes
    BY EmptySeq DEF Bytes
  <2> QED  BY <1>1, <1>5, <1>6, <1>7, <1>8, <2>1 DEF TypeOK, params, U
<1>10. Fragments'
  BY <1>5, <1>7 DEF Fragments
<1>11. out' # out => out' = [packet |-> p, marker |-> Present.marker, seq |-> seqno]
  BY <1>1 DEF SendPacket, Numbered
<1> QED  BY <1>5, <1>6, <1>7, <1>8, <1>9, <1>10, <1>11

\* The header octet survives being taken apart; the fragments are adjacent pieces of the unit.
LEMMA HeaderOctet ==
  ASSUME NEW h \in Byte
  PROVE  (h \div 32) * 32 + (h % 32) = h
  BY DEF Byte

LEMMA Pieces ==
  ASSUME NEW u \in Bytes, NEW k \in 1..Len(u), NEW n \in k + 1..Len(u)
  PROVE  /\ SubSeq(u, 1, k) \o SubSeq(u, k + 1, n) = SubSeq(u, 1, n)
         /\ SubSeq(u, 1, n) \in Bytes
         /\ SubSeq(u, k + 1, n) \in Bytes /\ SubSeq(u, k + 1, n) # <<>>
         /\ Len(SubSeq(u, k + 1, n)) = n - k
<1>1. u \in Seq(Byte) /\ Len(u) \in Nat /\ \A i \in 1..Len(u) : u[i] \in Byte
  BY ElementOfSeq, LenProperties DEF Bytes
<1>2. /\ SubSeq(u, 1, n) \in Seq(Byte) /\ Len(SubSeq(u, 1, n)) = n
      /\ \A i \in 1..n : SubSeq(u, 1, n)[i] = u[i]
  <2>1. 1 \in Int /\ n \in Int /\ 1 <= n /\ \A i \in 1..n : u[i] \in Byte
    BY <1>1
  <2> QED  BY <2>1, SubSeqProperties
<1>3. /\ SubSeq(u, 1, k) \in Seq(Byte) /\ Len(SubSeq(u, 1, k)) = k
      /\ \A i \in 1..k : SubSeq(u, 1, k)[i] = u[i]
  <2>1. 1 \in Int /\ k \in Int /\ 1 <= k /\ \A i \in 1..k : u[i] \in Byte
    BY <1>1
  <2> QED  BY <2>1, SubSeqProperties
<1>4. /\ SubSeq(u, k + 1, n) \in Seq(Byte) /\ Len(SubSeq(u, k + 1, n)) = n - k
      /\ \A i \in 1..n - k : SubSeq(u, k + 1, n)[i] = u[k + i]
  <2>1. k + 1 \in Int /\ n \in Int /\ k + 1 <= n /\ \A i \in k + 1..n : u[i] \in Byte
    BY <1>1
  <2>2. /\ SubSeq(u, k + 1, n) \in Seq(Byte)
        /\ Len(SubSeq(u, k + 1, n)) = n - (k + 1) + 1
        /\ \A i \in 1..n - (k + 1) + 1 : SubSeq(u, k + 1, n)[i] = u[(k + 1) + i - 1]
    BY <2>1, SubSeqProperties
  <2> QED  BY <1>1, <2>2
<1> DEFINE a == SubSeq(u, 1, k)
           b == SubSeq(u, k + 1, n)
           c == SubSeq(u, 1, n)
<1>5. a \o b = c
  <2> HIDE DEF a, b, c
  <2>0. n \in Nat /\ k \in Nat /\ k <= n
    BY <1>1
  <2>1. /\ a \in Seq(Byte) /\ Len(a) = k /\ \A i \in 1..k : a[i] = u[i]
        /\ b \in Seq(Byte) /\ Len(b) = n - k /\ \A i \in 1..n - k : b[i] = u[k + i]
        /\ c \in Seq(Byte) /\ Len(c) = n /\ \A i \in 1..n : c[i] = u[i]
    BY <1>2, <1>3, <1>4 DEF a, b, c
  <2>2. /\ a \o b \in Seq(Byte) /\ Len(a \o b) = Len(a) + Len(b)
        /\ \A i \in 1..Len(a) + Len(b) : (a \o b)[i] = IF i <= Len(a) THEN a[i] ELSE b[i - Len(a)]
    <3>1. a \in Seq(Byte) /\ b \in Seq(Byte)
      BY <2>1
    <3> QED  BY <3>1, ConcatProperties
  <2>3. ASSUME NEW i \in 1..n PROVE (a \o b)[i] = c[i]
    <3>1. CASE i <= k
      BY <2>0, <2>1, <2>2, <3>1
    <3>2. CASE ~(i <= k)
      <4>1. i - k \in 1..n - k /\ k + (i - k) = i
        BY <2>0, <3>2
      <4>2. (a \o b)[i] = b[i - k]
        BY <2>0, <2>1, <2>2, <3>2
      <4>3. b[i - k] = u[k + (i - k)]
        BY <2>1, <4>1
      <4> QED  BY <2>1, <4>1, <4>2, <4>3
    <3> QED  BY <3>1, <3>2
  <2>4. Len(a \o b) = Len(c)
    BY <2>0, <2>1, <2>2
  <2> QED  BY <2>0, <2>1, <2>2, <2>3, <2>4, SeqEqual
<1>6. b # <<>>
  <2>1. n - k # 0
    BY <1>1
  <2> QED  BY <1>4, <2>1, EmptySeq
<1> QED  BY <1>2, <1>4, <1>5, <1>6 DEF Bytes

LEMMA FirstPiece ==
  ASSUME NEW u \in Bytes, u # <<>>
  PROVE  SubSeq(u, 1, 1) = <<u[1]>> /\ u[1] \in Byte /\ SubSeq(u, 1, Len(u)) = u
<1>1. Len(u) \in Nat \ {0} /\ u \in Seq(Byte)
  BY LenProperties, EmptySeq DEF Bytes
<1>2. u[1] \in Byte
  BY <1>1, ElementOfSeq
<1>3. SubSeq(u, 1, Len(u)) = u
  BY <1>1, SubSeqFull
<1>4. /\ SubSeq(u, 1, 1) \in Seq(Byte) /\ Len(SubSeq(u, 1, 1)) = 1
      /\ SubSeq(u, 1, 1)[1] = u[1]
  <2>1. \A i \in 1..1 : u[i] \in Byte
    BY <1>2
  <2>2. /\ SubSeq(u, 1, 1) \in Seq(Byte) /\ Len(SubSeq(u, 1, 1)) = 1 - 1 + 1
        /\ \A i \in 1..1 - 1 + 1 : SubSeq(u, 1, 1)[i] = u[1 + i - 1]
    BY <2>1, SubSeqProperties
  <2> QED  BY <2>2
<1>5. <<u[1]>> \in Seq(Byte) /\ Len(<<u[1]>>) = 1 /\ <<u[1]>>[1] = u[1]
  BY <1>2
<1>6. SubSeq(u, 1, 1) = <<u[1]>>
  <2>1. \A i \in 1..Len(SubSeq(u, 1, 1)) : SubSeq(u, 1, 1)[i] = <<u[1]>>[i]
    BY <1>4, <1>5
  <2> QED  BY <1>4, <1>5, <2>1, SeqEqual
<1> QED  BY <1>2, <1>3, <1>6

LEMMA FragmentStep ==
  ASSUME IInv, SendFragment
  PROVE  /\ IInv' /\ FitsPacket'
         /\ out'.seq = seqno
         /\ \/ /\ NextUnit /\ rebuilt' = Append(rebuilt, Nalu) /\ Nalu # <<>>
               /\ out'.marker = Present.marker
            \/ /\ UNCHANGED <<pc, queue>> /\ rebuilt' = rebuilt
               /\ out'.marker = FALSE
<1> USE DEF IInv
<1> DEFINE len     == Len(Nalu)
           dataLen == IF left = 0 THEN len - 1 ELSE left
           size    == FragmentSize(dataLen)
           from    == len - dataLen
           start   == dataLen = len - 1
           end     == ~start /\ dataLen = size
           d       == SubSeq(Nalu, from + 1, from + size)
           p       == Fragment(Nalu[1], start, end, d)
           m       == dataLen = size /\ Present.marker
<1>1. /\ pc # "idle" /\ len >= MaxPacketSize
      /\ UNCHANGED params /\ first' = first /\ frames' = frames /\ accepted' = accepted
      /\ SendPacket(p, m)
      /\ IF dataLen = size THEN NextUnit ELSE left' = dataLen - size /\ UNCHANGED <<pc, queue>>
  BY DEF SendFragment
<1>2. Nalu \in Bytes /\ len \in Nat /\ len >= 4 /\ Nalu # <<>> /\ Present.marker \in BOOLEAN
  <2>1. Nalu \in Bytes /\ len \in Nat /\ len >= 4 /\ Present.marker \in BOOLEAN
    BY <1>1, NaluType, PacketizerAssumption
  <2> QED  BY <2>1, EmptySeq
<1>3. /\ dataLen \in 1..len - 1 /\ (start <=> left = 0)
      /\ left # 0 => dataLen = left /\ partial = SubSeq(Nalu, 1, from)
  BY <1>2 DEF Fragments, TypeOK
<1>4. /\ size \in 1..dataLen /\ size <= MaxPacketSize - 2
      /\ start => dataLen # size
  BY <1>1, <1>2, <1>3, PacketizerAssumption DEF FragmentSize
<1>5. /\ from \in 1..len - 1 /\ from + size \in from + 1..len
      /\ (dataLen = size <=> from + size = len)
  <2>1. len \in Nat /\ dataLen \in 1..len - 1 /\ size \in 1..dataLen
    BY <1>2, <1>3, <1>4
  <2> HIDE DEF len, dataLen, size
  <2> QED  BY <2>1
<1> HIDE DEF dataLen, size, from
<1>6. /\ SubSeq(Nalu, 1, from) \o d = SubSeq(Nalu, 1, from + size)
      /\ SubSeq(Nalu, 1, from + size) \in Bytes
      /\ d \in Bytes /\ d # <<>> /\ Len(d) = size
  <2>1. from \in 1..Len(Nalu)
    BY <1>2, <1>5
  <2>2. from \in Nat /\ size \in Nat
    BY <1>2, <1>3, <1>4, <1>5
  <2>3. (from + size) - from = size
    BY <2>2
  <2>4. from + size \in from + 1..Len(Nalu)
    BY <1>5
  <2>5. Len(SubSeq(Nalu, from + 1, from + size)) = (from + size) - from
    BY <1>2, <2>1, <2>4, Pieces
  <2> QED  BY <1>2, <2>1, <2>3, <2>4, <2>5, Pieces
<1>7. /\ p.form = "fua" /\ p.data = d /\ p.start = start /\ p.end = end
      /\ p.nri = Nalu[1] \div 32 /\ p.type = Nalu[1] % 32
  BY DEF Fragment
<1>8. SubSeq(Nalu, 1, 1) = <<Nalu[1]>> /\ Nalu[1] \in Byte /\ SubSeq(Nalu, 1, len) = Nalu
  BY <1>2, FirstPiece
<1>9. /\ out' = [packet |-> p, marker |-> m, seq |-> seqno] /\ Unpack(p)
  BY <1>1, <1>6, <1>7 DEF SendPacket, Numbered
<1> DEFINE soFar == (IF p.start THEN <<p.nri * 32 + p.type>> ELSE partial) \o p.data
<1>10. soFar = SubSeq(Nalu, 1, from + size)
  <2>1. CASE start
    <3>1. p.nri * 32 + p.type = Nalu[1]
      BY <1>7, <1>8, HeaderOctet
    <3>2. from = 1
      BY <1>2, <1>3, <2>1 DEF from
    <3>3. p.start /\ p.data = d
      BY <1>7, <2>1
    <3> HIDE DEF p, d
    <3>4. soFar = <<Nalu[1]>> \o d
      BY <3>1, <3>3
    <3>5. <<Nalu[1]>> \o d = SubSeq(Nalu, 1, from + size)
      BY <1>6, <1>8, <3>2
    <3> HIDE DEF soFar
    <3> QED  BY <3>4, <3>5
  <2>2. CASE ~start
    <3>1. partial = SubSeq(Nalu, 1, from)
      BY <1>3, <2>2
    <3> QED  BY <1>6, <1>7, <2>2, <3>1
  <2> QED  BY <2>1, <2>2
<1>11. end <=> dataLen = size
  BY <1>4
<1>12. FitsPacket'
  <2>1. ~(start /\ end) /\ Len(d) + 2 <= MaxPacketSize
    BY <1>4, <1>5, <1>6, PacketizerAssumption
  <2> QED  BY <1>7, <1>9, <2>1 DEF FitsPacket
<1>13. seqno' \in 0..SeqMod - 1 /\ Numbers'
  BY <1>1, Numbering
<1>14. CASE dataLen = size
  <2>1. rebuilt' = Append(rebuilt, Nalu) /\ partial' = <<>>
    <3>1. soFar = Nalu
      BY <1>5, <1>8, <1>10, <1>14
    <3> QED  BY <1>7, <1>9, <1>11, <1>14, <3>1 DEF Unpack
  <2>2. Kept' /\ rebuilt' \in Seq(Bytes)
    BY <1>1, <1>2, <1>14, <2>1, UnitDelivered
  <2>3. queue' \in Seq(U) /\ pc' \in {"idle", "pps", "frame"} /\ left' = 0 /\ Queue'
    BY <1>1, <1>14, UnitDone
  <2>4. TypeOK'
    <3>1. <<>> \in Bytes
      BY EmptySeq DEF Bytes
    <3> QED  BY <1>1, <1>13, <2>1, <2>2, <2>3, <3>1 DEF TypeOK, params, U
  <2>5. Fragments'
    BY <2>1, <2>3 DEF Fragments
  <2>6. out'.marker = Present.marker /\ out'.seq = seqno
    BY <1>2, <1>9, <1>14
  <2> QED  BY <1>1, <1>2, <1>12, <1>13, <1>14, <2>1, <2>2, <2>3, <2>4, <2>5, <2>6
<1>15. CASE dataLen # size
  <2>1. rebuilt' = rebuilt /\ partial' = SubSeq(Nalu, 1, from + size)
    BY <1>7, <1>9, <1>10, <1>11, <1>15 DEF Unpack
  <2>2. left' = dataLen - size /\ pc' = pc /\ queue' = queue /\ pack' = pack /\ sps' = sps
        /\ pps' = pps
    BY <1>1, <1>15 DEF params
  <2>3. Present' = Present /\ Nalu' = Nalu
    BY <2>2 DEF Present, Nalu
  <2>4. Queue' /\ Remaining' = Remaining /\ Kept'
    BY <1>1, <2>1, <2>2 DEF Queue, Remaining, Kept, Data, Opt
  <2>5. left' \in Nat /\ left' # 0 /\ left' < len - 1 /\ from + size = len - left'
    BY <1>2, <1>3, <1>4, <1>15, <2>2 DEF from
  <2>6. Fragments'
    BY <1>1, <2>1, <2>2, <2>3, <2>5 DEF Fragments
  <2>7. TypeOK'
    BY <1>1, <1>6, <1>13, <2>1, <2>2, <2>5 DEF TypeOK, params
  <2>8. out'.marker = FALSE /\ out'.seq = seqno
    BY <1>9, <1>15
  <2> QED  BY <1>12, <1>13, <2>1, <2>2, <2>4, <2>6, <2>7, <2>8
<1> QED  BY <1>14, <1>15

\* push_frame queues the units of the frame after the parameter sets, if it is the first.
LEMMA PushStep ==
  ASSUME ParseExact, IInv, NEW f \in Frames, PushFrame(f)
  PROVE  /\ IInv' /\ rebuilt' = rebuilt /\ out' = out
         /\ accepted' = accepted \o Given(f)
         /\ Given(f) \in Seq(Bytes)
<1> USE DEF IInv
<1>1. /\ pc = "idle" /\ frames < MaxFrames /\ frames' = frames + 1 /\ first' = FALSE
      /\ queue' = UnitsOf(pack, FrameBytes(pack, f))
      /\ pc' = IF first THEN "sps" ELSE IF queue' = <<>> THEN "idle" ELSE "frame"
      /\ accepted' = accepted \o Given(f)
      /\ UNCHANGED <<params, left, seqno, out, rebuilt, partial>>
  BY DEF PushFrame
<1>2. /\ pack' = pack /\ sps' = sps /\ pps' = pps /\ left' = left /\ rebuilt' = rebuilt
      /\ partial' = partial /\ out' = out /\ seqno' = seqno
  BY <1>1 DEF params
<1>3. /\ f \in Seq([codelen : {3, 4}, nal : Bytes \ {<<>>}]) /\ f # <<>> /\ Len(f) \in Nat
      /\ \A i \in 1..Len(f) : f[i].nal \in Bytes /\ f[i].nal # <<>>
  <2>1. f \in Seq([codelen : {3, 4}, nal : Bytes \ {<<>>}]) /\ f # <<>>
    BY PacketizerAssumption
  <2>2. \A i \in 1..Len(f) : f[i] \in [codelen : {3, 4}, nal : Bytes \ {<<>>}]
    BY <2>1, ElementOfSeq
  <2> QED  BY <2>1, <2>2, LenProperties
<1>4. queue' \in Seq(U) /\ Data(queue') = Nalus(f) /\ Nalus(f) \in Seq(Bytes)
      /\ (\A i \in 1..Len(queue') :
             queue'[i].data # <<>> /\ (queue'[i].marker <=> i = Len(queue')))
      /\ (pack = "rfc" <=> queue' = <<>>)
  <2>1. CASE pack = "rfc"
    <3>1. queue' = <<>>
      BY <1>1, <2>1 DEF UnitsOf
    <3>2. Nalus(f) = <<>>
      BY Zenon, <2>1 DEF Nalus
    <3> QED  BY <2>1, <3>1, <3>2, EmptySeq, DataEmpty
  <2>2. CASE pack # "rfc"
    <3>1. queue' = [i \in 1..Len(f) |-> [data |-> f[i].nal, marker |-> i = Len(f)]]
      BY <1>1, <2>2 DEF ParseExact, TypeOK
    <3>2. queue' \in [1..Len(f) -> U]
      BY <1>3, <3>1 DEF U
    <3>3. queue' \in Seq(U) /\ Len(queue') = Len(f)
      <4>1. queue' \in Seq(U)
        BY <1>3, <3>2, IsASeq
      <4> QED  BY <1>3, <3>2, <4>1, LenProperties
    <3>4. Nalus(f) = [i \in 1..Len(f) |-> f[i].nal]
      BY <2>2 DEF Nalus
    <3>5. Nalus(f) \in [1..Len(f) -> Bytes]
      BY <1>3, <3>4
    <3>6. Nalus(f) \in Seq(Bytes)
      BY <1>3, <3>5, IsASeq
    <3>7. Data(queue') = Nalus(f)
      BY <3>1, <3>3, <3>4 DEF Data
    <3>8. Len(f) # 0
      BY <1>3, EmptySeq
    <3>9. queue' # <<>>
      BY <3>3, <3>8
    <3> QED  BY <1>3, <2>2, <3>1, <3>3, <3>6, <3>7, <3>9
  <2> QED  BY <2>1, <2>2
<1>5. Queue'
  BY <1>1, <1>2, <1>4 DEF Queue
<1>6. left = 0
  BY <1>1 DEF Fragments
<1>7. Fragments'
  BY <1>2, <1>6 DEF Fragments
<1>8. Opt(sps) \in Seq(Bytes) /\ Opt(pps) \in Seq(Bytes)
  BY OptType, SetsType
<1>9. Remaining = <<>>
  <2>1. queue = <<>>
    BY <1>1 DEF Queue
  <2> QED  BY <1>1, <2>1, DataEmpty, EmptySeq, ConcatEmptySeq DEF Remaining
<1>10. Given(f) \in Seq(Bytes) /\ Remaining' = Given(f)
  <2>1. Opt(sps)' = Opt(sps) /\ Opt(pps)' = Opt(pps)
    BY <1>2 DEF Opt
  <2>2. Data(queue)' = Nalus(f)
    BY <1>4
  <2>3. CASE first
    <3>1. pc' = "sps"
      BY <1>1, <2>3
    <3>2. Remaining' = Opt(sps) \o (Opt(pps) \o Nalus(f))
      BY <2>1, <2>2, <3>1 DEF Remaining
    <3>3. Given(f) = (Opt(sps) \o Opt(pps)) \o Nalus(f)
      BY <2>3 DEF Given
    <3>4. Nalus(f) \in Seq(Bytes)
      BY <1>4
    <3>5. Given(f) = Opt(sps) \o (Opt(pps) \o Nalus(f))
      BY <1>8, <3>3, <3>4, UnitsAssoc
    <3>6. Opt(pps) \o Nalus(f) \in Seq(Bytes)
      BY <1>8, <3>4, ConcatProperties
    <3>7. Opt(sps) \o (Opt(pps) \o Nalus(f)) \in Seq(Bytes)
      BY <1>8, <3>6, ConcatProperties
    <3> QED  BY <3>2, <3>5, <3>7
  <2>4. CASE ~first
    <3>1. pc' \notin {"sps", "pps"}
      BY <1>1, <2>4
    <3>2. Remaining' = <<>> \o (<<>> \o Nalus(f))
      BY <2>2, <3>1 DEF Remaining
    <3>3. Given(f) = <<>> \o Nalus(f)
      BY <2>4 DEF Given
    <3> QED  BY <1>4, <3>2, <3>3, ConcatEmptySeq
  <2> QED  BY <2>3, <2>4
<1>11. Kept'
  <2>1. accepted = rebuilt
    BY <1>9, EmptySeq, ConcatEmptySeq DEF Kept, TypeOK
  <2> QED  BY <1>1, <1>2, <1>10, <2>1 DEF Kept
<1>12. accepted' \in Seq(Bytes)
  BY <1>1, <1>10, ConcatProperties DEF TypeOK
<1>13. frames' \in 0..MaxFrames
  BY <1>1, PacketizerAssumption DEF TypeOK
<1>14. TypeOK'
  <2>1. pc' \in {"idle", "sps", "pps", "frame"} /\ first' \in BOOLEAN
    BY <1>1
  <2> QED  BY <1>2, <1>4, <1>12, <1>13, <2>1 DEF TypeOK, U
<1>15. Numbers'
  BY <1>2 DEF Numbers
<1> QED  BY <1>1, <1>2, <1>5, <1>7, <1>10, <1>11, <1>14, <1>15

LEMMA StepIInv == ParseExact /\ IInv /\ [Next]_vars => IInv'
<1> SUFFICES ASSUME ParseExact, IInv, [Next]_vars PROVE IInv'
  OBVIOUS
<1>1. CASE \E f \in Frames : PushFrame(f)
  BY <1>1, PushStep
<1>2. CASE SendSingle
  BY <1>2, SingleStep
<1>3. CASE SendFragment
  BY <1>3, FragmentStep
<1>4. CASE UNCHANGED vars
  BY <1>4 DEF vars, params, history, IInv, TypeOK, Queue, Fragments, Kept, Numbers, Remaining,
              Data, Opt, Nalu, Present
<1> QED  BY <1>1, <1>2, <1>3, <1>4 DEF Next
-----------------------------------------------------------------------------
(* The theorems.                                                                          *)

LEMMA AlwaysIInv == ParseExact => (Spec => []IInv)
<1> SUFFICES ASSUME ParseExact PROVE Spec => []IInv
  OBVIOUS
<1>1. Init => IInv
  BY InitIInv
<1>2. IInv /\ [Next]_vars => IInv'
  BY StepIInv
<1> QED  BY <1>1, <1>2, PTL DEF Spec

\* The state of the packetizer keeps its types (AVCStream's members).
THEOREM TypeCorrect == ParseExact => (Spec => []TypeOK)
<1> SUFFICES ASSUME ParseExact PROVE Spec => []TypeOK
  OBVIOUS
<1>1. Spec => []IInv
  BY AlwaysIInv
<1>2. IInv => TypeOK
  BY DEF IInv
<1> QED  BY <1>1, <1>2, PTL

\* No packet outgrows the observers' buffers and no fragment is first and last (send_nalu).
THEOREM PacketsFit == ParseExact => (Spec => []FitsPacket)
<1> SUFFICES ASSUME ParseExact PROVE Spec => []FitsPacket
  OBVIOUS
<1>1. Spec => []IInv
  BY AlwaysIInv
<1>2. Init => FitsPacket
  BY DEF Init, FitsPacket
<1>3. IInv /\ FitsPacket /\ [Next]_vars => FitsPacket'
  <2> SUFFICES ASSUME IInv, FitsPacket, [Next]_vars PROVE FitsPacket'
    OBVIOUS
  <2>1. CASE \E f \in Frames : PushFrame(f)
    BY <2>1, PushStep DEF FitsPacket
  <2>2. CASE SendSingle
    <3>1. pc # "idle" /\ Len(Nalu) < MaxPacketSize
      BY <2>2 DEF SendSingle
    <3>2. Len(Nalu) \in Nat
      BY <3>1, NaluType DEF IInv
    <3>3. CASE out' # out
      <4>1. out'.packet = [form |-> "single", data |-> Nalu]
        BY <2>2, <3>3, SingleStep DEF Single
      <4> QED  BY <3>1, <3>2, <4>1, PacketizerAssumption DEF FitsPacket
    <3>4. CASE out' = out
      BY <3>4 DEF FitsPacket
    <3> QED  BY <3>3, <3>4
  <2>3. CASE SendFragment
    BY <2>3, FragmentStep
  <2>4. CASE UNCHANGED vars
    BY <2>4 DEF vars, history, FitsPacket
  <2> QED  BY <2>1, <2>2, <2>3, <2>4 DEF Next
<1> QED  BY <1>1, <1>2, <1>3, PTL DEF Spec

\* When push_frame has returned, the receiver has every unit (send_nalu sends all of each).
THEOREM EverythingRebuilt == ParseExact => (Spec => []AllRebuilt)
<1> SUFFICES ASSUME ParseExact PROVE Spec => []AllRebuilt
  OBVIOUS
<1>1. Spec => []IInv
  BY AlwaysIInv
<1>2. IInv => AllRebuilt
  <2> SUFFICES ASSUME IInv, pc = "idle" PROVE rebuilt = accepted
    BY DEF AllRebuilt
  <2>1. queue = <<>>
    BY DEF IInv, Queue
  <2>2. Remaining = <<>>
    BY <2>1, DataEmpty, EmptySeq, ConcatEmptySeq DEF Remaining
  <2> QED  BY <2>2, EmptySeq, ConcatEmptySeq DEF IInv, Kept, TypeOK
<1> QED  BY <1>1, <1>2, PTL

\* Successive packets have successive numbers, also around a parameter set that is absent
\* (send_packet).
THEOREM NumbersFollow == ParseExact => (Spec => InSequence)
<1> SUFFICES ASSUME ParseExact PROVE Spec => InSequence
  OBVIOUS
<1>1. Spec => []IInv
  BY AlwaysIInv
<1>2. IInv /\ [Next]_vars =>
        [out' # out /\ out # NoPacket => out'.seq = (out.seq + 1) % SeqMod]_vars
  <2> SUFFICES ASSUME IInv, Next, out' # out, out # NoPacket
               PROVE  out'.seq = (out.seq + 1) % SeqMod
    BY DEF vars, history
  <2>1. CASE \E f \in Frames : PushFrame(f)
    BY <2>1 DEF PushFrame
  <2>2. CASE SendSingle
    <3>1. SendPacket(Single(Nalu), Present.marker)
      BY <2>2 DEF SendSingle
    <3> QED  BY <3>1, Numbering DEF IInv
  <2>3. CASE SendFragment
    BY <2>3, FragmentStep DEF IInv, Numbers
  <2> QED  BY <2>1, <2>2, <2>3 DEF Next
<1> QED  BY <1>1, <1>2, PTL DEF Spec, InSequence

\* The last unit of a frame, and no other, is marked and followed by nothing.
LEMMA LastUnit ==
  ASSUME TypeOK, Queue, pc # "idle", NextUnit, Nalu # <<>>
  PROVE  Present.marker <=> pc' = "idle" /\ pack # "rfc"
<1>1. CASE pc = "frame"
  <2>1. queue \in Seq(U) /\ queue # <<>> /\ pack # "rfc"
    BY <1>1 DEF TypeOK, Queue, U
  <2>2. Len(queue) \in Nat \ {0} /\ Head(queue) = queue[1] /\ 1 \in 1..Len(queue)
    BY <2>1, EmptySeq, LenProperties
  <2>3. Present.marker <=> Len(queue) = 1
    BY <1>1, <2>2 DEF Present, Queue
  <2>4. Tail(queue) \in Seq(U) /\ Len(Tail(queue)) = Len(queue) - 1
    BY <2>1, HeadTailProperties
  <2>5. Tail(queue) = <<>> <=> Len(queue) = 1
    <3>1. Tail(queue) = <<>> <=> Len(Tail(queue)) = 0
      BY <2>4, EmptySeq
    <3> QED  BY <2>2, <2>4, <3>1
  <2>6. pc' = IF Tail(queue) = <<>> THEN "idle" ELSE "frame"
    BY <1>1 DEF NextUnit
  <2> QED  BY <2>1, <2>3, <2>5, <2>6
<1>2. CASE pc # "frame"
  <2>1. pc \in {"sps", "pps"} /\ Present.marker = FALSE
    BY <1>2 DEF TypeOK, Present
  <2>2. pack # "rfc" => queue # <<>>
    BY <2>1 DEF Queue
  <2> QED  BY <1>2, <2>1, <2>2 DEF NextUnit
<1> QED  BY <1>1, <1>2

\* The marker bit is on the last packet of a frame and on no other (push_frame, send_nalu).
THEOREM MarkerLast == ParseExact => (Spec => MarksFrameEnd)
<1> SUFFICES ASSUME ParseExact PROVE Spec => MarksFrameEnd
  OBVIOUS
<1>1. Spec => []IInv
  BY AlwaysIInv
<1>2. IInv /\ [Next]_vars =>
        [out' # out => (out'.marker <=> pc' = "idle" /\ pack # "rfc")]_vars
  <2> SUFFICES ASSUME IInv, Next, out' # out
               PROVE  out'.marker <=> pc' = "idle" /\ pack # "rfc"
    BY DEF vars, history
  <2>1. CASE \E f \in Frames : PushFrame(f)
    BY <2>1 DEF PushFrame
  <2>2. CASE SendSingle
    <3>1. SendPacket(Single(Nalu), Present.marker) /\ NextUnit /\ pc # "idle"
      BY <2>2 DEF SendSingle
    <3>2. Nalu # <<>>
      BY <3>1 DEF SendPacket, Single
    <3>3. out'.marker = Present.marker
      BY <2>2, SingleStep
    <3> QED  BY <3>1, <3>2, <3>3, LastUnit DEF IInv
  <2>3. CASE SendFragment
    <3>1. pc # "idle"
      BY <2>3 DEF SendFragment
    <3>2. CASE NextUnit /\ Nalu # <<>> /\ out'.marker = Present.marker
      BY <3>1, <3>2, LastUnit DEF IInv
    <3>3. CASE UNCHANGED <<pc, queue>> /\ out'.marker = FALSE
      BY <3>1, <3>3
    <3> QED  BY <2>3, <3>2, <3>3, FragmentStep
  <2> QED  BY <2>1, <2>2, <2>3 DEF Next
<1> QED  BY <1>1, <1>2, PTL DEF Spec, MarksFrameEnd

LEMMA GivenCall ==
  ASSUME TypeOK, NEW f \in Frames
  PROVE  Given(f) \in Calls
<1>1. <<sps, pps>> \in ParamSets
  BY DEF TypeOK
<1>2. Opt(<<sps, pps>>[1]) \o Opt(<<sps, pps>>[2]) = Opt(sps) \o Opt(pps)
  OBVIOUS
<1> DEFINE A == {<<>>} \cup {Opt(x[1]) \o Opt(x[2]) : x \in ParamSets}
           B == {<<>>} \cup {[i \in 1..Len(g) |-> g[i].nal] : g \in Frames}
<1>3. (IF first THEN Opt(sps) \o Opt(pps) ELSE <<>>) \in A
  BY <1>1, <1>2
<1>4. Nalus(f) \in B
  BY DEF Nalus
<1>5. Calls = {s \o g : s \in A, g \in B}
  BY DEF Calls
<1> QED
  <2> HIDE DEF A, B
  <2>1. \A a \in A, b \in B : a \o b \in Calls
    BY <1>5
  <2> QED  BY <1>3, <1>4, <2>1 DEF Given

\* A unit the receiver completes is the next one that was given.
LEMMA NextGiven ==
  ASSUME TypeOK, Queue, Kept, Kept', rebuilt' \in Seq(Bytes), accepted' = accepted,
         NEW u, rebuilt' = Append(rebuilt, u), Remaining' \in Seq(Bytes)
  PROVE  Len(rebuilt) < Len(accepted) /\ u = accepted[Len(rebuilt) + 1]
<1> DEFINE n == Len(rebuilt)
           r == Remaining'
<1>1. n \in Nat /\ rebuilt \in Seq(Bytes)
  BY LenProperties DEF TypeOK
<1>2. Len(rebuilt') = n + 1 /\ rebuilt'[n + 1] = u
  BY <1>1 DEF TypeOK
<1>3. accepted = rebuilt' \o r
  BY DEF Kept
<1>4. /\ Len(rebuilt' \o r) = Len(rebuilt') + Len(r) /\ Len(r) \in Nat
      /\ \A i \in 1..Len(rebuilt') + Len(r) :
           (rebuilt' \o r)[i] = IF i <= Len(rebuilt') THEN rebuilt'[i] ELSE r[i - Len(rebuilt')]
  <2> HIDE DEF r
  <2>1. r \in Seq(Bytes)
    BY DEF r
  <2> QED  BY <2>1, ConcatProperties, LenProperties
<1>5. n + 1 \in 1..Len(rebuilt') + Len(r) /\ n + 1 <= Len(rebuilt')
  <2> HIDE DEF r, n
  <2> QED  BY <1>1, <1>2, <1>4
<1> HIDE DEF r
<1> QED  BY <1>1, <1>2, <1>3, <1>4, <1>5

\* The packetizer and an RFC 6184 receiver are a FIFO channel of NAL units: none is lost,
\* repeated, reordered or changed (push_frame, send_nalu, send_packet).
THEOREM ImplementsChannel == ParseExact => (Spec => ReceiverSpec)
<1> SUFFICES ASSUME ParseExact PROVE Spec => ReceiverSpec
  OBVIOUS
<1>1. Spec => []IInv
  BY AlwaysIInv
<1>2. Init => Receiver!Init
  BY DEF Init, Receiver!Init
<1>3. TypeOK => Remaining \in Seq(Bytes)
  BY RemainingType
<1>4. (TypeOK => Remaining \in Seq(Bytes))'
  BY <1>3, PTL
<1>5. IInv /\ [Next]_vars => [Receiver!Next]_<<accepted, rebuilt>>
  <2> SUFFICES ASSUME IInv, [Next]_vars PROVE [Receiver!Next]_<<accepted, rebuilt>>
    OBVIOUS
  <2>1. CASE \E f \in Frames : PushFrame(f)
    <3>1. PICK f \in Frames : PushFrame(f)
      BY <2>1
    <3>2. Given(f) \in Calls
      BY GivenCall DEF IInv
    <3>3. accepted' = accepted \o Given(f) /\ rebuilt' = rebuilt
      BY <3>1, PushStep
    <3> QED  BY <3>2, <3>3 DEF Receiver!Next, Receiver!Send
  <2>2. ASSUME IInv', accepted' = accepted, rebuilt' = Append(rebuilt, Nalu)
        PROVE  Receiver!Deliver
    <3>1. Remaining' \in Seq(Bytes) /\ rebuilt' \in Seq(Bytes)
      BY <1>4, <2>2 DEF IInv, TypeOK
    <3>2. Len(rebuilt) < Len(accepted) /\ Nalu = accepted[Len(rebuilt) + 1]
      BY <2>2, <3>1, NextGiven DEF IInv
    <3> QED  BY <2>2, <3>2 DEF Receiver!Deliver
  <2>3. CASE SendSingle
    <3>1. IInv' /\ rebuilt' = IF Nalu = <<>> THEN rebuilt ELSE Append(rebuilt, Nalu)
      BY <2>3, SingleStep
    <3>2. accepted' = accepted
      BY <2>3 DEF SendSingle
    <3> QED  BY <2>2, <3>1, <3>2 DEF Receiver!Next
  <2>4. CASE SendFragment
    <3>1. IInv' /\ (rebuilt' = Append(rebuilt, Nalu) \/ rebuilt' = rebuilt)
      BY <2>4, FragmentStep
    <3>2. accepted' = accepted
      BY <2>4 DEF SendFragment
    <3> QED  BY <2>2, <3>1, <3>2 DEF Receiver!Next
  <2>5. CASE UNCHANGED vars
    BY <2>5 DEF vars, history
  <2> QED  BY <2>1, <2>3, <2>4, <2>5 DEF Next
<1> QED  BY <1>1, <1>2, <1>5, PTL DEF Spec, ReceiverSpec, Receiver!Spec, Receiver!vars
-----------------------------------------------------------------------------
(* base64.                                                                                *)

\* The octet of a group that is encoded, 0 for a missing one.
Octet(s, i) == IF i <= Len(s) THEN s[i] ELSE 0

Characters(n) == 4 * ((n + 2) \div 3)

\* How many of them are not padding.
Filled(n) == 4 * (n \div 3) + (IF n % 3 = 0 THEN 0 ELSE (n % 3) + 1)

\* The characters of a group are there, and which they are.
LEMMA Places ==
  ASSUME NEW g \in Nat, NEW n \in Nat, 3 * g < n
  PROVE  /\ 4 * g + 1 \in 1..4 * ((n + 2) \div 3) /\ 3 * ((4 * g + 1 - 1) \div 4) = 3 * g /\ (4 * g + 1) % 4 = 1
         /\ 4 * g + 2 \in 1..4 * ((n + 2) \div 3) /\ 3 * ((4 * g + 2 - 1) \div 4) = 3 * g /\ (4 * g + 2) % 4 = 2
         /\ 4 * g + 3 \in 1..4 * ((n + 2) \div 3) /\ 3 * ((4 * g + 3 - 1) \div 4) = 3 * g /\ (4 * g + 3) % 4 = 3
         /\ 4 * g + 4 \in 1..4 * ((n + 2) \div 3) /\ 3 * ((4 * g + 4 - 1) \div 4) = 3 * g /\ (4 * g + 4) % 4 = 0
<1>1. 4 * g + 4 <= 4 * ((n + 2) \div 3) /\ 4 * ((n + 2) \div 3) \in Nat  OBVIOUS
<1>2. (4 * g + 1) % 4 = 1 /\ (4 * g + 2) % 4 = 2 /\ (4 * g + 3) % 4 = 3 /\ (4 * g + 4) % 4 = 0  OBVIOUS
<1>3. /\ (4 * g + 1 - 1) \div 4 = g /\ (4 * g + 2 - 1) \div 4 = g
      /\ (4 * g + 3 - 1) \div 4 = g /\ (4 * g + 4 - 1) \div 4 = g
  OBVIOUS
<1>4. \A j \in {1, 2, 3, 4} : 4 * g + j \in 1..4 * ((n + 2) \div 3)  BY <1>1
<1> QED  BY <1>2, <1>3, <1>4

\* The characters of the group behind the g-th.
LEMMA Base64Group ==
  ASSUME NEW s \in Bytes, NEW g \in Nat, 3 * g < Len(s)
  PROVE  LET e == Base64Encode(s)
         IN  /\ e[4 * g + 1] = Octet(s, 3 * g + 1) \div 4
             /\ e[4 * g + 2] = (Octet(s, 3 * g + 1) % 4) * 16 + Octet(s, 3 * g + 2) \div 16
             /\ e[4 * g + 3] = IF 3 * g + 2 > Len(s) THEN Pad
                               ELSE 4 * (Octet(s, 3 * g + 2) % 16) + Octet(s, 3 * g + 3) \div 64
             /\ e[4 * g + 4] = IF 3 * g + 3 > Len(s) THEN Pad ELSE Octet(s, 3 * g + 3) % 64
<1> DEFINE n == Len(s)
           e == Base64Encode(s)
<1>1. n \in Nat  BY LenProperties DEF Bytes
<1> DEFINE Char(k, i) == CASE k % 4 = 1 -> Octet(s, i + 1) \div 4
                            [] k % 4 = 2 -> (Octet(s, i + 1) % 4) * 16 + Octet(s, i + 2) \div 16
                            [] k % 4 = 3 -> IF i + 2 > n THEN Pad
                                            ELSE 4 * (Octet(s, i + 2) % 16) + Octet(s, i + 3) \div 64
                            [] OTHER     -> IF i + 3 > n THEN Pad ELSE Octet(s, i + 3) % 64
           Index(k) == 3 * ((k - 1) \div 4)
<1>2. \A k \in 1..4 * ((n + 2) \div 3) : e[k] = Char(k, Index(k))
  BY DEF Base64Encode, Octet
<1>3. /\ 4 * g + 1 \in 1..4 * ((n + 2) \div 3) /\ Index(4 * g + 1) = 3 * g /\ (4 * g + 1) % 4 = 1
      /\ 4 * g + 2 \in 1..4 * ((n + 2) \div 3) /\ Index(4 * g + 2) = 3 * g /\ (4 * g + 2) % 4 = 2
      /\ 4 * g + 3 \in 1..4 * ((n + 2) \div 3) /\ Index(4 * g + 3) = 3 * g /\ (4 * g + 3) % 4 = 3
      /\ 4 * g + 4 \in 1..4 * ((n + 2) \div 3) /\ Index(4 * g + 4) = 3 * g /\ (4 * g + 4) % 4 = 0
  BY <1>1, Places DEF n
<1>4. e[4 * g + 1] = Octet(s, 3 * g + 1) \div 4
  <2>1. e[4 * g + 1] = Char(4 * g + 1, 3 * g) /\ (4 * g + 1) % 4 = 1
    <3> HIDE DEF Char, Index, e
    <3> QED  BY <1>2, <1>3
  <2> HIDE DEF e
  <2> QED  BY <2>1
<1>5. e[4 * g + 2] = (Octet(s, 3 * g + 1) % 4) * 16 + Octet(s, 3 * g + 2) \div 16
  <2>1. e[4 * g + 2] = Char(4 * g + 2, 3 * g) /\ (4 * g + 2) % 4 = 2
    <3> HIDE DEF Char, Index, e
    <3> QED  BY <1>2, <1>3
  <2> HIDE DEF e
  <2> QED  BY <2>1
<1>6. e[4 * g + 3] = IF 3 * g + 2 > n THEN Pad
                     ELSE 4 * (Octet(s, 3 * g + 2) % 16) + Octet(s, 3 * g + 3) \div 64
  <2>1. e[4 * g + 3] = Char(4 * g + 3, 3 * g) /\ (4 * g + 3) % 4 = 3
    <3> HIDE DEF Char, Index, e
    <3> QED  BY <1>2, <1>3
  <2> HIDE DEF e
  <2> QED  BY <2>1
<1>7. e[4 * g + 4] = IF 3 * g + 3 > n THEN Pad ELSE Octet(s, 3 * g + 3) % 64
  <2>1. e[4 * g + 4] = Char(4 * g + 4, 3 * g) /\ (4 * g + 4) % 4 = 0
    <3> HIDE DEF Char, Index, e
    <3> QED  BY <1>2, <1>3
  <2> HIDE DEF e
  <2> QED  BY <2>1
<1> QED  BY <1>4, <1>5, <1>6, <1>7

\* An octet, missing or not, is one.
LEMMA OctetType == ASSUME NEW s \in Bytes, NEW i \in Nat \ {0} PROVE Octet(s, i) \in Byte
<1>1. Len(s) \in Nat /\ (i <= Len(s) => s[i] \in Byte)
  BY ElementOfSeq, LenProperties DEF Bytes
<1> QED  BY <1>1 DEF Octet, Byte

\* Padding begins where the octets end.
LEMMA Base64Padding ==
  ASSUME NEW s \in Bytes
  PROVE  LET e == Base64Encode(s)
             m == Filled(Len(s))
         IN  /\ Len(e) = Characters(Len(s)) /\ m \in 0..Len(e)
             /\ \A k \in 1..m : e[k] \in Sextet
             /\ m # Len(e) => e[m + 1] = Pad
<1> DEFINE n == Len(s)
           e == Base64Encode(s)
           m == Filled(n)
<1>1. n \in Nat  BY LenProperties DEF Bytes
<1>2. Characters(n) \in Nat /\ m \in 0..Characters(n)
  <2> HIDE DEF n
  <2> QED  BY <1>1 DEF Characters, Filled
<1>3. Len(e) = Characters(n)
  <2>1. DOMAIN e = 1..Characters(n)  BY DEF Base64Encode, Characters
  <2>2. e = [k \in 1..Characters(n) |-> e[k]]  BY DEF Base64Encode, Characters
  <2> HIDE DEF e, n
  <2> QED  BY <2>1, <2>2, <1>2
<1>4. ASSUME NEW k \in 1..m PROVE e[k] \in Sextet
  <2> DEFINE g == (k - 1) \div 4
             a == Octet(s, 3 * g + 1)
             b == Octet(s, 3 * g + 2)
             c == Octet(s, 3 * g + 3)
  <2>1. /\ g \in Nat /\ 3 * g < n /\ k \in {4 * g + 1, 4 * g + 2, 4 * g + 3, 4 * g + 4}
        /\ k = 4 * g + 3 => 3 * g + 2 <= n
        /\ k = 4 * g + 4 => 3 * g + 3 <= n
    <3> HIDE DEF n
    <3> QED  BY <1>1, <1>4 DEF Filled
  <2>2. a \in Byte /\ b \in Byte /\ c \in Byte
    <3> HIDE DEF g
    <3> QED  BY <2>1, OctetType
  <2>3. /\ a \div 4 \in Sextet /\ (a % 4) * 16 + b \div 16 \in Sextet
        /\ 4 * (b % 16) + c \div 64 \in Sextet /\ c % 64 \in Sextet
    <3> HIDE DEF a, b, c
    <3> QED  BY <2>2 DEF Byte, Sextet
  <2>4. /\ e[4 * g + 1] = a \div 4
        /\ e[4 * g + 2] = (a % 4) * 16 + b \div 16
        /\ e[4 * g + 3] = IF 3 * g + 2 > n THEN Pad ELSE 4 * (b % 16) + c \div 64
        /\ e[4 * g + 4] = IF 3 * g + 3 > n THEN Pad ELSE c % 64
    <3> HIDE DEF g, e
    <3> QED  BY <2>1, Base64Group DEF e
  <2> HIDE DEF a, b, c, e, g, n, m
  <2> QED  BY <2>1, <2>3, <2>4, <1>1
<1>5. m # Characters(n) => e[m + 1] = Pad
  <2> DEFINE g == n \div 3
  <2>1. ASSUME m # Characters(n)
        PROVE  /\ g \in Nat /\ 3 * g < n
               /\ \/ n = 3 * g + 1 /\ m = 4 * g + 2
                  \/ n = 3 * g + 2 /\ m = 4 * g + 3
    <3> HIDE DEF n
    <3> QED  BY <1>1, <2>1 DEF Filled, Characters
  <2>2. ASSUME m # Characters(n)
        PROVE  /\ 3 * g + 2 > n => e[4 * g + 3] = Pad
               /\ 3 * g + 3 > n => e[4 * g + 4] = Pad
    <3> HIDE DEF g, e, m
    <3> QED  BY <2>1, <2>2, Base64Group DEF e
  <2> HIDE DEF g, e, m, n
  <2> QED  BY <2>1, <2>2, <1>1
<1> HIDE DEF e, m, n
<1> QED  BY <1>2, <1>3, <1>4, <1>5 DEF e, m, n

\* Decoding undoes encoding, whatever the rest when octets go by threes.
LEMMA Base64Inverse == ASSUME NEW s \in Bytes PROVE Base64Decode(Base64Encode(s)) = s
<1> DEFINE n == Len(s)
           e == Base64Encode(s)
           m == Filled(n)
           Whole(l) == (\A k \in 1..l : e[k] \in Sextet) /\ (l = Len(e) \/ e[l + 1] \notin Sextet)
           size == 3 * ((m + 3) \div 4) - ((4 - m) % 4)
           Value(k) == LET i == 4 * ((k - 1) \div 3)
                       IN  CASE k % 3 = 1 -> e[i + 1] * 4 + e[i + 2] \div 16
                             [] k % 3 = 2 -> (e[i + 2] % 16) * 16 + e[i + 3] \div 4
                             [] OTHER     -> (e[i + 3] % 4) * 64 + e[i + 4]
<1>1. n \in Nat
  BY LenProperties DEF Bytes
<1>10. s = [k \in 1..n |-> s[k]]
  BY LenProperties DEF Bytes
<1>2. /\ Len(e) = Characters(n) /\ m \in 0..Len(e) /\ Len(e) \in Nat
      /\ \A k \in 1..m : e[k] \in Sextet
      /\ m # Len(e) => e[m + 1] = Pad
  <2>1. Characters(n) \in Nat
    <3> HIDE DEF n
    <3> QED  BY <1>1 DEF Characters
  <2> HIDE DEF e, n, m
  <2> QED  BY <2>1, Base64Padding DEF e, n, m
<1>3. Pad \notin Sextet  BY DEF Pad, Sextet
<1>4. \A l \in 0..Len(e) : Whole(l) <=> l = m
  <2> HIDE DEF e, m
  <2>1. Whole(m)  BY <1>2, <1>3
  <2>2. ASSUME NEW l \in 0..Len(e), Whole(l), l # m PROVE FALSE
    <3>1. CASE l < m
      <4>1. l + 1 \in 1..m /\ l # Len(e)  BY <3>1, <1>2
      <4> QED  BY <4>1, <1>2, <2>2
    <3>2. CASE m < l
      <4>1. m + 1 \in 1..l /\ m # Len(e)  BY <3>2, <1>2
      <4> QED  BY <4>1, <1>2, <1>3, <2>2
    <3> QED  BY <3>1, <3>2, <2>2, <1>2
  <2> QED  BY <2>1, <2>2
<1>5. (CHOOSE l \in 0..Len(e) : Whole(l)) = m
  <2> HIDE DEF Whole, m, e
  <2> QED  BY <1>2, <1>4
<1>6. Base64Decode(e) = [k \in 1..size |-> Value(k)]
  <2> HIDE DEF m, e
  <2> QED  BY <1>5 DEF Base64Decode
<1>7. size = n
  <2> DEFINE q == n \div 3
  <2>1. /\ q \in Nat
        /\ \/ n = 3 * q /\ n % 3 = 0
           \/ n = 3 * q + 1 /\ n % 3 = 1
           \/ n = 3 * q + 2 /\ n % 3 = 2
    <3> HIDE DEF n
    <3> QED  BY <1>1
  <2>2. m = 4 * q + IF n % 3 = 0 THEN 0 ELSE (n % 3) + 1  BY DEF Filled
  <2> HIDE DEF m, q, n
  <2>3. CASE n = 3 * q /\ n % 3 = 0
    <3>1. m = 4 * q  BY <2>1, <2>2, <2>3
    <3>2. (4 * q + 3) \div 4 = q /\ (4 - 4 * q) % 4 = 0  BY <2>1
    <3> QED  BY <2>3, <3>1, <3>2, <2>1
  <2>4. CASE n = 3 * q + 1 /\ n % 3 = 1
    <3>1. m = 4 * q + 2  BY <2>1, <2>2, <2>4
    <3>2. (4 * q + 2 + 3) \div 4 = q + 1 /\ (4 - (4 * q + 2)) % 4 = 2  BY <2>1
    <3> QED  BY <2>4, <3>1, <3>2, <2>1
  <2>5. CASE n = 3 * q + 2 /\ n % 3 = 2
    <3>1. m = 4 * q + 3  BY <2>1, <2>2, <2>5
    <3>2. (4 * q + 3 + 3) \div 4 = q + 1 /\ (4 - (4 * q + 3)) % 4 = 1  BY <2>1
    <3> QED  BY <2>5, <3>1, <3>2, <2>1
  <2> QED  BY <2>1, <2>3, <2>4, <2>5
<1>8. ASSUME NEW k \in 1..n PROVE Value(k) = s[k]
  <2> DEFINE g == (k - 1) \div 3
             a == Octet(s, 3 * g + 1)
             b == Octet(s, 3 * g + 2)
             c == Octet(s, 3 * g + 3)
  <2>1. /\ g \in Nat /\ 3 * g < n
        /\ \/ k % 3 = 1 /\ k = 3 * g + 1
           \/ k % 3 = 2 /\ k = 3 * g + 2
           \/ k % 3 = 0 /\ k = 3 * g + 3
    <3> HIDE DEF n
    <3>1. k \in Nat /\ 1 <= k /\ k <= n  BY <1>1, <1>8
    <3>2. g \in Nat /\ k - 1 = 3 * g + ((k - 1) % 3) /\ (k - 1) % 3 \in 0..2  BY <3>1
    <3>3. k = 3 * g + 1 \/ k = 3 * g + 2 \/ k = 3 * g + 3
      <4> HIDE DEF g
      <4> QED  BY <3>1, <3>2
    <3>4. /\ k = 3 * g + 1 => k % 3 = 1
          /\ k = 3 * g + 2 => k % 3 = 2
          /\ k = 3 * g + 3 => k % 3 = 0
      <4> HIDE DEF g
      <4> QED  BY <3>2
    <3>5. 3 * g < n
      <4> HIDE DEF g
      <4> QED  BY <1>1, <3>1, <3>2
    <3> HIDE DEF g
    <3> QED  BY <3>2, <3>3, <3>4, <3>5
  <2>2. a \in Byte /\ b \in Byte /\ c \in Byte
    <3> HIDE DEF g
    <3> QED  BY <2>1, OctetType
  <2>3. /\ e[4 * g + 1] = a \div 4
        /\ e[4 * g + 2] = (a % 4) * 16 + b \div 16
        /\ e[4 * g + 3] = IF 3 * g + 2 > n THEN Pad ELSE 4 * (b % 16) + c \div 64
        /\ e[4 * g + 4] = IF 3 * g + 3 > n THEN Pad ELSE c % 64
    <3> HIDE DEF g, e
    <3> QED  BY <2>1, Base64Group DEF e
  <2>4. /\ (a \div 4) * 4 + ((a % 4) * 16 + b \div 16) \div 16 = a
        /\ (((a % 4) * 16 + b \div 16) % 16) * 16 + (4 * (b % 16) + c \div 64) \div 4 = b
        /\ ((4 * (b % 16) + c \div 64) % 4) * 64 + (c % 64) = c
    <3> HIDE DEF a, b, c
    <3> QED  BY <2>2 DEF Byte
  <2>5. /\ k = 3 * g + 1 => s[k] = a
        /\ k = 3 * g + 2 => s[k] = b
        /\ k = 3 * g + 3 => s[k] = c
    <3>1. k <= Len(s)  BY <1>1
    <3> HIDE DEF g
    <3> QED  BY <3>1 DEF Octet
  <2>6. CASE k % 3 = 1 /\ k = 3 * g + 1
    <3>1. Value(k) = e[4 * g + 1] * 4 + e[4 * g + 2] \div 16  BY <2>6
    <3> HIDE DEF Value, a, b, c, e, g
    <3> QED  BY <3>1, <2>3, <2>4, <2>5, <2>6
  <2>7. CASE k % 3 = 2 /\ k = 3 * g + 2
    <3>1. Value(k) = (e[4 * g + 2] % 16) * 16 + e[4 * g + 3] \div 4  BY <2>7
    <3>2. ~(3 * g + 2 > n)
      <4> HIDE DEF g, n
      <4> QED  BY <2>1, <2>7, <1>1
    <3> HIDE DEF Value, a, b, c, e, g, n
    <3> QED  BY <3>1, <3>2, <2>3, <2>4, <2>5, <2>7
  <2>8. CASE k % 3 = 0 /\ k = 3 * g + 3
    <3>1. Value(k) = (e[4 * g + 3] % 4) * 64 + e[4 * g + 4]
      <4>1. k % 3 # 1 /\ k % 3 # 2  BY <2>8
      <4> HIDE DEF e, a, b, c, n
      <4> QED  BY <4>1
    <3>2. ~(3 * g + 2 > n) /\ ~(3 * g + 3 > n)
      <4> HIDE DEF g, n
      <4> QED  BY <2>1, <2>8, <1>1
    <3> HIDE DEF Value, a, b, c, e, g, n
    <3> QED  BY <3>1, <3>2, <2>3, <2>4, <2>5, <2>8
  <2> QED  BY <2>1, <2>6, <2>7, <2>8
<1> HIDE DEF Value, size, e, n
<1> QED  BY <1>10, <1>6, <1>7, <1>8 DEF e
-----------------------------------------------------------------------------
(* What is announced.                                                                     *)

\* The first units of all are the parameter sets, once a frame has been pushed.
SetsFirst ==
    IF first THEN accepted = <<>>
    ELSE \E rest \in Seq(Bytes) : accepted = (Opt(sps) \o Opt(pps)) \o rest

\* The units of a frame are units.
LEMMA GivenType == ASSUME TypeOK, NEW f \in Frames PROVE Nalus(f) \in Seq(Bytes)
<1>1. f \in Seq([codelen : {3, 4}, nal : Bytes \ {<<>>}])  BY PacketizerAssumption
<1>2. CASE pack = "rfc"  BY <1>2 DEF Nalus
<1>3. CASE pack # "rfc"
  <2>1. Len(f) \in Nat /\ \A i \in 1..Len(f) : f[i].nal \in Bytes
    <3>1. \A i \in 1..Len(f) : f[i] \in [codelen : {3, 4}, nal : Bytes \ {<<>>}]  BY <1>1, ElementOfSeq
    <3> QED  BY <1>1, <3>1, LenProperties
  <2>2. Nalus(f) = [i \in 1..Len(f) |-> f[i].nal]  BY <1>3 DEF Nalus
  <2>3. Nalus(f) \in [1..Len(f) -> Bytes]  BY <2>1, <2>2
  <2> QED  BY <2>1, <2>3, IsASeq
<1> QED  BY <1>2, <1>3

\* What is given later comes behind them.
LEMMA SetsStayFirst == ASSUME TypeOK, SetsFirst, [Next]_vars PROVE SetsFirst'
<1>1. ASSUME NEW f \in Frames, PushFrame(f) PROVE SetsFirst'
  <2>1. first' = FALSE /\ accepted' = accepted \o Given(f) /\ sps' = sps /\ pps' = pps
    BY <1>1 DEF PushFrame, params
  <2>2. Nalus(f) \in Seq(Bytes) /\ Opt(sps) \o Opt(pps) \in Seq(Bytes)
    <3>1. Opt(sps) \in Seq(Bytes) /\ Opt(pps) \in Seq(Bytes)  BY SetsType, OptType
    <3> QED  BY <3>1, GivenType, ConcatProperties
  <2>3. \E rest \in Seq(Bytes) : accepted' = (Opt(sps) \o Opt(pps)) \o rest
    <3>1. CASE first
      <4>1. accepted' = <<>> \o ((Opt(sps) \o Opt(pps)) \o Nalus(f))  BY <3>1, <2>1 DEF SetsFirst, Given
      <4>2. (Opt(sps) \o Opt(pps)) \o Nalus(f) \in Seq(Bytes)  BY <2>2, ConcatProperties
      <4>3. accepted' = (Opt(sps) \o Opt(pps)) \o Nalus(f)  BY <4>1, <4>2, ConcatEmptySeq
      <4> QED  BY <4>3, <2>2
    <3>2. CASE ~first
      <4>1. PICK rest \in Seq(Bytes) : accepted = (Opt(sps) \o Opt(pps)) \o rest  BY <3>2 DEF SetsFirst
      <4>2. Given(f) = Nalus(f)
        <5>1. Given(f) = <<>> \o Nalus(f)  BY <3>2 DEF Given
        <5> QED  BY <5>1, <2>2, ConcatEmptySeq
      <4>3. accepted' = (Opt(sps) \o Opt(pps)) \o (rest \o Nalus(f))
        <5>1. ((Opt(sps) \o Opt(pps)) \o rest) \o Nalus(f) = (Opt(sps) \o Opt(pps)) \o (rest \o Nalus(f))
          BY <2>2, UnitsAssoc
        <5>2. accepted' = ((Opt(sps) \o Opt(pps)) \o rest) \o Nalus(f)
          BY <4>1, <4>2, <2>1
        <5> QED  BY <5>1, <5>2
      <4>4. rest \o Nalus(f) \in Seq(Bytes)  BY <2>2, ConcatProperties
      <4> QED  BY <4>3, <4>4
    <3> QED  BY <3>1, <3>2
  <2> QED  BY <2>1, <2>3 DEF SetsFirst, Opt
<1>2. ASSUME UNCHANGED <<params, first, accepted>> PROVE SetsFirst'
  BY <1>2 DEF SetsFirst, Opt, params
<1>3. CASE SendSingle
  <2>1. UNCHANGED <<params, first, accepted>>  BY <1>3 DEF SendSingle
  <2> QED  BY <2>1, <1>2
<1>4. CASE SendFragment
  <2>1. UNCHANGED <<params, first, accepted>>  BY <1>4 DEF SendFragment
  <2> QED  BY <2>1, <1>2
<1>5. CASE UNCHANGED vars
  <2>1. UNCHANGED <<params, first, accepted>>  BY <1>5 DEF vars, history
  <2> QED  BY <2>1, <1>2
<1> QED  BY <1>1, <1>3, <1>4, <1>5 DEF Next

\* A unit the receiver has is the one that was given in its place.
LEMMA Prefixed ==
  ASSUME TypeOK, Kept, NEW i \in 1..2, i <= Len(rebuilt)
  PROVE  rebuilt[i] = accepted[i] /\ accepted # <<>>
<1>1. rebuilt \in Seq(Bytes) /\ Remaining \in Seq(Bytes)  BY RemainingType DEF TypeOK
<1>2. Len(rebuilt) \in Nat /\ Len(Remaining) \in Nat /\ Len(accepted) = Len(rebuilt) + Len(Remaining)
  BY <1>1, ConcatProperties, LenProperties DEF Kept
<1>3. i \in 1..Len(rebuilt) + Len(Remaining) /\ i <= Len(rebuilt) /\ Len(accepted) # 0  BY <1>2
<1>4. rebuilt[i] = accepted[i]  BY <1>1, <1>3, ConcatProperties DEF Kept
<1>5. accepted # <<>>  BY <1>3
<1> QED  BY <1>4, <1>5

\* What DESCRIBE announces is what the packets bring: the parameter sets that a client decodes
\* from sprop-parameter-sets are the first units every client that is there from the first frame
\* is sent (add_media against push_frame): AnnouncedIsSent in the run.
THEOREM SetsAnnouncedAreSent == ParseExact => (Spec => []AnnouncedIsSent)
<1> SUFFICES ASSUME ParseExact PROVE Spec => []AnnouncedIsSent
  OBVIOUS
<1>1. Spec => []IInv
  BY AlwaysIInv
<1>2. Init => SetsFirst
  BY DEF Init, SetsFirst
<1>3. IInv /\ SetsFirst /\ [Next]_vars => SetsFirst'
  BY SetsStayFirst DEF IInv
<1>4. IInv /\ SetsFirst => AnnouncedIsSent
  <2> SUFFICES ASSUME IInv, SetsFirst, Fmtp.sprop # <<>>, NEW i \in 1..2, Len(rebuilt) >= i
               PROVE  Base64Decode(Fmtp.sprop[i]) = rebuilt[i]
    BY DEF AnnouncedIsSent, Fmtp
  <2>1. SpsPps # <<>>
    BY DEF Fmtp
  <2>2. sps # <<>> /\ pps # <<>> /\ SpsPps = <<sps, pps>>
    BY <2>1 DEF SpsPps
  <2>3. sps \in Bytes /\ pps \in Bytes
    BY SetsType DEF IInv
  <2>4. Fmtp.sprop[i] = Base64Encode(SpsPps[i])
    BY <2>2 DEF Fmtp
  <2>5. SpsPps[i] \in Bytes
    BY <2>2, <2>3
  <2>6. Base64Decode(Fmtp.sprop[i]) = SpsPps[i]
    BY <2>4, <2>5, Base64Inverse
  <2>7. i <= Len(rebuilt)
    BY LenProperties DEF IInv, TypeOK
  <2>8. rebuilt[i] = accepted[i] /\ accepted # <<>>
    BY <2>7, Prefixed DEF IInv
  <2>9. PICK rest \in Seq(Bytes) : accepted = (Opt(sps) \o Opt(pps)) \o rest
    BY <2>8 DEF SetsFirst
  <2>10. Opt(sps) \o Opt(pps) = <<sps, pps>>
    <3>1. Opt(sps) = <<sps>> /\ Opt(pps) = <<pps>>
      BY <2>2 DEF Opt
    <3>2. /\ <<sps>> \in Seq(Bytes) /\ <<pps>> \in Seq(Bytes) /\ <<sps, pps>> \in Seq(Bytes)
          /\ Len(<<sps>>) = 1 /\ Len(<<pps>>) = 1 /\ Len(<<sps, pps>>) = 2
      BY <2>3
    <3>3. /\ <<sps>> \o <<pps>> \in Seq(Bytes) /\ Len(<<sps>> \o <<pps>>) = 2
          /\ \A j \in 1..1 + 1 : (<<sps>> \o <<pps>>)[j] = IF j <= 1 THEN <<sps>>[j] ELSE <<pps>>[j - 1]
      BY <3>2, ConcatProperties
    <3>4. \A j \in 1..2 : (<<sps>> \o <<pps>>)[j] = <<sps, pps>>[j]
      BY <3>3
    <3>5. <<sps>> \o <<pps>> = <<sps, pps>>
      BY <3>2, <3>3, <3>4, SeqEqual
    <3> QED  BY <3>1, <3>5
  <2>11. accepted[i] = <<sps, pps>>[i]
    <3>1. <<sps, pps>> \in Seq(Bytes) /\ Len(<<sps, pps>>) = 2
      BY <2>3
    <3>2. Len(rest) \in Nat
      BY LenProperties
    <3>3. i \in 1..2 + Len(rest) /\ i <= 2
      BY <3>2
    <3>4. (<<sps, pps>> \o rest)[i] = <<sps, pps>>[i]
      BY <3>1, <3>3, ConcatProperties
    <3> QED  BY <3>4, <2>9, <2>10
  <2> QED  BY <2>2, <2>6, <2>8, <2>11
<1> QED  BY <1>1, <1>2, <1>3, <1>4, PTL DEF Spec
=============================================================================
