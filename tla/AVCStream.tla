----------------------------- MODULE AVCStream -----------------------------
(***************************************************************************)
(* The packetizer (RTSPLive/AVCStream.cpp): the host pushes one frame, a   *)
(* string of bytes in which NAL units are separated by start codes or      *)
(* preceded by their lengths; push_frame finds the units, send_nalu puts   *)
(* each into one packet or into FU-A fragments (RFC 6184), send_packet     *)
(* numbers them.  The host's thread does it all under RTSPCore::m_lock;    *)
(* each packet it hands to the observers is a step here, so the properties *)
(* speak of every packet and not only of whole frames.                     *)
(***************************************************************************)
EXTENDS Integers, Sequences

CONSTANTS
    MaxPacketSize,  \* m_max_packet_size (1200 in the code)
    SeqMod,         \* number of RTP sequence numbers (2^16 in the code)
    Packs,          \* the packagings init_param may ask for
    ParamSets,      \* the pairs <<sps, pps>> init_param may hold; an absent set is empty
    Frames,         \* the frames the host may push: sequences of [codelen, nal]
    MaxFrames       \* bound on the calls of push_frame

Byte  == 0..255
Bytes == Seq(Byte)
Pack  == {"rfc", "annexb", "avcc1", "avcc2", "avcc4"}

ASSUME PacketizerAssumption ==
    /\ MaxPacketSize \in Nat /\ MaxPacketSize >= 4
    /\ SeqMod \in Nat \ {0}
    /\ MaxFrames \in Nat
    /\ Packs \subseteq Pack
    /\ ParamSets \subseteq Bytes \X Bytes
    /\ \A f \in Frames :
         f \in Seq([codelen : {3, 4}, nal : Bytes \ {<<>>}]) /\ f # <<>>
-----------------------------------------------------------------------------
(* What the host hands over: the bytes of a frame in the packaging it announced.           *)

LengthSize(p) == CASE p = "avcc1" -> 1 [] p = "avcc2" -> 2 [] OTHER -> 4

StartCode(n) == IF n = 4 THEN <<0, 0, 0, 1>> ELSE <<0, 0, 1>>

\* The length in n bytes, the most significant first.
BigEndian(size, n) == [j \in 1..n |-> (size \div 256^(n - j)) % 256]

Prefix(p, x) == IF p = "annexb" THEN StartCode(x.codelen) ELSE BigEndian(Len(x.nal), LengthSize(p))

FrameBytes(p, f) ==
    LET upTo[n \in 0..Len(f)] ==
          IF n = 0 THEN <<>> ELSE upTo[n - 1] \o Prefix(p, f[n]) \o f[n].nal
    IN  upTo[Len(f)]
-----------------------------------------------------------------------------
(* push_frame: the units found in the bytes d, the last one marked.  Offsets count from 0,  *)
(* d[i + 1] is data[i].                                                                     *)

Unit(d, from, to, last) == [data |-> SubSeq(d, from + 1, to), marker |-> last]

\* Mutants of AnnexB: the leading zero of a four-byte start code stays with the unit before it;
\* the scan ends a byte early.
AnnexBKeepsZero(d) ==
    LET scan[i \in 0..Len(d), start \in -1..Len(d)] ==
          IF i >= Len(d) - 3
          THEN IF start = -1 THEN <<>> ELSE <<Unit(d, start, Len(d), TRUE)>>
          ELSE IF SubSeq(d, i + 1, i + 3) # <<0, 0, 1>> THEN scan[i + 1, start]
          ELSE IF start = -1 THEN scan[i + 3, i + 3]
          ELSE <<Unit(d, start, i, FALSE)>> \o scan[i + 1, i + 3]
    IN  scan[0, -1]

AnnexBEndsEarly(d) ==
    LET scan[i \in 0..Len(d), start \in -1..Len(d)] ==
          IF i >= Len(d) - 4
          THEN IF start = -1 THEN <<>> ELSE <<Unit(d, start, Len(d), TRUE)>>
          ELSE IF SubSeq(d, i + 1, i + 3) # <<0, 0, 1>> THEN scan[i + 1, start]
          ELSE IF start = -1 THEN scan[i + 3, i + 3]
          ELSE <<Unit(d, start, i - (IF d[i] = 0 THEN 1 ELSE 0), FALSE)>> \o scan[i + 1, i + 3]
    IN  scan[0, -1]

\* Annex B: a unit ends before the next start code, and before the zero that may precede it.
AnnexB(d) ==
    LET scan[i \in 0..Len(d), start \in -1..Len(d)] ==
          IF i >= Len(d) - 3
          THEN IF start = -1 THEN <<>> ELSE <<Unit(d, start, Len(d), TRUE)>>
          ELSE IF SubSeq(d, i + 1, i + 3) # <<0, 0, 1>> THEN scan[i + 1, start]
          ELSE IF start = -1 THEN scan[i + 3, i + 3]
          ELSE <<Unit(d, start, i - (IF d[i] = 0 THEN 1 ELSE 0), FALSE)>> \o scan[i + 1, i + 3]
    IN  scan[0, -1]

\* AVCC: the size of each unit comes before it in n bytes.
Avcc(d, n) ==
    LET size(i) == LET upTo[j \in 0..n] == IF j = 0 THEN 0 ELSE upTo[j - 1] * 256 + d[i + j]
                   IN  upTo[n]
        cut[i \in 0..Len(d)] ==
          IF i >= Len(d) THEN <<>>
          ELSE LET next == i + n + size(i)
               IN  <<Unit(d, i + n, next, next >= Len(d))>> \o cut[next]
    IN  cut[0]

UnitsOf(p, d) ==
    CASE p = "rfc"    -> <<>>           \* "not supported now"
      [] p = "annexb" -> AnnexB(d)
      [] OTHER        -> Avcc(d, LengthSize(p))
-----------------------------------------------------------------------------
VARIABLES
    pack, sps, pps,  \* m_pack, m_sps, m_pps: fixed by the constructor
    first,           \* m_first: no frame has been pushed
    pc,              \* which unit push_frame is sending: of a parameter set or of the frame
    queue,           \* the units of the frame that have not been sent to their end
    left,            \* data_len: the bytes of the present unit that fragments are still to carry;
                     \* 0 before the first fragment
    seqno,           \* m_seqno
    frames,          \* number of calls of push_frame
    out,             \* history: the last packet
    accepted,        \* history: the NAL units the host gave, parameter sets included
    rebuilt,         \* history: the NAL units an RFC 6184 receiver has put together
    partial          \* history: the fragments it has put together of the next one

params == <<pack, sps, pps>>
history == <<out, accepted, rebuilt, partial>>
vars == <<params, first, pc, queue, left, seqno, frames, history>>

NoPacket == [form |-> "none"]

Present == CASE pc = "sps" -> [data |-> sps, marker |-> FALSE]
             [] pc = "pps" -> [data |-> pps, marker |-> FALSE]
             [] OTHER      -> Head(queue)

Nalu == Present.data

TypeOK ==
    /\ pack \in Packs /\ <<sps, pps>> \in ParamSets
    /\ first \in BOOLEAN
    /\ pc \in {"idle", "sps", "pps", "frame"}
    /\ queue \in Seq([data : Bytes, marker : BOOLEAN])
    /\ left \in Nat
    /\ seqno \in 0..SeqMod - 1
    /\ frames \in 0..MaxFrames
    /\ accepted \in Seq(Bytes) /\ rebuilt \in Seq(Bytes) /\ partial \in Bytes

\* The constructor makes no fragment buffer for "rfc": larger sets could not be sent, and a set
\* of 1200 bytes does not occur.
Init ==
    /\ pack \in Packs
    /\ \E s \in ParamSets : sps = s[1] /\ pps = s[2]
    /\ pack = "rfc" => Len(sps) < MaxPacketSize /\ Len(pps) < MaxPacketSize
    /\ first = TRUE
    /\ pc = "idle" /\ queue = <<>> /\ left = 0
    /\ seqno \in 0..SeqMod - 1
    /\ frames = 0
    /\ out = NoPacket
    /\ accepted = <<>> /\ rebuilt = <<>> /\ partial = <<>>

\* A parameter set or a frame as the list of units a call is given: an absent set is none.
Opt(set)  == IF set = <<>> THEN <<>> ELSE <<set>>
Nalus(f)  == IF pack = "rfc" THEN <<>> ELSE [i \in 1..Len(f) |-> f[i].nal]
Given(f)  == (IF first THEN Opt(sps) \o Opt(pps) ELSE <<>>) \o Nalus(f)

\* push_frame(f): the first frame ever comes after the parameter sets.
PushFrame(f) ==
    /\ pc = "idle"
    /\ frames < MaxFrames
    /\ frames' = frames + 1
    /\ first' = FALSE
    /\ queue' = UnitsOf(pack, FrameBytes(pack, f))
    /\ pc' = IF first THEN "sps" ELSE IF queue' = <<>> THEN "idle" ELSE "frame"
    /\ accepted' = accepted \o Given(f)
    /\ UNCHANGED <<params, left, seqno, out, rebuilt, partial>>

\* The unit has been sent to its end: on to the next.
NextUnit ==
    /\ left' = 0
    /\ queue' = IF pc = "frame" THEN Tail(queue) ELSE queue
    /\ pc' = IF pc = "sps" THEN "pps" ELSE IF queue' = <<>> THEN "idle" ELSE "frame"

\* What a receiver does with a packet (RFC 6184, 5.6 and 5.8): a unit of its own, or a fragment
\* whose first and last are flagged and whose header octet is taken apart.
Unpack(p) ==
    LET header == <<p.nri * 32 + p.type>>
        soFar  == (IF p.start THEN header ELSE partial) \o p.data
    IN  IF p.form = "single"
        THEN rebuilt' = Append(rebuilt, p.data) /\ partial' = <<>>
        ELSE IF p.end
        THEN rebuilt' = Append(rebuilt, soFar) /\ partial' = <<>>
        ELSE rebuilt' = rebuilt /\ partial' = soFar

Single(data)         == [form |-> "single", data |-> data]
Fragment(h, s, e, d) == [form |-> "fua", nri |-> h \div 32, type |-> h % 32, start |-> s,
                         end |-> e, data |-> d]

Numbered(p, m) == [packet |-> p, marker |-> m, seq |-> seqno]

\* Mutants of SendPacket: a payload that makes no packet still takes a number; the number is
\* wider than its field.
SendPacketCounts(p, m) ==
    /\ seqno' = (seqno + 1) % SeqMod
    /\ IF p.data = <<>>
       THEN UNCHANGED <<out, rebuilt, partial>>
       ELSE out' = Numbered(p, m) /\ Unpack(p)

\* send_packet: RtpPacket::create_instance makes no packet of an empty payload, and then no
\* sequence number is taken.
SendPacket(p, m) ==
    IF p.data = <<>>
    THEN UNCHANGED <<seqno, out, rebuilt, partial>>
    ELSE /\ seqno' = (seqno + 1) % SeqMod
         /\ out' = Numbered(p, m)
         /\ Unpack(p)

\* send_nalu of a unit that fits into one packet.
SendSingle ==
    /\ pc # "idle" /\ Len(Nalu) < MaxPacketSize
    /\ SendPacket(Single(Nalu), Present.marker)
    /\ NextUnit
    /\ UNCHANGED <<params, first, frames, accepted>>

\* Mutant of FragmentSize: one octet is left for the two of the FU header.
FragmentSizeTight(dataLen) ==
    IF MaxPacketSize - 1 > dataLen THEN dataLen ELSE MaxPacketSize - 1

\* pkt_len: what is left, if it fits beside the two octets of the FU header.
FragmentSize(dataLen) == IF MaxPacketSize - 2 > dataLen THEN dataLen ELSE MaxPacketSize - 2

\* Mutant of SendFragment: every fragment carries the marker of its unit.
SendFragmentMarks ==
    /\ pc # "idle" /\ Len(Nalu) >= MaxPacketSize
    /\ LET dataLen == IF left = 0 THEN Len(Nalu) - 1 ELSE left
           size    == FragmentSize(dataLen)
           from    == Len(Nalu) - dataLen
           start   == dataLen = Len(Nalu) - 1
           end     == ~start /\ dataLen = size
       IN  /\ SendPacket(Fragment(Nalu[1], start, end, SubSeq(Nalu, from + 1, from + size)),
                         Present.marker)
           /\ IF dataLen = size
              THEN NextUnit
              ELSE left' = dataLen - size /\ UNCHANGED <<pc, queue>>
    /\ UNCHANGED <<params, first, frames, accepted>>

\* One round of send_nalu's loop over a unit that does not fit: the next fragment.
SendFragment ==
    /\ pc # "idle" /\ Len(Nalu) >= MaxPacketSize
    /\ LET dataLen == IF left = 0 THEN Len(Nalu) - 1 ELSE left
           size    == FragmentSize(dataLen)
           from    == Len(Nalu) - dataLen
           start   == dataLen = Len(Nalu) - 1
           end     == ~start /\ dataLen = size
       IN  /\ SendPacket(Fragment(Nalu[1], start, end, SubSeq(Nalu, from + 1, from + size)),
                         dataLen = size /\ Present.marker)
           /\ IF dataLen = size
              THEN NextUnit
              ELSE left' = dataLen - size /\ UNCHANGED <<pc, queue>>
    /\ UNCHANGED <<params, first, frames, accepted>>

Next == (\E f \in Frames : PushFrame(f)) \/ SendSingle \/ SendFragment

Spec == Init /\ [][Next]_vars
-----------------------------------------------------------------------------
\* push_frame finds in the bytes of a frame the units the host put there, the last one marked.
\* The theorems assume it; AllRebuilt (every unit of every frame pushed) and MarksFrameEnd (its
\* last one) could not hold without it, and the run thereby checks it.
ParseExact ==
    \A p \in Packs \ {"rfc"}, f \in Frames :
        UnitsOf(p, FrameBytes(p, f)) =
            [i \in 1..Len(f) |-> [data |-> f[i].nal, marker |-> i = Len(f)]]

\* No packet outgrows what the observers' buffers hold (RTSPClient::m_streams' interpkt is made
\* for max_packet_size), and no fragment is first and last at once, which RFC 6184 forbids.
FitsPacket ==
    out # NoPacket =>
        LET p == out.packet
        IN  /\ Len(p.data) + (IF p.form = "fua" THEN 2 ELSE 0) <= MaxPacketSize
            /\ p.form = "fua" => ~(p.start /\ p.end)

\* The marker bit is set on the last packet of a frame and on no other (send_nalu's and
\* push_frame's marker), in however many units and fragments the frame goes out.
MarksFrameEnd ==
    [][out' # out => (out'.marker <=> pc' = "idle" /\ pack # "rfc")]_vars

\* The sequence numbers of successive packets are successive, also around units that make no
\* packet: an absent parameter set must not look like a lost packet.
InSequence ==
    [][out' # out /\ out # NoPacket => out'.seq = (out.seq + 1) % SeqMod]_vars

\* A receiver rebuilds the NAL units the host gave, all of them, in order and byte for byte,
\* whatever the packaging, the start codes and the sizes: the packetizer is a FIFO channel.
Calls == {s \o f : s \in {<<>>} \cup {Opt(x[1]) \o Opt(x[2]) : x \in ParamSets},
                   f \in {<<>>} \cup {[i \in 1..Len(f) |-> f[i].nal] : f \in Frames}}
Receiver == INSTANCE FifoChannel WITH Message <- Calls, delivered <- rebuilt
ReceiverSpec == Receiver!Spec

\* Nothing is held back: when push_frame has returned, the receiver has every unit.
AllRebuilt == pc = "idle" => rebuilt = accepted
=============================================================================
