---------------------------- MODULE RTSPFraming ----------------------------
(***************************************************************************)
(* How RTSPMessager finds requests in what a connection delivers, and how  *)
(* a client finds its answers.  TCP cuts and joins messages as it likes;   *)
(* UTETransport::on_read hands each chunk it reads to on_recv, which takes *)
(* it for one request (create_request) or else for one interleaved frame   *)
(* (InterleavedFrame::parse), and keeps nothing of it.                     *)
(*                                                                         *)
(* A line of text is four units that a chunk may end between: two parts of *)
(* its text, CR and LF.  A frame is '$', the rest of its header, and data. *)
(***************************************************************************)
EXTENDS Integers, Sequences

CONSTANTS
    Kinds,        \* what clients send: methods, and "frame" for an RTCP packet
    MaxMessages   \* bound on the messages sent

\* The lines of a request: those without which its handler does not answer.
LinesOf ==
    [OPTIONS  |-> <<"request", "CSeq", "empty">>,
     DESCRIBE |-> <<"request", "CSeq", "Accept", "empty">>,
     SETUP    |-> <<"request", "CSeq", "Transport", "empty">>,
     PLAY     |-> <<"request", "CSeq", "empty">>,
     TEARDOWN |-> <<"request", "CSeq", "empty">>]

Method == DOMAIN LinesOf

ASSUME FramingAssumption ==
    Kinds \subseteq Method \cup {"frame"} /\ MaxMessages \in Nat

VARIABLES
    sent,      \* the messages sent so far
    coming,    \* the units sent and not yet read
    executed,  \* history: requests given to a handler, with the message each field came from
    rtcp,      \* history: the packets InterleavedFrame::parse has found
    answers,   \* history: the lines of the answers, as the client gets them
    whole      \* history: every chunk so far has been one message

vars == <<sent, coming, executed, rtcp, answers, whole>>

\* How many units a message has, and what stands at each place.
Size(kind) == IF kind = "frame" THEN 3 ELSE 4 * Len(LinesOf[kind]) - 2

Line(kind, at) == IF kind = "frame" THEN "frame" ELSE LinesOf[kind][((at - 1) \div 4) + 1]

Part(kind, at) ==
    IF kind = "frame" THEN <<"$", "header", "data">>[at]
    ELSE IF Line(kind, at) = "empty" THEN <<"cr", "lf">>[((at - 1) % 4) + 1]
    ELSE <<"a", "b", "cr", "lf">>[((at - 1) % 4) + 1]

Unit(i, at) == [msg |-> i, at |-> at]

Reads(u, line, part) == Line(sent[u.msg], u.at) = line /\ Part(sent[u.msg], u.at) = part

Data(i) == <<Unit(i, 3)>>

\* Message i as its sender writes it.
Wire(i, kind) == [at \in 1..Size(kind) |-> Unit(i, at)]

Units == [msg : DOMAIN sent, at : 1..14]

TypeOK ==
    /\ sent \in Seq(Kinds) /\ Len(sent) <= MaxMessages
    /\ coming \in Seq(Units)
    /\ executed \in Seq([msg : DOMAIN sent, CSeq : 0..MaxMessages, Accept : 0..MaxMessages,
                         Transport : 0..MaxMessages])
    /\ rtcp \in Seq(Seq(Units))
    /\ answers \in Seq({"status", "refused", "field", "empty", "body"})
    /\ whole \in BOOLEAN

Init ==
    /\ sent = <<>> /\ coming = <<>>
    /\ executed = <<>> /\ rtcp = <<>> /\ answers = <<>>
    /\ whole = TRUE
-----------------------------------------------------------------------------
(* RTSPMessager::create_request.                                           *)

\* The ends of the lines in a chunk: where CR and LF follow each other.
EndLines(chunk) ==
    {p \in 1..Len(chunk) - 1 :
        /\ Part(sent[chunk[p].msg], chunk[p].at) = "cr"
        /\ Part(sent[chunk[p + 1].msg], chunk[p + 1].at) = "lf"}

\* Mutant of Lines: a line starts at the LF of the one before it.
LinesEarly(chunk) ==
    LET ends == EndLines(chunk)
    IN  {a \in {1} \cup {p + 1 : p \in ends} : a \notin ends /\ \E e \in ends : a < e}

\* Where a line starts that has an end and is not empty; what follows the last end is lost.
Lines(chunk) ==
    LET ends == EndLines(chunk)
    IN  {a \in {1} \cup {p + 2 : p \in ends} : a \notin ends /\ \E e \in ends : a < e}

\* The line at a is that of this name, not a part of it or with something before it.
Is(chunk, a, name) ==
    Reads(chunk[a], name, "a") /\ Reads(chunk[a + 1], name, "b") /\ a + 2 \in EndLines(chunk)

Least(a, places) == a \in places /\ \A k \in places : a <= k

\* parse_header: a known method is found at the beginning of the first line.
Parsed(chunk, lines, a) == Least(a, lines) /\ Is(chunk, a, "request")

\* Mutant of Field: a field that comes again replaces the first.
FieldLast(chunk, lines, name) ==
    LET at == {a \in lines : ~Least(a, lines) /\ Is(chunk, a, name)}
    IN  IF at = {} THEN 0 ELSE chunk[CHOOSE a \in at : \A k \in at : k <= a].msg

\* get_field: the message the value comes from, 0 if there is none.  std::map::insert keeps the
\* first of a name.
Field(chunk, lines, name) ==
    LET at == {a \in lines : ~Least(a, lines) /\ Is(chunk, a, name)}
    IN  IF at = {} THEN 0 ELSE chunk[CHOOSE a \in at : Least(a, at)].msg

Request(chunk, lines, a) ==
    [msg |-> chunk[a].msg, CSeq |-> Field(chunk, lines, "CSeq"),
     Accept |-> Field(chunk, lines, "Accept"), Transport |-> Field(chunk, lines, "Transport")]
-----------------------------------------------------------------------------
\* check_request.
Checked(r) == r.CSeq # 0 /\ (sent[r.msg] = "DESCRIBE" => r.Accept # 0)

\* Mutant of Fill: the end of the answer to PLAY is forgotten.
FillForgets(method, refused) ==
    CASE method = "OPTIONS"  -> <<"field", "empty">>
      [] method = "DESCRIBE" -> <<"field", "field", "empty", "body">>
      [] method = "SETUP"    -> IF refused THEN <<>> ELSE <<"field", "field", "empty">>
      [] method = "PLAY"     -> <<>>
      [] method = "TEARDOWN" -> <<"empty">>

\* fill_response.
Fill(method, refused) ==
    CASE method = "OPTIONS"  -> <<"field", "empty">>
      [] method = "DESCRIBE" -> <<"field", "field", "empty", "body">>
      [] method = "SETUP"    -> IF refused THEN <<>> ELSE <<"field", "field", "empty">>
      [] method = "PLAY"     -> <<"empty">>
      [] method = "TEARDOWN" -> <<"empty">>

\* send_response: status and CSeq, and what fill_response adds.  A SETUP may be refused.
Answer(r) ==
    IF Checked(r)
    THEN \E refused \in {FALSE, sent[r.msg] = "SETUP"} :
           answers' = answers \o <<IF refused THEN "refused" ELSE "status", "field">>
                              \o Fill(sent[r.msg], refused)
    ELSE UNCHANGED answers

\* The handlers; on_recv drops a SETUP whose transport it cannot read.
Execute(r) ==
    IF sent[r.msg] = "SETUP" /\ r.Transport = 0
    THEN UNCHANGED <<executed, answers>>
    ELSE executed' = Append(executed, r) /\ Answer(r)

\* InterleavedFrame::parse.
Frame(chunk) ==
    IF Len(chunk) > 2 /\ Reads(chunk[1], "frame", "$") THEN SubSeq(chunk, 3, Len(chunk)) ELSE <<>>

\* on_recv, given one chunk.
OnRecv(chunk) ==
    LET lines == Lines(chunk)
    IN  \/ \E a \in lines :
             /\ Parsed(chunk, lines, a)
             /\ Execute(Request(chunk, lines, a))
             /\ UNCHANGED rtcp
        \/ /\ \A a \in lines : ~Parsed(chunk, lines, a)
           /\ rtcp' = IF Frame(chunk) = <<>> THEN rtcp ELSE Append(rtcp, Frame(chunk))
           /\ UNCHANGED <<executed, answers>>
-----------------------------------------------------------------------------
Send(kind) ==
    /\ Len(sent) < MaxMessages
    /\ sent' = Append(sent, kind)
    /\ coming' = coming \o Wire(Len(sent) + 1, kind)
    /\ UNCHANGED <<executed, rtcp, answers, whole>>

\* UTETransport::on_read, for the next n units.
Read(n) ==
    /\ n \in 1..Len(coming)
    /\ coming' = SubSeq(coming, n + 1, Len(coming))
    /\ OnRecv(SubSeq(coming, 1, n))
    /\ whole' = (whole /\ \E i \in DOMAIN sent : SubSeq(coming, 1, n) = Wire(i, sent[i]))
    /\ UNCHANGED sent

Next == (\E kind \in Kinds : Send(kind)) \/ \E n \in 1..Len(coming) : Read(n)

Spec == Init /\ [][Next]_vars
-----------------------------------------------------------------------------
\* However the chunks are cut, what is executed was sent: requests in the order they were sent,
\* none twice, and a field a handler reads is its request's own or missing, never that of a
\* request that follows in the same chunk.
ExecutedWasSent ==
    /\ \A j, k \in DOMAIN executed : j < k => executed[j].msg < executed[k].msg
    /\ \A k \in DOMAIN executed :
         LET r == executed[k]
         IN  /\ r.CSeq \in {0, r.msg}
             /\ sent[r.msg] = "DESCRIBE" => r.Accept \in {0, r.msg}
             /\ sent[r.msg] = "SETUP" => r.Transport = r.msg

\* Request i is executed with every field it was sent with.
Understood(i) ==
    \E k \in DOMAIN executed :
        /\ executed[k].msg = i
        /\ \A n \in DOMAIN LinesOf[sent[i]] :
             LET name == LinesOf[sent[i]][n]
             IN  name \in {"CSeq", "Accept", "Transport"} => executed[k][name] = i

\* As long as TCP delivers each message by itself, every request is understood and every
\* packet is what its sender put into the frame, in the order they were sent.
UnderstoodIfWhole ==
    whole /\ coming = <<>> =>
        /\ \A i \in DOMAIN sent : sent[i] # "frame" => Understood(i)
        /\ \A i \in DOMAIN sent : sent[i] = "frame" => \E k \in DOMAIN rtcp : rtcp[k] = Data(i)
        /\ \A k \in DOMAIN rtcp : \E i \in DOMAIN sent : sent[i] = "frame" /\ rtcp[k] = Data(i)
        /\ \A j, k \in DOMAIN rtcp : j < k => rtcp[j][1].msg < rtcp[k][1].msg

\* A client finds where each answer ends: none begins, and none is the last, before the one
\* before it has its empty line or its body ("an RTSP packet is terminated with an empty line").
\* The exception is the refusal of a SETUP, which nothing ends: the client takes the next answer
\* for a part of it.
AnswersDelimited ==
    LET ended(n) ==
            \/ answers[n] \in {"empty", "body"}
            \/ n > 1 /\ answers[n - 1] = "refused"
    IN  /\ answers # <<>> => ended(Len(answers))
        /\ \A n \in DOMAIN answers : answers[n] \in {"status", "refused"} /\ n > 1 => ended(n - 1)

\* A request ends with its empty line (fill_response), wherever TCP cuts: when everything has
\* been read every request has been understood.
AllUnderstood ==
    coming = <<>> => \A i \in DOMAIN sent : sent[i] # "frame" => Understood(i)
============================================================================
