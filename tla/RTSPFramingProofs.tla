------------------------- MODULE RTSPFramingProofs -------------------------
(***************************************************************************)
(* Theorems about RTSPFraming, for any number of messages of any kinds and *)
(* however TCP cuts them.  Stream says what a connection holds: the rest   *)
(* of a message, and whole messages behind it, up to the last one sent.    *)
(* That a handler reads its own request's fields follows from it, for a    *)
(* field's line stands in a chunk only behind the lines before it.         *)
(***************************************************************************)
EXTENDS RTSPFraming, SequenceTheorems, WellFoundedInduction, TLAPS

Kind(u) == sent[u.msg]

InPlace(s) == \A n \in DOMAIN s : s[n].at <= Size(Kind(s[n]))

\* A message's units follow each other.
Together(s) ==
    \A m, n \in DOMAIN s :
        m <= n /\ s[m].at + (n - m) <= Size(Kind(s[m])) => s[n] = Unit(s[m].msg, s[m].at + (n - m))

\* A message begins where the one before it ends.
Crossing(s) ==
    \A n \in DOMAIN s :
        n < Len(s) /\ s[n].at = Size(Kind(s[n])) => s[n + 1] = Unit(s[n].msg + 1, 1)

Sorted(s) ==
    \A m, n \in DOMAIN s :
        m < n => s[m].msg < s[n].msg \/ (s[m].msg = s[n].msg /\ s[m].at < s[n].at)

Stream ==
    /\ InPlace(coming) /\ Together(coming) /\ Crossing(coming) /\ Sorted(coming)
    /\ coming # <<>> => coming[Len(coming)] = Unit(Len(sent), Size(sent[Len(sent)]))

\* A message that is still to begin comes after every request that has been executed.
Ahead ==
    \A k \in DOMAIN executed, n \in DOMAIN coming :
        coming[n].at = 1 => executed[k].msg < coming[n].msg

Gone(i) == coming = <<>> \/ i < coming[1].msg

\* As long as every chunk was a message: what has been read was understood.
Whole ==
    whole =>
        /\ coming # <<>> => coming[1].at = 1
        /\ \A i \in DOMAIN sent : Gone(i) /\ sent[i] # "frame" => Understood(i)
        /\ \A i \in DOMAIN sent :
             Gone(i) /\ sent[i] = "frame" => \E k \in DOMAIN rtcp : rtcp[k] = Data(i)
        /\ \A k \in DOMAIN rtcp :
             \E i \in DOMAIN sent : Gone(i) /\ sent[i] = "frame" /\ rtcp[k] = Data(i)
        /\ \A j, k \in DOMAIN rtcp : j < k => rtcp[j][1].msg < rtcp[k][1].msg

IInv == TypeOK /\ Stream /\ Ahead /\ ExecutedWasSent /\ Whole
-----------------------------------------------------------------------------
(* What stands where in a message.                                         *)

LEMMA Methods ==
  /\ Method = {"OPTIONS", "DESCRIBE", "SETUP", "PLAY", "TEARDOWN"}
  /\ Kinds \subseteq Method \cup {"frame"}
BY FramingAssumption DEF Method, LinesOf

LEMMA Sizes ==
  /\ \A kind \in Method : Size(kind) = IF kind \in {"DESCRIBE", "SETUP"} THEN 14 ELSE 10
  /\ Size("frame") = 3
<1>1. ASSUME NEW kind \in Method PROVE Size(kind) = IF kind \in {"DESCRIBE", "SETUP"} THEN 14 ELSE 10
  <2>1. kind # "frame"  BY Methods
  <2>2. Len(LinesOf[kind]) = IF kind \in {"DESCRIBE", "SETUP"} THEN 4 ELSE 3
    <3>1. CASE kind \in {"DESCRIBE", "SETUP"}  BY <3>1 DEF LinesOf
    <3>2. CASE kind = "OPTIONS"  BY <3>2 DEF LinesOf
    <3>3. CASE kind = "PLAY"  BY <3>3 DEF LinesOf
    <3>4. CASE kind = "TEARDOWN"  BY <3>4 DEF LinesOf
    <3> QED  BY <3>1, <3>2, <3>3, <3>4, Methods
  <2> QED  BY <2>1, <2>2 DEF Size
<1> QED  BY <1>1 DEF Size

LEMMA LinePlaces ==
  ASSUME NEW kind \in Method
  PROVE  /\ \A at \in 1..4 : Line(kind, at) = "request"
         /\ \A at \in 5..8 : Line(kind, at) = "CSeq"
         /\ kind = "DESCRIBE" => \A at \in 9..12 : Line(kind, at) = "Accept"
         /\ kind = "SETUP" => \A at \in 9..12 : Line(kind, at) = "Transport"
         /\ kind \notin {"DESCRIBE", "SETUP"} => \A at \in 9..10 : Line(kind, at) = "empty"
         /\ kind \in {"DESCRIBE", "SETUP"} => \A at \in 13..14 : Line(kind, at) = "empty"
<1>1. kind # "frame"  BY Methods
<1>2. /\ \A at \in 1..4 : ((at - 1) \div 4) + 1 = 1
      /\ \A at \in 5..8 : ((at - 1) \div 4) + 1 = 2
      /\ \A at \in 9..12 : ((at - 1) \div 4) + 1 = 3
      /\ \A at \in 13..14 : ((at - 1) \div 4) + 1 = 4
  OBVIOUS
<1>3. LinesOf[kind][1] = "request" /\ LinesOf[kind][2] = "CSeq"  BY Methods DEF LinesOf
<1>4. /\ kind = "DESCRIBE" => LinesOf[kind][3] = "Accept"
      /\ kind = "SETUP" => LinesOf[kind][3] = "Transport"
      /\ kind \notin {"DESCRIBE", "SETUP"} => LinesOf[kind][3] = "empty"
      /\ kind \in {"DESCRIBE", "SETUP"} => LinesOf[kind][4] = "empty"
  BY Methods DEF LinesOf
<1>5. \A at : Line(kind, at) = LinesOf[kind][((at - 1) \div 4) + 1]  BY <1>1 DEF Line
<1> QED  BY <1>2, <1>3, <1>4, <1>5

LEMMA PartPlaces ==
  ASSUME NEW kind \in Method
  PROVE  /\ \A at \in {1, 5} : Part(kind, at) = "a" /\ Part(kind, at + 1) = "b"
                              /\ Part(kind, at + 2) = "cr" /\ Part(kind, at + 3) = "lf"
         /\ kind \in {"DESCRIBE", "SETUP"} =>
              /\ Part(kind, 9) = "a" /\ Part(kind, 10) = "b"
              /\ Part(kind, 11) = "cr" /\ Part(kind, 12) = "lf"
              /\ Part(kind, 13) = "cr" /\ Part(kind, 14) = "lf"
         /\ kind \notin {"DESCRIBE", "SETUP"} => Part(kind, 9) = "cr" /\ Part(kind, 10) = "lf"
<1>1. kind # "frame"  BY Methods
<1>2. \A at : Part(kind, at) = IF Line(kind, at) = "empty" THEN <<"cr", "lf">>[((at - 1) % 4) + 1]
                               ELSE <<"a", "b", "cr", "lf">>[((at - 1) % 4) + 1]
  BY <1>1 DEF Part
<1>3. \A at \in {1, 5, 9, 13} : ((at - 1) % 4) + 1 = 1 /\ ((at + 1 - 1) % 4) + 1 = 2
  OBVIOUS
<1>4. \A at \in {1, 5, 9} : ((at + 2 - 1) % 4) + 1 = 3 /\ ((at + 3 - 1) % 4) + 1 = 4
  OBVIOUS
<1>5. \A at \in {1, 5, 9} :
        Line(kind, at) # "empty" /\ Line(kind, at + 1) # "empty"
          /\ Line(kind, at + 2) # "empty" /\ Line(kind, at + 3) # "empty" =>
        Part(kind, at) = "a" /\ Part(kind, at + 1) = "b"
          /\ Part(kind, at + 2) = "cr" /\ Part(kind, at + 3) = "lf"
  <2> DEFINE parts == <<"a", "b", "cr", "lf">>
  <2>1. parts[1] = "a" /\ parts[2] = "b" /\ parts[3] = "cr" /\ parts[4] = "lf"  OBVIOUS
  <2>2. \A at : Line(kind, at) # "empty" => Part(kind, at) = parts[((at - 1) % 4) + 1]  BY <1>2
  <2> HIDE DEF parts
  <2> SUFFICES ASSUME NEW at \in {1, 5, 9},
                      Line(kind, at) # "empty", Line(kind, at + 1) # "empty",
                      Line(kind, at + 2) # "empty", Line(kind, at + 3) # "empty"
               PROVE  /\ Part(kind, at) = "a" /\ Part(kind, at + 1) = "b"
                      /\ Part(kind, at + 2) = "cr" /\ Part(kind, at + 3) = "lf"
    OBVIOUS
  <2>3. /\ Part(kind, at) = parts[((at - 1) % 4) + 1]
        /\ Part(kind, at + 1) = parts[((at + 1 - 1) % 4) + 1]
        /\ Part(kind, at + 2) = parts[((at + 2 - 1) % 4) + 1]
        /\ Part(kind, at + 3) = parts[((at + 3 - 1) % 4) + 1]
    BY <2>2
  <2>4. ((at - 1) % 4) + 1 = 1 /\ ((at + 1 - 1) % 4) + 1 = 2  BY <1>3
  <2>5. ((at + 2 - 1) % 4) + 1 = 3 /\ ((at + 3 - 1) % 4) + 1 = 4  BY <1>4
  <2> QED  BY <2>1, <2>3, <2>4, <2>5, Zenon
<1>6. \A at \in {9, 13} :
        Line(kind, at) = "empty" /\ Line(kind, at + 1) = "empty" =>
        Part(kind, at) = "cr" /\ Part(kind, at + 1) = "lf"
  BY <1>2, <1>3
<1>7. \A at \in {1, 5} : Line(kind, at) # "empty" /\ Line(kind, at + 1) # "empty"
                         /\ Line(kind, at + 2) # "empty" /\ Line(kind, at + 3) # "empty"
  BY LinePlaces
<1>8. kind \in {"DESCRIBE", "SETUP"} =>
        /\ Line(kind, 9) # "empty" /\ Line(kind, 10) # "empty"
        /\ Line(kind, 11) # "empty" /\ Line(kind, 12) # "empty"
        /\ Line(kind, 13) = "empty" /\ Line(kind, 14) = "empty"
  BY LinePlaces
<1>9. kind \notin {"DESCRIBE", "SETUP"} => Line(kind, 9) = "empty" /\ Line(kind, 10) = "empty"
  BY LinePlaces
<1> QED  BY <1>5, <1>6, <1>7, <1>8, <1>9

\* A text line of a message: where one may stand, and what it is.
Texts(kind) == IF kind \in {"DESCRIBE", "SETUP"} THEN {1, 5, 9} ELSE {1, 5}

LEMMA TextPlaces ==
  ASSUME NEW kind \in Method, NEW at \in Texts(kind)
  PROVE  /\ at \in Nat /\ at + 5 <= Size(kind)
         /\ Part(kind, at) = "a" /\ Part(kind, at + 1) = "b"
         /\ Part(kind, at + 2) = "cr" /\ Part(kind, at + 3) = "lf"
         /\ Line(kind, at + 1) = Line(kind, at)
BY Sizes, PartPlaces, LinePlaces DEF Texts

\* A request begins with its request line, and nothing else is one.
LEMMA RequestPlace ==
  ASSUME NEW kind \in Kinds, NEW at \in 1..Size(kind), Line(kind, at) = "request", Part(kind, at) = "a"
  PROVE  kind \in Method /\ at = 1
<1>1. kind \in Method  BY Methods DEF Line
<1>2. at \in 1..4
  <2>1. CASE kind \in {"DESCRIBE", "SETUP"}
    <3>1. at \in 1..14  BY <2>1, <1>1, Sizes
    <3>2. at \in 1..4 \/ at \in 5..8 \/ at \in 9..12 \/ at \in 13..14  BY <3>1
    <3> QED  BY <3>2, <2>1, <1>1, LinePlaces
  <2>2. CASE kind \notin {"DESCRIBE", "SETUP"}
    <3>1. at \in 1..10  BY <2>2, <1>1, Sizes
    <3>2. at \in 1..4 \/ at \in 5..8 \/ at \in 9..10  BY <3>1
    <3> QED  BY <3>2, <2>2, <1>1, LinePlaces
  <2> QED  BY <2>1, <2>2
<1>3. Part(kind, 2) = "b" /\ Part(kind, 3) = "cr" /\ Part(kind, 4) = "lf"
  <2>1. 1 \in Texts(kind)  BY DEF Texts
  <2>2. Part(kind, 1 + 1) = "b" /\ Part(kind, 1 + 2) = "cr" /\ Part(kind, 1 + 3) = "lf"
    BY <2>1, <1>1, TextPlaces
  <2> QED  BY <2>2
<1> QED  BY <1>1, <1>2, <1>3
-----------------------------------------------------------------------------
(* What stands where in a chunk.                                           *)

Chunk(c) == c \in Seq(Units) /\ InPlace(c) /\ Together(c)

LEMMA ChunkFacts ==
  ASSUME TypeOK, NEW c, Chunk(c)
  PROVE  /\ Len(c) \in Nat /\ DOMAIN c = 1..Len(c)
         /\ Len(sent) \in Nat /\ DOMAIN sent = 1..Len(sent)
         /\ \A n \in 1..Len(c) :
              /\ c[n].msg \in DOMAIN sent /\ Kind(c[n]) \in Kinds
              /\ c[n].at \in Nat /\ c[n].at \in 1..Size(Kind(c[n]))
<1>1. Len(c) \in Nat /\ DOMAIN c = 1..Len(c) /\ \A n \in 1..Len(c) : c[n] \in Units
  BY LenProperties, ElementOfSeq DEF Chunk
<1>2. /\ Len(sent) \in Nat /\ DOMAIN sent = 1..Len(sent)
      /\ \A i \in DOMAIN sent : sent[i] \in Kinds
  BY LenProperties, ElementOfSeq DEF TypeOK
<1>3. ASSUME NEW n \in 1..Len(c)
      PROVE  /\ c[n].msg \in DOMAIN sent /\ Kind(c[n]) \in Kinds
             /\ c[n].at \in Nat /\ c[n].at \in 1..Size(Kind(c[n]))
  <2>1. c[n].msg \in DOMAIN sent /\ c[n].at \in 1..14  BY <1>1 DEF Units
  <2>2. Kind(c[n]) \in Kinds  BY <2>1, <1>2 DEF Kind
  <2>3. Size(Kind(c[n])) \in Nat
    <3>1. CASE Kind(c[n]) \in Method  BY <3>1, Sizes
    <3>2. CASE Kind(c[n]) = "frame"  BY <3>2, Sizes
    <3> QED  BY <3>1, <3>2, <2>2, Methods
  <2>4. c[n].at <= Size(Kind(c[n]))  BY <1>1 DEF Chunk, InPlace
  <2> QED  BY <2>1, <2>2, <2>3, <2>4
<1> QED  BY <1>1, <1>2, <1>3

LEMMA EndFacts ==
  ASSUME TypeOK, NEW c, Chunk(c)
  PROVE  /\ \A p : p \in EndLines(c) <=>
                /\ p \in 1..Len(c) - 1
                /\ Part(Kind(c[p]), c[p].at) = "cr"
                /\ Part(Kind(c[p + 1]), c[p + 1].at) = "lf"
         /\ \A a : a \in Lines(c) <=>
                /\ a = 1 \/ \E p \in EndLines(c) : a = p + 2
                /\ a \notin EndLines(c)
                /\ \E e \in EndLines(c) : a < e
         /\ \A a \in Lines(c) : a \in 1..Len(c) - 1
<1>1. \A p : p \in EndLines(c) <=>
          /\ p \in 1..Len(c) - 1
          /\ Part(Kind(c[p]), c[p].at) = "cr"
          /\ Part(Kind(c[p + 1]), c[p + 1].at) = "lf"
  BY DEF EndLines, Kind
<1>2. \A a : a \in Lines(c) <=>
          /\ a = 1 \/ \E p \in EndLines(c) : a = p + 2
          /\ a \notin EndLines(c)
          /\ \E e \in EndLines(c) : a < e
  BY DEF Lines
<1>3. ASSUME NEW a \in Lines(c) PROVE a \in 1..Len(c) - 1
  <2>1. PICK e \in EndLines(c) : a < e  BY <1>2
  <2>2. e \in 1..Len(c) - 1 /\ Len(c) \in Nat  BY <1>1, ChunkFacts
  <2>3. a \in Nat /\ a >= 1
    <3>1. ASSUME NEW p \in EndLines(c), a = p + 2 PROVE a \in Nat /\ a >= 1
      <4>1. p \in 1..Len(c) - 1  BY <1>1
      <4> QED  BY <4>1, <3>1, <2>2
    <3> QED  BY <3>1, <1>2
  <2> QED  BY <2>1, <2>2, <2>3
<1> QED  BY <1>1, <1>2, <1>3

\* Behind the beginning of a text line of a message and before the next end of a line stand
\* that line's units; no line begins before the next of the message.
LEMMA TextLine ==
  ASSUME TypeOK, NEW c, Chunk(c), NEW p \in 1..Len(c), Kind(c[p]) \in Method,
         c[p].at \in Texts(Kind(c[p])), NEW e \in EndLines(c), p < e
  PROVE  /\ p \notin EndLines(c)
         /\ p + 2 \in EndLines(c)
         /\ p + 3 <= Len(c)
         /\ \A name : Is(c, p, name) <=> name = Line(Kind(c[p]), c[p].at)
         /\ p + 4 <= Len(c) => c[p + 4] = Unit(c[p].msg, c[p].at + 4)
         /\ \A a \in Lines(c) : p < a => p + 4 <= a
<1> DEFINE k == Kind(c[p])
           at == c[p].at
           i == c[p].msg
<1>1. /\ Len(c) \in Nat /\ DOMAIN c = 1..Len(c) /\ p \in Nat /\ p >= 1
      /\ e \in 1..Len(c) - 1 /\ Part(Kind(c[e]), c[e].at) = "cr"
  BY ChunkFacts, EndFacts
<1>2. /\ at \in Nat /\ at + 5 <= Size(k) /\ Size(k) \in Nat
      /\ Part(k, at) = "a" /\ Part(k, at + 1) = "b"
      /\ Part(k, at + 2) = "cr" /\ Part(k, at + 3) = "lf"
      /\ Line(k, at + 1) = Line(k, at)
  BY TextPlaces, Sizes
<1>3. \A x \in 0..4 : p + x <= Len(c) => c[p + x] = Unit(i, at + x)
  <2> SUFFICES ASSUME NEW x \in 0..4, p + x <= Len(c) PROVE c[p + x] = Unit(i, at + x)
    OBVIOUS
  <2> HIDE DEF k
  <2>1. p \in DOMAIN c /\ p + x \in DOMAIN c /\ p <= p + x /\ (p + x) - p = x  BY <1>1
  <2>2. at + ((p + x) - p) <= Size(k)
    <3>1. at + x <= Size(k)  BY <1>2
    <3> QED  BY <3>1, <2>1
  <2> QED  BY <2>1, <2>2 DEF Chunk, Together, k
<1>4. \A x \in 0..3 : p + x <= Len(c) => Kind(c[p + x]) = k /\ c[p + x].at = at + x
  BY <1>3 DEF Kind, Unit
<1> HIDE DEF k, at, i
<1>5. k = Kind(c[p]) /\ at = c[p].at /\ i = c[p].msg  BY DEF k, at, i
<1>6. p + 1 <= Len(c) /\ Kind(c[p + 1]) = k /\ c[p + 1].at = at + 1
  BY <1>1, <1>4
<1>7. p \notin EndLines(c) /\ p + 1 \notin EndLines(c)
  <2>1. Part(Kind(c[p]), c[p].at) # "cr"  BY <1>2, <1>5
  <2>2. Part(Kind(c[p + 1]), c[p + 1].at) # "cr"  BY <1>2, <1>6
  <2> QED  BY <2>1, <2>2, EndFacts
<1>8. e >= p + 2 /\ p + 3 <= Len(c)
  <2>1. e # p + 1  BY <1>7
  <2> QED  BY <2>1, <1>1
<1>9. /\ Kind(c[p + 2]) = k /\ c[p + 2].at = at + 2
      /\ Kind(c[p + 3]) = k /\ c[p + 3].at = at + 3
  BY <1>8, <1>1, <1>4
<1>10. p + 2 \in EndLines(c)
  <2>1. p + 2 \in 1..Len(c) - 1 /\ (p + 2) + 1 = p + 3  BY <1>8, <1>1
  <2> QED  BY <2>1, <1>9, <1>2, EndFacts
<1>11. p - 1 \notin EndLines(c)
  <2>1. (p - 1) + 1 = p  BY <1>1
  <2>2. Part(Kind(c[p]), c[p].at) # "lf"  BY <1>2, <1>5
  <2> QED  BY <2>1, <2>2, EndFacts
<1>12. ASSUME NEW a \in Lines(c), p < a PROVE p + 4 <= a
  <2>0. a # 1  BY <1>1, <1>12
  <2>1. PICK q \in EndLines(c) : a = q + 2  BY <2>0, EndFacts, <1>12, Zenon
  <2>2. q \in Nat  BY EndFacts, <1>1, SMTT(30)
  <2>3. q # p - 1 /\ q # p /\ q # p + 1  BY <1>7, <1>11
  <2> QED  BY <2>1, <2>2, <2>3, <1>1, <1>12
<1>13. \A name : Is(c, p, name) <=> name = Line(k, at)
  <2>1. Kind(c[p + 1]) = k /\ c[p + 1].at = at + 1  BY <1>6
  <2>2. \A name : Reads(c[p], name, "a") <=> name = Line(k, at)  BY <1>2, <1>5 DEF Reads, Kind
  <2>3. \A name : Reads(c[p + 1], name, "b") <=> name = Line(k, at)  BY <1>2, <2>1 DEF Reads, Kind
  <2> QED  BY <2>2, <2>3, <1>10 DEF Is
<1>14. p + 4 <= Len(c) => c[p + 4] = Unit(i, at + 4)  BY <1>3
<1> QED  BY <1>5, <1>7, <1>8, <1>10, <1>12, <1>13, <1>14

\* Every set of places has a least one.
LEMMA LeastPlace ==
  ASSUME NEW S, S \subseteq Nat, S # {}
  PROVE  \E a \in S : Least(a, S)
<1>1. IsWellFoundedOn(OpToRel(<, Nat), Nat)  BY NatLessThanWellFounded
<1>2. PICK a \in S : \A k \in S : ~(<<k, a>> \in OpToRel(<, Nat))  BY <1>1, WFMin
<1>3. \A k \in S : ~(k < a)  BY <1>2 DEF OpToRel
<1> QED  BY <1>3 DEF Least
-----------------------------------------------------------------------------
(* The fields of a request.                                                *)

LEMMA RequestLine ==
  ASSUME TypeOK, NEW c, Chunk(c), NEW p, Parsed(c, Lines(c), p)
  PROVE  /\ p \in Lines(c) /\ p \in 1..Len(c) - 1 /\ p \in 1..Len(c)
         /\ \A a \in Lines(c) : p <= a
         /\ c[p].at = 1 /\ c[p].msg \in DOMAIN sent /\ Kind(c[p]) \in Method
         /\ c[p].at \in Texts(Kind(c[p]))
<1>1. p \in Lines(c) /\ (\A a \in Lines(c) : p <= a) /\ Is(c, p, "request")
  BY DEF Parsed, Least
<1>2. p \in 1..Len(c) - 1 /\ p \in 1..Len(c)  BY <1>1, EndFacts, ChunkFacts
<1>3. Line(Kind(c[p]), c[p].at) = "request" /\ Part(Kind(c[p]), c[p].at) = "a"
  BY <1>1 DEF Is, Reads, Kind
<1>4. /\ c[p].msg \in DOMAIN sent /\ Kind(c[p]) \in Kinds
      /\ c[p].at \in 1..Size(Kind(c[p]))
  BY <1>2, ChunkFacts
<1>5. Kind(c[p]) \in Method /\ c[p].at = 1  BY <1>3, <1>4, RequestPlace
<1> QED  BY <1>1, <1>2, <1>4, <1>5 DEF Texts

LEMMA NextText ==
  ASSUME TypeOK, NEW c, Chunk(c), NEW p \in 1..Len(c), Kind(c[p]) \in Method,
         c[p].at \in Texts(Kind(c[p])), c[p].at + 4 \in Texts(Kind(c[p])),
         NEW e \in EndLines(c), p + 4 < e
  PROVE  /\ p + 4 \in 1..Len(c) /\ p + 4 \in Lines(c)
         /\ c[p + 4].msg = c[p].msg /\ c[p + 4].at = c[p].at + 4
         /\ Kind(c[p + 4]) = Kind(c[p])
<1>1. Len(c) \in Nat /\ p \in Nat /\ e \in 1..Len(c) - 1 /\ p < e /\ p + 4 \in 1..Len(c)
  BY ChunkFacts, EndFacts
<1>2. p + 2 \in EndLines(c) /\ (p + 2) + 2 = p + 4 /\ c[p + 4] = Unit(c[p].msg, c[p].at + 4)
  BY <1>1, TextLine
<1>3. /\ c[p + 4].msg = c[p].msg /\ c[p + 4].at = c[p].at + 4
      /\ Kind(c[p + 4]) = Kind(c[p])
  BY <1>2 DEF Unit, Kind
<1>4. p + 4 \notin EndLines(c)  BY <1>1, <1>3, TextLine
<1>5. p + 4 \in Lines(c)  BY <1>2, <1>4, EndFacts
<1> QED  BY <1>1, <1>3, <1>5

\* The field that follows the request line, and the one that follows it: get_field finds the
\* request's own, if its line ends in the chunk, and else none.
LEMMA OwnField ==
  ASSUME TypeOK, NEW c, Chunk(c), NEW p, Parsed(c, Lines(c), p), NEW name, NEW d \in {4, 8},
         \/ d = 4 /\ name = "CSeq"
         \/ d = 8 /\ Kind(c[p]) = "DESCRIBE" /\ name = "Accept"
         \/ d = 8 /\ Kind(c[p]) = "SETUP" /\ name = "Transport"
  PROVE  /\ Field(c, Lines(c), name) \in {0, c[p].msg}
         /\ (\E e \in EndLines(c) : p + d < e) => Field(c, Lines(c), name) = c[p].msg
<1> DEFINE S == {a \in Lines(c) : ~Least(a, Lines(c)) /\ Is(c, a, name)}
           k == Kind(c[p])
<1>1. /\ p \in Lines(c) /\ p \in 1..Len(c) /\ p \in Nat
      /\ \A a \in Lines(c) : p <= a
      /\ c[p].at = 1 /\ k \in Method /\ c[p].at \in Texts(k)
  BY RequestLine
<1>2. \A a : Least(a, Lines(c)) <=> a = p
  <2>1. \A a \in Lines(c) : a \in Nat  BY EndFacts
  <2> QED  BY <2>1, <1>1 DEF Least
<1>3. /\ 1 + 4 = 5 /\ 5 + 4 = 9 /\ (p + 4) + 4 = p + 8
      /\ 5 \in Texts(k) /\ Line(k, 5) = "CSeq"
      /\ d = 8 => 9 \in Texts(k) /\ Line(k, 9) = name /\ name # "CSeq"
      /\ d = 4 => name = "CSeq"
  BY <1>1, LinePlaces DEF Texts
<1>4. ASSUME NEW e \in EndLines(c), p + 4 < e
      PROVE  /\ p + 4 \in 1..Len(c) /\ p + 4 \in Lines(c)
             /\ c[p + 4].msg = c[p].msg /\ c[p + 4].at = 5 /\ Kind(c[p + 4]) = k
             /\ \A n : Is(c, p + 4, n) <=> n = "CSeq"
             /\ \A a \in Lines(c) : p + 4 < a => p + 8 <= a
  <2>1. /\ p + 4 \in 1..Len(c) /\ p + 4 \in Lines(c)
        /\ c[p + 4].msg = c[p].msg /\ c[p + 4].at = 5 /\ Kind(c[p + 4]) = k
    BY <1>1, <1>3, <1>4, NextText
  <2>2. /\ \A n : Is(c, p + 4, n) <=> n = "CSeq"
        /\ \A a \in Lines(c) : p + 4 < a => (p + 4) + 4 <= a
    BY <2>1, <1>1, <1>3, <1>4, TextLine
  <2> QED  BY <2>1, <2>2, <1>3
<1>5. ASSUME NEW e \in EndLines(c), p + 8 < e, d = 8
      PROVE  /\ p + 8 \in Lines(c) /\ c[p + 8].msg = c[p].msg
             /\ Is(c, p + 8, name)
  <2>1. p + 4 < e  BY <1>1, <1>5, EndFacts
  <2>2. /\ p + 4 \in 1..Len(c)
        /\ c[p + 4].msg = c[p].msg /\ c[p + 4].at = 5 /\ Kind(c[p + 4]) = k
    BY <2>1, <1>4
  <2>3. /\ p + 8 \in 1..Len(c) /\ p + 8 \in Lines(c)
        /\ c[p + 8].msg = c[p].msg /\ c[p + 8].at = 9 /\ Kind(c[p + 8]) = k
    BY <2>2, <1>1, <1>3, <1>5, NextText
  <2>4. Is(c, p + 8, name)  BY <2>3, <1>1, <1>3, <1>5, TextLine
  <2> QED  BY <2>3, <2>4
<1>6. ASSUME NEW e \in EndLines(c), p + d < e
      PROVE  p + d \in S /\ c[p + d].msg = c[p].msg
  <2>1. p + d # p  BY <1>1
  <2>2. CASE d = 4  BY <2>1, <2>2, <1>2, <1>3, <1>4, <1>6
  <2>3. CASE d = 8  BY <2>1, <2>3, <1>2, <1>5, <1>6
  <2> QED  BY <2>2, <2>3
<1>7. ASSUME NEW a \in S
      PROVE  p + d <= a /\ \E e \in EndLines(c) : p + d < e
  <2>1. a \in Lines(c) /\ a \in Nat /\ Is(c, a, name) /\ p < a
    <3>1. a \in Lines(c) /\ a # p /\ Is(c, a, name)  BY <1>2
    <3>2. a \in Nat  BY <3>1, EndFacts
    <3> QED  BY <3>1, <3>2, <1>1
  <2>2. PICK e \in EndLines(c) : a < e  BY <2>1, EndFacts
  <2>3. e \in Nat /\ p < e  BY <2>1, <2>2, <1>1, EndFacts
  <2>4. p + 4 <= a /\ p + 4 < e
    <3>1. p + 4 <= a  BY <2>1, <2>3, <1>1, TextLine
    <3> QED  BY <3>1, <2>1, <2>2, <2>3, <1>1
  <2>5. CASE d = 4  BY <2>4, <2>5
  <2>6. CASE d = 8
    <3>1. a # p + 4  BY <2>1, <2>4, <2>6, <1>3, <1>4
    <3>2. p + 8 <= a  BY <3>1, <2>1, <2>4, <1>1, <1>4
    <3> QED  BY <3>2, <2>1, <2>2, <2>3, <2>6, <1>1
  <2> QED  BY <2>5, <2>6
<1> HIDE DEF S
<1>8. Field(c, Lines(c), name) = IF S = {} THEN 0 ELSE c[CHOOSE a \in S : Least(a, S)].msg
  BY DEF Field, S
<1>9. S # {} => (CHOOSE a \in S : Least(a, S)) = p + d
  <2> SUFFICES ASSUME S # {} PROVE (CHOOSE a \in S : Least(a, S)) = p + d
    OBVIOUS
  <2>1. p + d \in S /\ \A a \in S : p + d <= a  BY <1>6, <1>7
  <2>2. \A a \in S : a \in Nat  BY EndFacts DEF S
  <2>3. \A a \in S : Least(a, S) => a = p + d  BY <2>1, <2>2 DEF Least
  <2>4. Least(p + d, S)  BY <2>1 DEF Least
  <2> QED  BY <2>1, <2>3, <2>4
<1>10. S # {} => c[p + d].msg = c[p].msg  BY <1>6, <1>7
<1>11. (\E e \in EndLines(c) : p + d < e) => S # {}  BY <1>6
<1> QED  BY <1>8, <1>9, <1>10, <1>11

\* What get_field returns for any name is the message of some unit, or nothing.
LEMMA FieldType ==
  ASSUME TypeOK, NEW c, Chunk(c), NEW name
  PROVE  Field(c, Lines(c), name) \in 0..MaxMessages
<1> DEFINE S == {a \in Lines(c) : ~Least(a, Lines(c)) /\ Is(c, a, name)}
<1>1. Field(c, Lines(c), name) = IF S = {} THEN 0 ELSE c[CHOOSE a \in S : Least(a, S)].msg
  BY DEF Field
<1>2. S \subseteq 1..Len(c) /\ S \subseteq Nat  BY EndFacts, ChunkFacts
<1> HIDE DEF S
<1>3. S # {} => (CHOOSE a \in S : Least(a, S)) \in S  BY <1>2, LeastPlace
<1>4. \A a \in 1..Len(c) : c[a].msg \in 1..Len(sent)  BY ChunkFacts
<1>5. Len(sent) \in Nat /\ Len(sent) <= MaxMessages /\ MaxMessages \in Nat
  BY ChunkFacts, FramingAssumption DEF TypeOK
<1>6. CASE S = {}  BY <1>1, <1>5, <1>6
<1>7. CASE S # {}
  <2>1. Field(c, Lines(c), name) \in 1..Len(sent)  BY <1>1, <1>2, <1>3, <1>4, <1>7
  <2> QED  BY <2>1, <1>5
<1> QED  BY <1>6, <1>7
-----------------------------------------------------------------------------
(* The answers.                                                            *)

AnswerLine == {"status", "refused", "field", "empty", "body"}

Ended(s, n) == s[n] \in {"empty", "body"} \/ (n > 1 /\ s[n - 1] = "refused")

Delimited(s) ==
    /\ s # <<>> => Ended(s, Len(s))
    /\ \A n \in DOMAIN s : s[n] \in {"status", "refused"} /\ n > 1 => Ended(s, n - 1)

LEMMA FillFacts ==
  ASSUME NEW method \in Method, NEW refused \in BOOLEAN, refused => method = "SETUP"
  PROVE  /\ Fill(method, refused) \in Seq(AnswerLine) /\ Len(Fill(method, refused)) \in Nat
         /\ \A n \in 1..Len(Fill(method, refused)) :
              Fill(method, refused)[n] \notin {"status", "refused"}
         /\ ~refused => /\ Len(Fill(method, refused)) > 0
                        /\ Fill(method, refused)[Len(Fill(method, refused))] \in {"empty", "body"}
         /\ refused => Len(Fill(method, refused)) = 0
<1> DEFINE two == <<"field", "empty">>
           four == <<"field", "field", "empty", "body">>
           three == <<"field", "field", "empty">>
           one == <<"empty">>
           none == <<>>
           Good(f) == /\ f \in Seq(AnswerLine) /\ Len(f) \in Nat
                      /\ \A n \in 1..Len(f) : f[n] \notin {"status", "refused"}
                      /\ Len(f) > 0 /\ f[Len(f)] \in {"empty", "body"}
<1>1. Good(two)  BY DEF AnswerLine
<1>2. Good(four)  BY DEF AnswerLine
<1>3. Good(three)  BY DEF AnswerLine
<1>4. Good(one)  BY DEF AnswerLine
<1>5. none \in Seq(AnswerLine) /\ Len(none) = 0 /\ \A n \in 1..Len(none) : FALSE
  BY EmptySeq
<1> HIDE DEF two, four, three, one, none
<1>6. Fill(method, refused) = IF method = "OPTIONS" THEN two
                              ELSE IF method = "DESCRIBE" THEN four
                              ELSE IF method = "SETUP" THEN IF refused THEN none ELSE three
                              ELSE one
  BY Methods DEF Fill, two, four, three, one, none
<1> DEFINE f == Fill(method, refused)
<1>7. ~refused => Good(f)  BY <1>1, <1>2, <1>3, <1>4, <1>6
<1>8. refused => f = none  BY <1>6
<1>9. f = Fill(method, refused)  OBVIOUS
<1> HIDE DEF f
<1>10. CASE refused
  <2>1. none \in Seq(AnswerLine) /\ Len(none) \in Nat /\ Len(none) = 0 /\ \A n \in 1..Len(none) : FALSE
    BY <1>5
  <2>2. f = none  BY <1>8, <1>10
  <2> QED  BY <2>1, <2>2, <1>9, <1>10
<1>11. CASE ~refused  BY <1>7, <1>9, <1>11
<1> QED  BY <1>10, <1>11

\* An answer leaves what the client gets delimited.
LEMMA AnswerDelimited ==
  ASSUME NEW s \in Seq(AnswerLine), Delimited(s), NEW method \in Method,
         NEW refused \in BOOLEAN, refused => method = "SETUP"
  PROVE  /\ s \o <<IF refused THEN "refused" ELSE "status", "field">> \o Fill(method, refused)
              \in Seq(AnswerLine)
         /\ Delimited(s \o <<IF refused THEN "refused" ELSE "status", "field">> \o Fill(method, refused))
<1> DEFINE x == IF refused THEN "refused" ELSE "status"
           h == <<x, "field">>
           f == Fill(method, refused)
           t == s \o h
           u == t \o f
           m == Len(s)
           l == Len(f)
<1>1. /\ f \in Seq(AnswerLine) /\ l \in Nat
      /\ \A n \in 1..l : f[n] \notin {"status", "refused"}
      /\ ~refused => l > 0 /\ f[l] \in {"empty", "body"}
      /\ refused => l = 0
  BY FillFacts
<1>2. h \in Seq(AnswerLine) /\ Len(h) = 2 /\ h[1] = x /\ h[2] = "field"  BY DEF AnswerLine
<1>3. m \in Nat /\ DOMAIN s = 1..m  BY LenProperties
<1> HIDE DEF h, f
<1>4. t \in Seq(AnswerLine) /\ Len(t) = m + 2
      /\ \A n \in 1..m + 2 : t[n] = IF n <= m THEN s[n] ELSE h[n - m]
  <2>1. /\ t \in Seq(AnswerLine) /\ Len(t) = Len(s) + Len(h)
        /\ \A n \in 1..Len(s) + Len(h) : t[n] = IF n <= Len(s) THEN s[n] ELSE h[n - Len(s)]
    BY <1>2, ConcatProperties
  <2> QED  BY <2>1, <1>2
<1> HIDE DEF t
<1>5. u \in Seq(AnswerLine) /\ Len(u) = m + 2 + l
      /\ \A n \in 1..m + 2 + l : u[n] = IF n <= m + 2 THEN t[n] ELSE f[n - (m + 2)]
  <2>1. /\ u \in Seq(AnswerLine) /\ Len(u) = Len(t) + Len(f)
        /\ \A n \in 1..Len(t) + Len(f) : u[n] = IF n <= Len(t) THEN t[n] ELSE f[n - Len(t)]
    BY <1>1, <1>4, ConcatProperties
  <2> QED  BY <2>1, <1>4, SMTT(30)
<1> HIDE DEF u, m, l
<1>6. /\ \A n \in 1..m : u[n] = s[n]
      /\ u[m + 1] = x /\ u[m + 2] = "field"
  <2>1. \A n \in 1..m + 2 : u[n] = t[n]  BY <1>1, <1>3, <1>5
  <2>2. t[m + 1] = h[1] /\ t[m + 2] = h[2]
    <3>1. m + 1 \in 1..m + 2 /\ m + 2 \in 1..m + 2 /\ ~(m + 1 <= m) /\ ~(m + 2 <= m)
          /\ (m + 1) - m = 1 /\ (m + 2) - m = 2
      BY <1>3
    <3> QED  BY <3>1, <1>4
  <2>3. \A n \in 1..m : n \in 1..m + 2 /\ t[n] = s[n]  BY <1>3, <1>4
  <2> QED  BY <2>1, <2>2, <2>3, <1>2, <1>3
<1>7. \A n \in 1..l : u[m + 2 + n] = f[n]
  <2> SUFFICES ASSUME NEW n \in 1..l PROVE u[m + 2 + n] = f[n]
    OBVIOUS
  <2>1. m + 2 + n \in 1..m + 2 + l /\ ~(m + 2 + n <= m + 2) /\ (m + 2 + n) - (m + 2) = n
    BY <1>1, <1>3
  <2> QED  BY <2>1, <1>5
<1>8. Ended(u, m + 2 + l)
  <2>1. CASE refused
    <3>1. l = 0 /\ m + 2 + l > 1 /\ (m + 2 + l) - 1 = m + 1  BY <2>1, <1>1, <1>3
    <3>2. u[m + 1] = "refused"  BY <2>1, <1>6
    <3> QED  BY <3>1, <3>2 DEF Ended
  <2>2. CASE ~refused
    <3>1. l \in 1..l /\ f[l] \in {"empty", "body"}  BY <2>2, <1>1
    <3> QED  BY <3>1, <1>7 DEF Ended
  <2> QED  BY <2>1, <2>2
<1>9. ASSUME NEW n \in 1..m + 2 + l, u[n] \in {"status", "refused"}, n > 1
      PROVE  Ended(u, n - 1)
  <2>1. n = m + 1 \/ n \in 1..m
    <3>1. n # m + 2  BY <1>6, <1>9
    <3>2. ASSUME n > m + 2 PROVE FALSE
      <4>1. n - (m + 2) \in 1..l /\ m + 2 + (n - (m + 2)) = n  BY <3>2, <1>1, <1>3
      <4>2. u[n] = f[n - (m + 2)]  BY <4>1, <1>7
      <4> QED  BY <4>1, <4>2, <1>1, <1>9
    <3> QED  BY <3>1, <3>2, <1>1, <1>3
  <2>2. n - 1 \in 1..m /\ Ended(s, n - 1)
    <3>1. CASE n = m + 1
      <4>1. m \in 1..m /\ s # <<>> /\ n - 1 = m  BY <3>1, <1>9, <1>3 DEF m
      <4>2. Ended(s, m)  BY <4>1 DEF Delimited, m
      <4> QED  BY <4>1, <4>2
    <3>2. CASE n \in 1..m
      <4>1. s[n] \in {"status", "refused"} /\ n \in DOMAIN s  BY <3>2, <1>3, <1>6, <1>9
      <4>2. Ended(s, n - 1)  BY <4>1, <1>9 DEF Delimited
      <4> QED  BY <4>2, <3>2, <1>3, <1>9
    <3> QED  BY <3>1, <3>2, <2>1
  <2>3. n - 1 > 1 => (n - 1) - 1 \in 1..m  BY <2>2, <1>3
  <2> QED  BY <2>2, <2>3, <1>6 DEF Ended
<1>10. DOMAIN u = 1..m + 2 + l /\ u # <<>>
  <2>1. DOMAIN u = 1..Len(u)  BY <1>5, LenProperties
  <2>2. Len(u) > 0  BY <1>1, <1>3, <1>5
  <2> QED  BY <2>1, <2>2, <1>5, EmptySeq
<1>11. Delimited(u)  BY <1>5, <1>8, <1>9, <1>10 DEF Delimited
<1> QED  BY <1>5, <1>11 DEF u, t, h, f
-----------------------------------------------------------------------------
(* Sequences.                                                              *)

LEMMA Appended ==
  ASSUME NEW S, NEW s \in Seq(S), NEW e \in S
  PROVE  /\ Append(s, e) \in Seq(S) /\ Len(s) \in Nat
         /\ DOMAIN s = 1..Len(s) /\ DOMAIN Append(s, e) = 1..Len(s) + 1
         /\ Len(Append(s, e)) = Len(s) + 1
         /\ \A i \in 1..Len(s) : Append(s, e)[i] = s[i]
         /\ Append(s, e)[Len(s) + 1] = e
OBVIOUS

LEMMA SizeType == \A kind \in Kinds : Size(kind) \in 1..14 /\ Size(kind) \in Nat
<1> SUFFICES ASSUME NEW kind \in Kinds PROVE Size(kind) \in 1..14 /\ Size(kind) \in Nat
  OBVIOUS
<1>1. CASE kind \in Method  BY <1>1, Sizes
<1>2. CASE kind = "frame"  BY <1>2, Sizes
<1> QED  BY <1>1, <1>2, Methods

LEMMA WireFacts ==
  ASSUME NEW i, NEW kind \in Kinds
  PROVE  /\ Size(kind) \in 1..14
         /\ Len(Wire(i, kind)) = Size(kind)
         /\ \A x \in 1..Size(kind) : Wire(i, kind)[x] = Unit(i, x)
         /\ \A S : (\A x \in 1..14 : Unit(i, x) \in S) => Wire(i, kind) \in Seq(S)
<1>1. Size(kind) \in 1..14  BY SizeType
<1>2. Wire(i, kind) = [x \in 1..Size(kind) |-> Unit(i, x)]  BY DEF Wire
<1>3. ASSUME NEW S, \A x \in 1..14 : Unit(i, x) \in S PROVE Wire(i, kind) \in Seq(S)
  <2>1. \A x \in 1..Size(kind) : Unit(i, x) \in S  BY <1>1, <1>3
  <2>2. Size(kind) \in Nat  BY <1>1
  <2>3. [x \in 1..Size(kind) |-> Unit(i, x)] \in [1..Size(kind) -> S]  BY <2>1
  <2> QED  BY <1>2, <2>2, <2>3, SeqDef
<1>4. Len(Wire(i, kind)) = Size(kind)
  <2> DEFINE w == Wire(i, kind)
             S == {Unit(i, x) : x \in 1..14}
  <2>1. w \in Seq(S)  BY <1>3
  <2>2. DOMAIN w = 1..Size(kind)  BY <1>2
  <2> HIDE DEF w, S
  <2>3. Len(w) \in Nat /\ DOMAIN w = 1..Len(w)  BY <2>1, LenProperties
  <2>4. Len(w) = Size(kind)  BY <2>2, <2>3, <1>1, SMTT(30)
  <2> QED  BY <2>4 DEF w
<1> QED  BY <1>1, <1>2, <1>3, <1>4

\* What a read takes, and what it leaves.
LEMMA ReadParts ==
  ASSUME TypeOK, Stream, NEW n \in 1..Len(coming)
  PROVE  /\ Len(coming) \in Nat /\ DOMAIN coming = 1..Len(coming)
         /\ Chunk(SubSeq(coming, 1, n)) /\ Len(SubSeq(coming, 1, n)) = n
         /\ \A k \in 1..n : SubSeq(coming, 1, n)[k] = coming[k]
         /\ SubSeq(coming, n + 1, Len(coming)) \in Seq(Units)
         /\ Len(SubSeq(coming, n + 1, Len(coming))) = Len(coming) - n
         /\ \A k \in 1..Len(coming) - n : SubSeq(coming, n + 1, Len(coming))[k] = coming[n + k]
<1> DEFINE c == SubSeq(coming, 1, n)
           r == SubSeq(coming, n + 1, Len(coming))
           l == Len(coming)
<1>1. l \in Nat /\ DOMAIN coming = 1..l /\ (\A k \in 1..l : coming[k] \in Units) /\ n \in Nat
  BY LenProperties, ElementOfSeq DEF TypeOK
<1>2. c \in Seq(Units) /\ Len(c) = n /\ \A k \in 1..n : c[k] = coming[k]
  <2>1. \A k \in 1..n : coming[k] \in Units  BY <1>1
  <2>2. /\ c \in Seq(Units) /\ Len(c) = IF 1 <= n THEN n - 1 + 1 ELSE 0
        /\ \A k \in 1..n - 1 + 1 : c[k] = coming[1 + k - 1]
    BY <1>1, <2>1, SubSeqProperties
  <2> QED  BY <2>2, <1>1
<1>3. r \in Seq(Units) /\ Len(r) = l - n /\ \A k \in 1..l - n : r[k] = coming[n + k]
  <2>1. \A k \in n + 1..l : coming[k] \in Units  BY <1>1
  <2>2. /\ r \in Seq(Units) /\ Len(r) = IF n + 1 <= l THEN l - (n + 1) + 1 ELSE 0
        /\ \A k \in 1..l - (n + 1) + 1 : r[k] = coming[(n + 1) + k - 1]
    BY <1>1, <2>1, SubSeqProperties
  <2> HIDE DEF r, l
  <2>3. Len(r) = l - n  BY <2>2, <1>1 DEF l
  <2>4. ASSUME NEW k \in 1..l - n PROVE r[k] = coming[n + k]
    <3>1. k \in 1..l - (n + 1) + 1 /\ (n + 1) + k - 1 = n + k  BY <1>1
    <3> QED  BY <3>1, <2>2
  <2> QED  BY <2>2, <2>3, <2>4
<1> HIDE DEF c, r, l
<1>4. DOMAIN c = 1..n /\ \A k \in DOMAIN c : k \in DOMAIN coming /\ c[k] = coming[k]
  <2>1. DOMAIN c = 1..n  BY <1>2, LenProperties
  <2>2. 1..n \subseteq 1..l  BY <1>1
  <2> QED  BY <2>1, <2>2, <1>1, <1>2
<1>5. InPlace(c)  BY <1>4 DEF Stream, InPlace
<1>6. Together(c)  BY <1>4 DEF Stream, Together
<1> QED  BY <1>1, <1>2, <1>3, <1>5, <1>6, SMTT(30) DEF Chunk, c, r, l

LEMMA RequestType ==
  ASSUME TypeOK, NEW c, Chunk(c), NEW p, Parsed(c, Lines(c), p)
  PROVE  Request(c, Lines(c), p) \in [msg : DOMAIN sent, CSeq : 0..MaxMessages,
                                      Accept : 0..MaxMessages, Transport : 0..MaxMessages]
BY RequestLine, FieldType DEF Request

\* What a read does with a request.
LEMMA ReadExecutes ==
  ASSUME TypeOK, Stream, NEW n \in 1..Len(coming), Read(n)
  PROVE  LET c == SubSeq(coming, 1, n)
         IN  \/ UNCHANGED <<executed, answers>>
             \/ \E p : /\ Parsed(c, Lines(c), p)
                       /\ executed' = Append(executed, Request(c, Lines(c), p))
                       /\ Answer(Request(c, Lines(c), p))
                       /\ sent[c[p].msg] = "SETUP" => Field(c, Lines(c), "Transport") # 0
<1> DEFINE c == SubSeq(coming, 1, n)
<1> SUFFICES ASSUME ~UNCHANGED <<executed, answers>>
    PROVE \E p : /\ Parsed(c, Lines(c), p)
                 /\ executed' = Append(executed, Request(c, Lines(c), p))
                 /\ Answer(Request(c, Lines(c), p))
                 /\ sent[c[p].msg] = "SETUP" => Field(c, Lines(c), "Transport") # 0
  OBVIOUS
<1>1. OnRecv(c)  BY DEF Read
<1> HIDE DEF c
<1>2. PICK p \in Lines(c) : Parsed(c, Lines(c), p) /\ Execute(Request(c, Lines(c), p))
  BY <1>1 DEF OnRecv
<1>3. /\ Request(c, Lines(c), p).msg = c[p].msg
      /\ Request(c, Lines(c), p).Transport = Field(c, Lines(c), "Transport")
  BY DEF Request
<1>4. /\ executed' = Append(executed, Request(c, Lines(c), p))
      /\ Answer(Request(c, Lines(c), p))
      /\ sent[c[p].msg] = "SETUP" => Field(c, Lines(c), "Transport") # 0
  BY <1>2, <1>3 DEF Execute
<1> QED  BY <1>2, <1>4
-----------------------------------------------------------------------------
(* A message is sent.                                                      *)

LEMMA Sent ==
  ASSUME TypeOK, NEW kind \in Kinds, Send(kind)
  PROVE  /\ Len(sent) \in Nat /\ DOMAIN sent = 1..Len(sent)
         /\ DOMAIN sent' = 1..Len(sent) + 1 /\ Len(sent') = Len(sent) + 1
         /\ \A i \in DOMAIN sent : sent'[i] = sent[i]
         /\ sent'[Len(sent) + 1] = kind
         /\ sent' \in Seq(Kinds)
         /\ Units \subseteq Units'
         /\ \A x \in 1..14 : Unit(Len(sent) + 1, x) \in Units'
<1>1. sent' = Append(sent, kind)  BY DEF Send
<1>2. /\ Len(sent) \in Nat /\ DOMAIN sent = 1..Len(sent)
      /\ DOMAIN sent' = 1..Len(sent) + 1 /\ Len(sent') = Len(sent) + 1
      /\ \A i \in DOMAIN sent : sent'[i] = sent[i]
      /\ sent'[Len(sent) + 1] = kind
      /\ sent' \in Seq(Kinds)
  BY <1>1, Appended DEF TypeOK
<1>3. DOMAIN sent \subseteq DOMAIN sent' /\ Len(sent) + 1 \in DOMAIN sent'  BY <1>2
<1>4. Units \subseteq Units' /\ \A x \in 1..14 : Unit(Len(sent) + 1, x) \in Units'
  BY <1>3 DEF Units, Unit
<1> QED  BY <1>2, <1>4

\* What the connection holds then: what it held, and the message.
LEMMA Comes ==
  ASSUME TypeOK, Stream, NEW kind \in Kinds, Send(kind)
  PROVE  /\ Len(coming) \in Nat /\ DOMAIN coming = 1..Len(coming)
         /\ Size(kind) \in 1..14
         /\ coming' \in Seq(Units') /\ Len(coming') = Len(coming) + Size(kind)
         /\ DOMAIN coming' = 1..Len(coming) + Size(kind)
         /\ \A n \in 1..Len(coming) :
              /\ coming'[n] = coming[n] /\ coming[n].msg \in DOMAIN sent
              /\ sent'[coming'[n].msg] = sent[coming[n].msg]
         /\ \A x \in 1..Size(kind) :
              /\ coming'[Len(coming) + x] = Unit(Len(sent) + 1, x)
              /\ sent'[coming'[Len(coming) + x].msg] = kind
<1> DEFINE w == Wire(Len(sent) + 1, kind)
           l == Len(coming)
           z == Size(kind)
<1>1. /\ l \in Nat /\ DOMAIN coming = 1..l
      /\ \A n \in 1..l : coming[n] \in Units
  BY LenProperties, ElementOfSeq DEF TypeOK
<1>2. w \in Seq(Units') /\ Len(w) = z /\ z \in 1..14 /\ \A x \in 1..z : w[x] = Unit(Len(sent) + 1, x)
  BY Sent, WireFacts
<1>3. coming \in Seq(Units')  BY Sent, SeqMonotonic DEF TypeOK
<1>4. coming' = coming \o w  BY DEF Send
<1> HIDE DEF w, z
<1>5. /\ coming' \in Seq(Units') /\ Len(coming') = l + z
      /\ \A n \in 1..l + z : coming'[n] = IF n <= l THEN coming[n] ELSE w[n - l]
  <2>1. /\ coming \o w \in Seq(Units') /\ Len(coming \o w) = Len(coming) + Len(w)
        /\ \A n \in 1..Len(coming) + Len(w) :
             (coming \o w)[n] = IF n <= Len(coming) THEN coming[n] ELSE w[n - Len(coming)]
    BY <1>2, <1>3, ConcatProperties
  <2> QED  BY <2>1, <1>2, <1>4
<1>6. DOMAIN coming' = 1..l + z  BY <1>5, LenProperties
<1> HIDE DEF l
<1>7. ASSUME NEW n \in 1..l
      PROVE  /\ coming'[n] = coming[n] /\ coming[n].msg \in DOMAIN sent
             /\ sent'[coming'[n].msg] = sent[coming[n].msg]
  <2>1. n \in 1..l + z /\ n <= l  BY <1>1, <1>2
  <2>2. coming'[n] = coming[n]  BY <2>1, <1>5
  <2>3. coming[n].msg \in DOMAIN sent  BY <1>1 DEF Units
  <2> QED  BY <2>2, <2>3, Sent
<1>8. ASSUME NEW x \in 1..z
      PROVE  /\ coming'[l + x] = Unit(Len(sent) + 1, x)
             /\ sent'[coming'[l + x].msg] = kind
  <2>1. l + x \in 1..l + z /\ ~(l + x <= l) /\ (l + x) - l = x  BY <1>1, <1>2
  <2>2. coming'[l + x] = Unit(Len(sent) + 1, x)  BY <2>1, <1>2, <1>5
  <2> QED  BY <2>2, Sent DEF Unit
<1> QED  BY <1>1, <1>2, <1>5, <1>6, <1>7, <1>8 DEF l, z
LEMMA SendStream ==
  ASSUME TypeOK, Stream, NEW kind \in Kinds, Send(kind)
  PROVE  Stream'
<1> DEFINE l == Len(coming)
           z == Size(kind)
           i == Len(sent) + 1
           b == coming'
           K(u) == sent'[u.msg]
<1>1. /\ l \in Nat /\ DOMAIN coming = 1..l /\ z \in 1..14
      /\ Len(b) = l + z /\ DOMAIN b = 1..l + z
      /\ \A n \in 1..l : b[n] = coming[n] /\ K(b[n]) = Kind(coming[n])
      /\ \A x \in 1..z : b[l + x] = Unit(i, x) /\ K(b[l + x]) = kind
  BY Comes DEF Kind
<1>2. Len(sent) \in Nat /\ Len(sent') = i /\ sent'[i] = kind
  BY Sent
<1>3. \A n \in 1..l : coming[n].msg \in 1..Len(sent) /\ coming[n].at \in 1..14
  <2>1. \A n \in 1..l : coming[n] \in Units  BY ElementOfSeq DEF TypeOK
  <2> QED  BY <2>1, Sent DEF Units
<1>4. \A n \in 1..l : Size(Kind(coming[n])) \in Nat
  <2>1. \A n \in 1..l : Kind(coming[n]) \in Kinds
    BY <1>3, Sent, ElementOfSeq DEF Kind, TypeOK
  <2> QED  BY <2>1, SizeType
<1>5. coming # <<>> <=> l > 0  BY <1>1, EmptySeq DEF TypeOK
<1> HIDE DEF l, z, i, b, K
<1>6. \A x \in 1..z : b[l + x].msg = i /\ b[l + x].at = x /\ K(b[l + x]) = kind
  <2> SUFFICES ASSUME NEW x \in 1..z
               PROVE  b[l + x].msg = i /\ b[l + x].at = x /\ K(b[l + x]) = kind
    OBVIOUS
  <2>1. b[l + x] = Unit(i, x) /\ K(b[l + x]) = kind  BY <1>1
  <2> QED  BY <2>1 DEF Unit
<1>7. \A n \in DOMAIN b : n \in 1..l \/ n - l \in 1..z
  <2> SUFFICES ASSUME NEW n \in 1..l + z PROVE n \in 1..l \/ n - l \in 1..z
    BY <1>1
  <2> QED  BY <1>1
<1>8. ASSUME NEW n \in DOMAIN b, n - l \in 1..z
      PROVE  b[n] = Unit(i, n - l) /\ b[n].msg = i /\ b[n].at = n - l /\ K(b[n]) = kind
  <2>1. n \in 1..l + z /\ l + (n - l) = n  BY <1>1
  <2> QED  BY <2>1, <1>1, <1>6, <1>8
<1>9. ASSUME NEW n \in DOMAIN b PROVE b[n].at <= Size(K(b[n]))
  <2>1. CASE n \in 1..l  BY <2>1, <1>1 DEF Stream, InPlace
  <2>2. CASE n - l \in 1..z
    <3>1. b[n].at = n - l /\ K(b[n]) = kind  BY <2>2, <1>8
    <3> QED  BY <3>1, <2>2, <1>1 DEF z
  <2> QED  BY <2>1, <2>2, <1>7
<1>10. ASSUME NEW m \in DOMAIN b, NEW n \in DOMAIN b, m <= n, b[m].at + (n - m) <= Size(K(b[m]))
       PROVE  b[n] = Unit(b[m].msg, b[m].at + (n - m))
  <2>1. CASE n \in 1..l
    <3>1. m \in 1..l  BY <2>1, <1>1, <1>10
    <3>2. b[m] = coming[m] /\ b[n] = coming[n] /\ K(b[m]) = Kind(coming[m])  BY <2>1, <3>1, <1>1
    <3> QED  BY <2>1, <3>1, <3>2, <1>1, <1>10 DEF Stream, Together
  <2>2. CASE m \in 1..l /\ n - l \in 1..z
    <3>1. /\ b[m] = coming[m] /\ K(b[m]) = Kind(coming[m])
          /\ coming[m].at \in 1..14 /\ Size(Kind(coming[m])) \in Nat
      BY <2>2, <1>1, <1>3, <1>4
    <3>2. l \in 1..l /\ m <= l  BY <2>2, <1>1
    <3>3. coming[m].at + (l - m) < Size(Kind(coming[m]))
      <4>1. l < n /\ n \in Int /\ m \in Int  BY <2>2, <1>1
      <4>2. coming[m].at + (n - m) <= Size(Kind(coming[m]))  BY <3>1, <1>10
      <4>3. coming[m].at \in Int /\ Size(Kind(coming[m])) \in Int  BY <3>1
      <4> QED  BY <4>1, <4>2, <4>3, <1>1
    <3>4. coming[l] = Unit(coming[m].msg, coming[m].at + (l - m))
      <4>1. m \in DOMAIN coming /\ l \in DOMAIN coming /\ m <= l  BY <2>2, <3>2, <1>1
      <4>2. coming[m].at + (l - m) <= Size(Kind(coming[m]))
        <5>1. coming[m].at \in Int /\ Size(Kind(coming[m])) \in Int  BY <3>1
        <5>2. m \in Int /\ l \in Int  BY <2>2, <1>1
        <5> QED  BY <5>1, <5>2, <3>3
      <4> QED  BY <4>1, <4>2 DEF Stream, Together
    <3>5. coming[l] = Unit(Len(sent), Size(sent[Len(sent)]))  BY <1>5, <3>2 DEF Stream, l
    <3>6. coming[m].msg = Len(sent) /\ coming[m].at + (l - m) = Size(sent[Len(sent)])
      BY <3>4, <3>5 DEF Unit
    <3> QED  BY <3>1, <3>3, <3>6 DEF Kind
  <2>3. CASE m - l \in 1..z /\ n - l \in 1..z
    <3>1. b[m].msg = i /\ b[m].at = m - l  BY <2>3, <1>8
    <3>2. b[n] = Unit(i, n - l)  BY <2>3, <1>8
    <3>3. (m - l) + (n - m) = n - l
      <4>1. m \in Int /\ n \in Int  BY <1>1
      <4> QED  BY <4>1, <1>1
    <3> QED  BY <3>1, <3>2, <3>3
  <2>4. m \in 1..l \/ m - l \in 1..z  BY <1>7
  <2>5. n \in 1..l \/ n - l \in 1..z  BY <1>7
  <2> QED  BY <2>1, <2>2, <2>3, <2>4, <2>5
<1>11. ASSUME NEW n \in DOMAIN b, n < Len(b), b[n].at = Size(K(b[n]))
       PROVE  b[n + 1] = Unit(b[n].msg + 1, 1)
  <2>1. CASE n \in 1..l /\ n < l
    <3>1. n + 1 \in 1..l  BY <2>1, <1>1
    <3>2. b[n] = coming[n] /\ b[n + 1] = coming[n + 1] /\ K(b[n]) = Kind(coming[n])
      BY <2>1, <3>1, <1>1
    <3> QED  BY <2>1, <3>2, <1>1, <1>11 DEF Stream, Crossing, l
  <2>2. CASE n = l /\ n \in 1..l
    <3>1. coming[l] = Unit(Len(sent), Size(sent[Len(sent)]))  BY <1>5, <2>2, <1>1 DEF Stream, l
    <3>2. b[n].msg = Len(sent)  BY <2>2, <3>1, <1>1 DEF Unit
    <3>3. b[l + 1] = Unit(i, 1)  BY <1>1
    <3> QED  BY <2>2, <3>2, <3>3 DEF i
  <2>3. CASE n - l \in 1..z
    <3>1. b[n].at = n - l /\ K(b[n]) = kind  BY <2>3, <1>8
    <3>2. n - l < z  BY <2>3, <1>1, <1>11
    <3> QED  BY <3>1, <3>2, <1>1, <1>11 DEF z
  <2> QED  BY <2>1, <2>2, <2>3, <1>1, <1>7
<1>12. ASSUME NEW m \in DOMAIN b, NEW n \in DOMAIN b, m < n
       PROVE  b[m].msg < b[n].msg \/ (b[m].msg = b[n].msg /\ b[m].at < b[n].at)
  <2>1. CASE n \in 1..l
    <3>1. m \in 1..l  BY <2>1, <1>1, <1>12
    <3>2. b[m] = coming[m] /\ b[n] = coming[n]  BY <2>1, <3>1, <1>1
    <3> QED  BY <2>1, <3>1, <3>2, <1>1, <1>12 DEF Stream, Sorted
  <2>2. CASE m \in 1..l /\ n - l \in 1..z
    <3>1. b[m].msg \in 1..Len(sent)
      <4>1. b[m] = coming[m]  BY <2>2, <1>1
      <4> QED  BY <4>1, <2>2, <1>3
    <3>2. b[n].msg = i  BY <2>2, <1>8
    <3> QED  BY <3>1, <3>2, <1>2 DEF i
  <2>3. CASE m - l \in 1..z /\ n - l \in 1..z
    <3>1. b[m].msg = i /\ b[m].at = m - l /\ b[n].msg = i /\ b[n].at = n - l
      BY <2>3, <1>8
    <3>2. m - l < n - l  BY <2>3, <1>1, <1>12
    <3> QED  BY <3>1, <3>2
  <2>4. m \in 1..l \/ m - l \in 1..z  BY <1>7
  <2>5. n \in 1..l \/ n - l \in 1..z  BY <1>7
  <2> QED  BY <2>1, <2>2, <2>3, <2>4, <2>5
<1>13. b[Len(b)] = Unit(Len(sent'), Size(sent'[Len(sent')]))
  <2>1. z \in 1..z  BY <1>1
  <2>2. b[l + z] = Unit(i, z)  BY <2>1, <1>1
  <2> QED  BY <2>2, <1>1, <1>2 DEF z
<1>14. InPlace(coming)'  BY <1>9 DEF InPlace, Kind, K, b
<1>15. Together(coming)'  BY <1>10 DEF Together, Kind, K, b
<1>16. Crossing(coming)'  BY <1>11 DEF Crossing, Kind, K, b
<1>17. Sorted(coming)'  BY <1>12 DEF Sorted, b
<1> QED  BY <1>13, <1>14, <1>15, <1>16, <1>17 DEF Stream, b

LEMMA SendTypes ==
  ASSUME TypeOK, Stream, NEW kind \in Kinds, Send(kind)
  PROVE  TypeOK'
<1>1. sent' \in Seq(Kinds) /\ Len(sent') <= MaxMessages
  <2>1. sent' \in Seq(Kinds) /\ Len(sent') = Len(sent) + 1 /\ Len(sent) \in Nat  BY Sent
  <2>2. Len(sent) < MaxMessages /\ MaxMessages \in Nat  BY FramingAssumption DEF Send
  <2> QED  BY <2>1, <2>2
<1>2. coming' \in Seq(Units')  BY Comes
<1>3. UNCHANGED <<executed, rtcp, answers, whole>>  BY DEF Send
<1>4. executed' \in Seq([msg : DOMAIN sent', CSeq : 0..MaxMessages, Accept : 0..MaxMessages,
                         Transport : 0..MaxMessages])
  <2>1. [msg : DOMAIN sent, CSeq : 0..MaxMessages, Accept : 0..MaxMessages, Transport : 0..MaxMessages]
          \subseteq
        [msg : DOMAIN sent', CSeq : 0..MaxMessages, Accept : 0..MaxMessages, Transport : 0..MaxMessages]
    BY Sent, SMTT(30)
  <2> QED  BY <2>1, <1>3, SeqMonotonic DEF TypeOK
<1>5. rtcp' \in Seq(Seq(Units'))
  <2>1. Seq(Units) \subseteq Seq(Units')  BY Sent, SeqMonotonic
  <2> QED  BY <2>1, <1>3, SeqMonotonic DEF TypeOK
<1>6. answers' \in Seq({"status", "refused", "field", "empty", "body"}) /\ whole' \in BOOLEAN
  BY <1>3 DEF TypeOK
<1> QED  BY <1>1, <1>2, <1>4, <1>5, <1>6 DEF TypeOK

\* Requests that have been executed, in general.
LEMMA ExecutedType ==
  ASSUME TypeOK
  PROVE  /\ Len(executed) \in Nat /\ DOMAIN executed = 1..Len(executed)
         /\ \A k \in DOMAIN executed : executed[k].msg \in DOMAIN sent
<1> DEFINE R == [msg : DOMAIN sent, CSeq : 0..MaxMessages, Accept : 0..MaxMessages,
                 Transport : 0..MaxMessages]
<1>1. executed \in Seq(R)  BY DEF TypeOK
<1>2. \A r \in R : r.msg \in DOMAIN sent  OBVIOUS
<1> HIDE DEF R
<1> QED  BY <1>1, <1>2, LenProperties, ElementOfSeq

LEMMA SendAhead ==
  ASSUME TypeOK, Stream, Ahead, ExecutedWasSent, NEW kind \in Kinds, Send(kind)
  PROVE  Ahead' /\ ExecutedWasSent'
<1>1. executed' = executed  BY DEF Send
<1>2. ASSUME NEW k \in DOMAIN executed, NEW n \in DOMAIN coming', coming'[n].at = 1
      PROVE  executed[k].msg < coming'[n].msg
  <2>1. executed[k].msg \in 1..Len(sent) /\ Len(sent) \in Nat  BY ExecutedType, Sent
  <2>2. CASE n \in 1..Len(coming)
    <3>1. n \in DOMAIN coming /\ coming'[n] = coming[n]  BY <2>2, Comes
    <3> QED  BY <3>1, <1>2 DEF Ahead
  <2>3. CASE n - Len(coming) \in 1..Size(kind)
    <3>1. Len(coming) + (n - Len(coming)) = n  BY <2>3, <1>2, Comes
    <3>2. coming'[n] = Unit(Len(sent) + 1, n - Len(coming))  BY <3>1, <2>3, Comes
    <3> QED  BY <3>2, <2>1 DEF Unit
  <2>4. n \in 1..Len(coming) \/ n - Len(coming) \in 1..Size(kind)
    <3>1. /\ n \in 1..Len(coming) + Size(kind) /\ Len(coming) \in Nat
          /\ Size(kind) \in Nat
      BY <1>2, Comes, SMTT(30)
    <3> QED  BY <3>1
  <2> QED  BY <2>2, <2>3, <2>4
<1>3. ASSUME NEW k \in DOMAIN executed PROVE sent'[executed[k].msg] = sent[executed[k].msg]
  BY Sent, ExecutedType
<1>4. Ahead'  BY <1>1, <1>2 DEF Ahead
<1>5. ExecutedWasSent'  BY <1>1, <1>3 DEF ExecutedWasSent
<1> QED  BY <1>4, <1>5

LEMMA SendWhole ==
  ASSUME TypeOK, Stream, Whole, NEW kind \in Kinds, Send(kind)
  PROVE  Whole'
<1>1. executed' = executed /\ rtcp' = rtcp /\ whole' = whole  BY DEF Send
<1> SUFFICES ASSUME whole PROVE Whole'
  BY <1>1 DEF Whole
<1>2. coming' # <<>> /\ (coming = <<>> <=> Len(coming) = 0)
  <2>1. Len(coming') > 0  BY Comes
  <2> QED  BY <2>1, EmptySeq, Comes DEF TypeOK
<1>3. IF coming = <<>> THEN coming'[1] = Unit(Len(sent) + 1, 1) ELSE coming'[1] = coming[1]
  <2>1. CASE coming = <<>>
    <3>1. Len(coming) + 1 = 1 /\ 1 \in 1..Size(kind)  BY <2>1, <1>2, Comes
    <3>2. coming'[Len(coming) + 1] = Unit(Len(sent) + 1, 1)  BY <3>1, Comes
    <3> QED  BY <2>1, <3>1, <3>2
  <2>2. CASE coming # <<>>
    <3>1. 1 \in 1..Len(coming)  BY <2>2, <1>2, Comes
    <3> QED  BY <3>1, <2>2, Comes
  <2> QED  BY <2>1, <2>2
<1>4. coming'[1].at = 1  BY <1>3 DEF Whole, Unit
<1>5. \A i \in DOMAIN sent : Gone(i)' <=> Gone(i)
  BY <1>2, <1>3, Sent DEF Gone, Unit
<1>6. ASSUME NEW i, i = Len(sent) + 1 PROVE ~Gone(i)'
  <2>1. CASE coming = <<>>  BY <2>1, <1>6, <1>2, <1>3, Sent DEF Gone, Unit
  <2>2. CASE coming # <<>>
    <3>1. 1 \in 1..Len(coming)  BY <2>2, <1>2, Comes
    <3>2. coming[1].msg \in 1..Len(sent)  BY <3>1, Comes, Sent
    <3> QED  BY <3>2, <2>2, <1>2, <1>3, <1>6, Sent, SMTT(30) DEF Gone
  <2> QED  BY <2>1, <2>2
<1>7. \A i \in DOMAIN sent' : i \in DOMAIN sent \/ i = Len(sent) + 1  BY Sent
<1>8. \A i \in DOMAIN sent : Understood(i) => Understood(i)'
  <2> SUFFICES ASSUME NEW i \in DOMAIN sent, Understood(i) PROVE Understood(i)'
    OBVIOUS
  <2>1. sent'[i] = sent[i]  BY Sent
  <2> QED  BY <2>1, <1>1 DEF Understood
<1>8a. ASSUME NEW i \in DOMAIN sent', Gone(i)'
       PROVE  i \in DOMAIN sent /\ Gone(i) /\ sent'[i] = sent[i]
  <2>1. i \in DOMAIN sent  BY <1>6, <1>7, <1>8a
  <2> QED  BY <2>1, <1>5, <1>8a, Sent
<1>9. \A i \in DOMAIN sent' : Gone(i)' /\ sent'[i] # "frame" => Understood(i)'
  <2> SUFFICES ASSUME NEW i \in DOMAIN sent', Gone(i)', sent'[i] # "frame" PROVE Understood(i)'
    OBVIOUS
  <2>1. i \in DOMAIN sent /\ Gone(i) /\ sent[i] # "frame"  BY <1>8a
  <2> QED  BY <2>1, <1>8 DEF Whole
<1>10. \A i \in DOMAIN sent' : Gone(i)' /\ sent'[i] = "frame" => \E k \in DOMAIN rtcp : rtcp[k] = Data(i)
  <2> SUFFICES ASSUME NEW i \in DOMAIN sent', Gone(i)', sent'[i] = "frame"
               PROVE  \E k \in DOMAIN rtcp : rtcp[k] = Data(i)
    OBVIOUS
  <2>1. i \in DOMAIN sent /\ Gone(i) /\ sent[i] = "frame"  BY <1>8a
  <2> QED  BY <2>1 DEF Whole
<1>11. \A k \in DOMAIN rtcp :
         \E i \in DOMAIN sent' : Gone(i)' /\ sent'[i] = "frame" /\ rtcp[k] = Data(i)
  <2> SUFFICES ASSUME NEW k \in DOMAIN rtcp
               PROVE  \E i \in DOMAIN sent' : Gone(i)' /\ sent'[i] = "frame" /\ rtcp[k] = Data(i)
    OBVIOUS
  <2>1. PICK i \in DOMAIN sent : Gone(i) /\ sent[i] = "frame" /\ rtcp[k] = Data(i)  BY DEF Whole
  <2>2. i \in DOMAIN sent' /\ sent'[i] = sent[i]  BY Sent, SMTT(30)
  <2>3. Gone(i)'  BY <2>1, <1>5
  <2> QED  BY <2>1, <2>2, <2>3
<1> QED  BY <1>1, <1>4, <1>9, <1>10, <1>11 DEF Whole
-----------------------------------------------------------------------------
(* A chunk is read.                                                        *)

LEMMA Left ==
  ASSUME TypeOK, Stream, NEW n \in 1..Len(coming), Read(n)
  PROVE  /\ sent' = sent /\ Units' = Units
         /\ Len(coming) \in Nat /\ DOMAIN coming = 1..Len(coming)
         /\ coming' \in Seq(Units) /\ Len(coming') = Len(coming) - n
         /\ DOMAIN coming' = 1..Len(coming) - n
         /\ \A k \in 1..Len(coming) - n : coming'[k] = coming[n + k] /\ n + k \in DOMAIN coming
<1>1. sent' = sent /\ coming' = SubSeq(coming, n + 1, Len(coming))  BY DEF Read
<1>2. Units' = Units  BY <1>1 DEF Units
<1>3. /\ Len(coming) \in Nat /\ DOMAIN coming = 1..Len(coming)
      /\ coming' \in Seq(Units) /\ Len(coming') = Len(coming) - n
      /\ \A k \in 1..Len(coming) - n : coming'[k] = coming[n + k]
  BY <1>1, ReadParts
<1>4. DOMAIN coming' = 1..Len(coming) - n  BY <1>3, LenProperties
<1>5. \A k \in 1..Len(coming) - n : n + k \in 1..Len(coming)  BY <1>3
<1> QED  BY <1>1, <1>2, <1>3, <1>4, <1>5, Zenon

LEMMA ReadStream ==
  ASSUME TypeOK, Stream, NEW n \in 1..Len(coming), Read(n)
  PROVE  Stream'
<1> DEFINE l == Len(coming) - n
           b == coming'
<1>1. /\ sent' = sent /\ DOMAIN b = 1..l /\ Len(b) = l /\ l \in Nat /\ n \in Nat
      /\ DOMAIN coming = 1..n + l /\ Len(coming) = n + l
      /\ \A k \in 1..l : b[k] = coming[n + k] /\ n + k \in DOMAIN coming
  BY Left
<1>2. \A u : Kind(u)' = sent'[u'.msg]  BY DEF Kind
<1> HIDE DEF l
<1>3. InPlace(coming)'  BY <1>1 DEF Stream, InPlace, Kind
<1>4. Together(coming)'
  <2> SUFFICES ASSUME NEW x \in DOMAIN b, NEW y \in DOMAIN b, x <= y,
                      b[x].at + (y - x) <= Size(sent[b[x].msg])
               PROVE  b[y] = Unit(b[x].msg, b[x].at + (y - x))
    BY <1>1 DEF Together, Kind
  <2>1. b[x] = coming[n + x] /\ b[y] = coming[n + y] /\ n + x \in DOMAIN coming /\ n + y \in DOMAIN coming
    BY <1>1
  <2>2. (n + y) - (n + x) = y - x /\ n + x <= n + y  BY <1>1
  <2> QED  BY <2>1, <2>2 DEF Stream, Together, Kind
<1>5. Crossing(coming)'
  <2> SUFFICES ASSUME NEW x \in DOMAIN b, x < l, b[x].at = Size(sent[b[x].msg])
               PROVE  b[x + 1] = Unit(b[x].msg + 1, 1)
    BY <1>1 DEF Crossing, Kind
  <2>1. x + 1 \in 1..l /\ n + (x + 1) = (n + x) + 1 /\ n + x < n + l  BY <1>1
  <2>2. b[x] = coming[n + x] /\ b[x + 1] = coming[(n + x) + 1] /\ n + x \in DOMAIN coming
    BY <1>1, <2>1
  <2> QED  BY <1>1, <2>1, <2>2 DEF Stream, Crossing, Kind
<1>6. Sorted(coming)'
  <2> SUFFICES ASSUME NEW x \in DOMAIN b, NEW y \in DOMAIN b, x < y
               PROVE  b[x].msg < b[y].msg \/ (b[x].msg = b[y].msg /\ b[x].at < b[y].at)
    BY DEF Sorted
  <2>1. b[x] = coming[n + x] /\ b[y] = coming[n + y] /\ n + x \in DOMAIN coming /\ n + y \in DOMAIN coming
    BY <1>1
  <2>2. n + x < n + y  BY <1>1
  <2> QED  BY <2>1, <2>2 DEF Stream, Sorted
<1>7. b # <<>> => b[Len(b)] = Unit(Len(sent'), Size(sent'[Len(sent')]))
  <2> SUFFICES ASSUME b # <<>> PROVE b[l] = Unit(Len(sent), Size(sent[Len(sent)]))
    BY <1>1
  <2>1. l # 0  BY <1>1, Left, EmptySeq
  <2>2. l \in 1..l /\ coming # <<>>  BY <2>1, <1>1, EmptySeq DEF TypeOK
  <2>3. b[l] = coming[n + l]  BY <2>2, <1>1
  <2> QED  BY <2>2, <2>3, <1>1 DEF Stream
<1> QED  BY <1>3, <1>4, <1>5, <1>6, <1>7 DEF Stream

\* The answer to a request that is read, if there is one.
LEMMA ReadAnswers ==
  ASSUME TypeOK, Stream, AnswersDelimited, NEW n \in 1..Len(coming), Read(n)
  PROVE  AnswersDelimited' /\ answers' \in Seq(AnswerLine)
<1> DEFINE c == SubSeq(coming, 1, n)
<1>1. Delimited(answers) /\ answers \in Seq(AnswerLine)
  BY DEF AnswersDelimited, Delimited, Ended, TypeOK, AnswerLine
<1>2. Chunk(c)  BY ReadParts
<1>3. UNCHANGED answers \/ \E p : Parsed(c, Lines(c), p) /\ Answer(Request(c, Lines(c), p))
  BY ReadExecutes
<1> HIDE DEF c
<1>4. Delimited(answers)' /\ answers' \in Seq(AnswerLine)
  <2>1. CASE UNCHANGED answers  BY <2>1, <1>1
  <2>2. ASSUME NEW p, Parsed(c, Lines(c), p), Answer(Request(c, Lines(c), p)), answers' # answers
        PROVE  Delimited(answers') /\ answers' \in Seq(AnswerLine)
    <3> DEFINE k == sent[c[p].msg]
    <3>1. k \in Method  BY <2>2, <1>2, RequestLine DEF Kind
    <3>2. Request(c, Lines(c), p).msg = c[p].msg  BY DEF Request
    <3>3. PICK refused \in {FALSE, k = "SETUP"} :
            answers' = answers \o <<IF refused THEN "refused" ELSE "status", "field">> \o Fill(k, refused)
      BY <2>2, <3>2 DEF Answer
    <3>4. refused \in BOOLEAN /\ (refused => k = "SETUP")  BY <3>3
    <3> QED  BY <1>1, <3>1, <3>3, <3>4, AnswerDelimited
  <2> QED  BY <2>1, <2>2, <1>3
<1> QED  BY <1>4 DEF AnswersDelimited, Delimited, Ended

LEMMA ReadTypes ==
  ASSUME TypeOK, Stream, AnswersDelimited, NEW n \in 1..Len(coming), Read(n)
  PROVE  TypeOK'
<1> DEFINE c == SubSeq(coming, 1, n)
           R == [msg : DOMAIN sent, CSeq : 0..MaxMessages, Accept : 0..MaxMessages,
                 Transport : 0..MaxMessages]
<1>1. sent' = sent /\ Units' = Units /\ coming' \in Seq(Units)  BY Left
<1>2. Chunk(c) /\ Len(c) \in Nat  BY ReadParts, ChunkFacts
<1>3. OnRecv(c) /\ whole' \in BOOLEAN  BY DEF Read, TypeOK
<1>4. answers' \in Seq({"status", "refused", "field", "empty", "body"})
  BY ReadAnswers DEF AnswerLine
<1>5. executed' = executed \/ \E p : Parsed(c, Lines(c), p) /\ executed' = Append(executed, Request(c, Lines(c), p))
  BY ReadExecutes
<1> HIDE DEF c
<1>6. executed' \in Seq(R)
  <2>1. executed \in Seq(R)  BY DEF TypeOK
  <2>2. \A p : Parsed(c, Lines(c), p) => Request(c, Lines(c), p) \in R  BY <1>2, RequestType
  <2> HIDE DEF R
  <2> QED  BY <2>1, <2>2, <1>5, Appended
<1>7. rtcp' \in Seq(Seq(Units))
  <2>1. rtcp \in Seq(Seq(Units))  BY DEF TypeOK
  <2>2. Frame(c) \in Seq(Units)
    <3>1. c \in Seq(Units)  BY <1>2 DEF Chunk
    <3>2. \A k \in 3..Len(c) : k \in 1..Len(c)  BY <1>2
    <3>3. \A k \in 3..Len(c) : c[k] \in Units  BY <3>1, <3>2, ElementOfSeq
    <3>4. SubSeq(c, 3, Len(c)) \in Seq(Units)  BY <3>3, <1>2, SubSeqProperties
    <3>5. <<>> \in Seq(Units)  BY EmptySeq
    <3> QED  BY <3>4, <3>5 DEF Frame
  <2>3. rtcp' = rtcp \/ rtcp' = Append(rtcp, Frame(c))  BY <1>3 DEF OnRecv
  <2> DEFINE S == Seq(Units)
             f == Frame(c)
  <2> HIDE DEF S, f
  <2>4. rtcp \in Seq(S) /\ f \in S  BY <2>1, <2>2 DEF S, f
  <2>5. Append(rtcp, f) \in Seq(S)  BY <2>4, Appended
  <2> QED  BY <2>3, <2>4, <2>5 DEF S, f
<1> QED  BY <1>1, <1>3, <1>4, <1>6, <1>7 DEF TypeOK

LEMMA ReadAhead ==
  ASSUME TypeOK, Stream, Ahead, ExecutedWasSent, NEW n \in 1..Len(coming), Read(n)
  PROVE  Ahead' /\ ExecutedWasSent'
<1> DEFINE c == SubSeq(coming, 1, n)
           l == Len(coming) - n
<1>1. /\ sent' = sent /\ DOMAIN coming' = 1..l /\ l \in Nat /\ n \in Nat
      /\ \A k \in 1..l : coming'[k] = coming[n + k] /\ n + k \in DOMAIN coming
  <2>1. Len(coming) \in Nat /\ n \in 1..Len(coming)  BY Left
  <2>2. l \in Nat /\ n \in Nat  BY <2>1
  <2>3. /\ sent' = sent /\ DOMAIN coming' = 1..l
        /\ \A k \in 1..l : coming'[k] = coming[n + k] /\ n + k \in DOMAIN coming
    BY Left, Zenon
  <2> QED  BY <2>2, <2>3
<1>2. /\ Chunk(c) /\ Len(c) = n
      /\ \A k \in 1..n : c[k] = coming[k] /\ k \in DOMAIN coming
  BY ReadParts
<1>3. \/ executed' = executed
      \/ \E p : /\ Parsed(c, Lines(c), p)
                /\ executed' = Append(executed, Request(c, Lines(c), p))
                /\ sent[c[p].msg] = "SETUP" => Field(c, Lines(c), "Transport") # 0
  BY ReadExecutes
<1> HIDE DEF c, l
<1>4. CASE executed' = executed
  <2>1. ExecutedWasSent'  BY <1>1, <1>4 DEF ExecutedWasSent
  <2>2. Ahead'  BY <1>1, <1>4 DEF Ahead
  <2> QED  BY <2>1, <2>2
<1>5. ASSUME NEW p, Parsed(c, Lines(c), p), executed' = Append(executed, Request(c, Lines(c), p)),
             sent[c[p].msg] = "SETUP" => Field(c, Lines(c), "Transport") # 0
      PROVE  Ahead' /\ ExecutedWasSent'
  <2> DEFINE r == Request(c, Lines(c), p)
             m == Len(executed)
             i == c[p].msg
  <2>1. p \in 1..n /\ c[p].at = 1 /\ i \in DOMAIN sent /\ i \in Nat /\ Kind(c[p]) = sent[i]
    BY <1>2, <1>5, RequestLine, Left, ChunkFacts DEF Kind
  <2>2. p \in DOMAIN coming /\ coming[p] = c[p]  BY <2>1, <1>2
  <2>3. /\ executed \in Seq([msg : DOMAIN sent, CSeq : 0..MaxMessages, Accept : 0..MaxMessages,
                             Transport : 0..MaxMessages])
        /\ r \in [msg : DOMAIN sent, CSeq : 0..MaxMessages, Accept : 0..MaxMessages,
                  Transport : 0..MaxMessages]
    BY <1>2, <1>5, RequestType DEF TypeOK
  <2>4. /\ m \in Nat /\ DOMAIN executed = 1..m /\ DOMAIN executed' = 1..m + 1
        /\ \A k \in 1..m : executed'[k] = executed[k]
        /\ executed'[m + 1] = r
    BY <2>3, <1>5, Appended
  <2>5. /\ r.msg = i /\ r.CSeq = Field(c, Lines(c), "CSeq")
        /\ r.Accept = Field(c, Lines(c), "Accept")
        /\ r.Transport = Field(c, Lines(c), "Transport")
    BY DEF Request
  <2>6. /\ r.CSeq \in {0, i}
        /\ sent[i] = "DESCRIBE" => r.Accept \in {0, i}
        /\ sent[i] = "SETUP" => r.Transport \in {0, i}
    BY <1>2, <1>5, <2>1, <2>5, OwnField
  <2>7. \A k \in 1..m : executed[k].msg < i  BY <2>1, <2>2, <2>4 DEF Ahead
  <2> HIDE DEF r, m, i
  <2>8. \A k \in 1..m + 1 : k \in 1..m \/ k = m + 1  BY <2>4
  <2>9. ExecutedWasSent'
    <3>1. ASSUME NEW j \in 1..m + 1, NEW k \in 1..m + 1, j < k
          PROVE  executed'[j].msg < executed'[k].msg
      <4>1. j \in 1..m  BY <3>1, <2>4
      <4>2. CASE k \in 1..m  BY <4>1, <4>2, <3>1, <2>4 DEF ExecutedWasSent
      <4>3. CASE k = m + 1  BY <4>1, <4>3, <2>4, <2>5, <2>7
      <4> QED  BY <4>2, <4>3, <2>8
    <3>2. ASSUME NEW k \in 1..m + 1
          PROVE  /\ executed'[k].CSeq \in {0, executed'[k].msg}
                 /\ sent[executed'[k].msg] = "DESCRIBE" => executed'[k].Accept \in {0, executed'[k].msg}
                 /\ sent[executed'[k].msg] = "SETUP" => executed'[k].Transport = executed'[k].msg
      <4>1. CASE k \in 1..m  BY <4>1, <2>4 DEF ExecutedWasSent
      <4>2. CASE k = m + 1  BY <4>2, <2>4, <2>5, <2>6, <1>5 DEF i
      <4> QED  BY <4>1, <4>2, <2>8
    <3> QED  BY <3>1, <3>2, <2>4, <1>1 DEF ExecutedWasSent
  <2>10. ASSUME NEW k \in 1..m + 1, NEW y \in 1..l, coming'[y].at = 1
         PROVE  executed'[k].msg < coming'[y].msg
    <3>1. coming'[y] = coming[n + y] /\ n + y \in DOMAIN coming  BY <1>1
    <3>2. CASE k \in 1..m  BY <3>1, <3>2, <2>4, <2>10 DEF Ahead
    <3>3. CASE k = m + 1
      <4>1. p < n + y /\ p \in Nat  BY <2>1, <1>1
      <4>2. coming[p].msg < coming[n + y].msg
              \/ (coming[p].msg = coming[n + y].msg /\ coming[p].at < coming[n + y].at)
        BY <4>1, <3>1, <2>2 DEF Stream, Sorted
      <4>3. coming[p].msg = i /\ coming[p].at = 1 /\ coming[n + y].at = 1
        BY <2>1, <2>2, <3>1, <2>10 DEF i
      <4> QED  BY <4>2, <4>3, <3>1, <3>3, <2>4, <2>5
    <3> QED  BY <3>2, <3>3, <2>8
  <2>11. Ahead'  BY <2>10, <2>4, <1>1 DEF Ahead
  <2> QED  BY <2>9, <2>11
<1> QED  BY <1>3, <1>4, <1>5
-----------------------------------------------------------------------------
(* A chunk is a message.                                                   *)

LEMMA FieldNames ==
  ASSUME NEW kind \in Method, NEW n \in DOMAIN LinesOf[kind]
  PROVE  /\ LinesOf[kind][n] = "Accept" => kind = "DESCRIBE"
         /\ LinesOf[kind][n] = "Transport" => kind = "SETUP"
<1>1. CASE kind = "OPTIONS"  BY <1>1 DEF LinesOf
<1>2. CASE kind = "DESCRIBE"  BY <1>2 DEF LinesOf
<1>3. CASE kind = "SETUP"  BY <1>3 DEF LinesOf
<1>4. CASE kind = "PLAY"  BY <1>4 DEF LinesOf
<1>5. CASE kind = "TEARDOWN"  BY <1>5 DEF LinesOf
<1> QED  BY <1>1, <1>2, <1>3, <1>4, <1>5, Methods

\* A request that arrives by itself is found, with all its fields.
LEMMA WholeRequest ==
  ASSUME TypeOK, NEW c, Chunk(c), NEW i \in DOMAIN sent, sent[i] \in Method,
         c = Wire(i, sent[i])
  PROVE  /\ 1 \in Lines(c) /\ \A p : Parsed(c, Lines(c), p) <=> p = 1
         /\ c[1].msg = i
         /\ Field(c, Lines(c), "CSeq") = i
         /\ sent[i] = "DESCRIBE" => Field(c, Lines(c), "Accept") = i
         /\ sent[i] = "SETUP" => Field(c, Lines(c), "Transport") = i
<1> DEFINE k == sent[i]
           z == Size(k)
<1>1. k \in Kinds  BY ElementOfSeq, LenProperties DEF TypeOK
<1>2. /\ z \in 1..14 /\ Len(c) = z
      /\ \A x \in 1..z : c[x] = Unit(i, x)
  BY <1>1, WireFacts
<1>3. z = IF k \in {"DESCRIBE", "SETUP"} THEN 14 ELSE 10  BY Sizes
<1> HIDE DEF z
<1>4. \A x \in 1..z : c[x].msg = i /\ c[x].at = x /\ Kind(c[x]) = k  BY <1>2 DEF Unit, Kind
<1>5. /\ Part(k, 1) = "a" /\ Part(k, 3) = "cr" /\ Part(k, 4) = "lf"
      /\ Part(k, 7) = "cr" /\ Part(k, 8) = "lf"
      /\ k \in {"DESCRIBE", "SETUP"} => Part(k, 11) = "cr" /\ Part(k, 12) = "lf"
  <2>1. \A at \in {1, 5} : Part(k, at) = "a" /\ Part(k, at + 2) = "cr" /\ Part(k, at + 3) = "lf"
    BY PartPlaces
  <2>2. 1 + 2 = 3 /\ 1 + 3 = 4 /\ 5 + 2 = 7 /\ 5 + 3 = 8  OBVIOUS
  <2>3. k \in {"DESCRIBE", "SETUP"} => Part(k, 11) = "cr" /\ Part(k, 12) = "lf"  BY PartPlaces
  <2> QED  BY <2>1, <2>2, <2>3
<1>6. \A x : x \in EndLines(c) <=>
        x \in 1..z - 1 /\ Part(Kind(c[x]), c[x].at) = "cr" /\ Part(Kind(c[x + 1]), c[x + 1].at) = "lf"
  BY <1>2, EndFacts
<1>7. 3 \in EndLines(c) /\ 7 \in EndLines(c) /\ 1 \notin EndLines(c)
  <2>1. 3 \in 1..z - 1 /\ 7 \in 1..z - 1 /\ 3 + 1 = 4 /\ 7 + 1 = 8  BY <1>3
  <2>2. 1 \in 1..z /\ 3 \in 1..z /\ 4 \in 1..z /\ 7 \in 1..z /\ 8 \in 1..z  BY <1>3
  <2> QED  BY <2>1, <2>2, <1>4, <1>5, <1>6
<1>8. k \in {"DESCRIBE", "SETUP"} => 11 \in EndLines(c)
  <2> SUFFICES ASSUME k \in {"DESCRIBE", "SETUP"} PROVE 11 \in EndLines(c)
    OBVIOUS
  <2>1. 11 \in 1..z - 1 /\ 11 + 1 = 12 /\ 11 \in 1..z /\ 12 \in 1..z  BY <1>3
  <2> QED  BY <2>1, <1>4, <1>5, <1>6
<1>9. 1 \in Lines(c)
  <2>1. 1 < 3  OBVIOUS
  <2> QED  BY <2>1, <1>7, EndFacts
<1>10. 1 \in 1..Len(c) /\ c[1].msg = i /\ c[1].at = 1 /\ Kind(c[1]) = k  BY <1>2, <1>3, <1>4
<1>11. Is(c, 1, "request")
  <2>1. 1 < 3 /\ 1 \in Texts(k) /\ Line(k, 1) = "request"  BY LinePlaces DEF Texts
  <2> QED  BY <2>1, <1>7, <1>10, TextLine
<1>12. \A p : Parsed(c, Lines(c), p) <=> p = 1
  <2>1. \A a \in Lines(c) : a \in Nat /\ 1 <= a  BY EndFacts
  <2> QED  BY <2>1, <1>9, <1>11 DEF Parsed, Least
<1>13. 1 + 4 < 7 /\ 1 + 8 < 11  OBVIOUS
<1>14. Field(c, Lines(c), "CSeq") = i
  <2>1. \E e \in EndLines(c) : 1 + 4 < e  BY <1>7, <1>13
  <2> QED  BY <2>1, <1>10, <1>12, OwnField
<1>15. k = "DESCRIBE" => Field(c, Lines(c), "Accept") = i
  <2>1. k = "DESCRIBE" => \E e \in EndLines(c) : 1 + 8 < e  BY <1>8, <1>13
  <2> QED  BY <2>1, <1>10, <1>12, OwnField
<1>16. k = "SETUP" => Field(c, Lines(c), "Transport") = i
  <2>1. k = "SETUP" => \E e \in EndLines(c) : 1 + 8 < e  BY <1>8, <1>13
  <2> QED  BY <2>1, <1>10, <1>12, OwnField
<1> QED  BY <1>9, <1>10, <1>12, <1>14, <1>15, <1>16

\* A frame that arrives by itself is found, with its data.
LEMMA WholeFrame ==
  ASSUME TypeOK, NEW c, Chunk(c), NEW i \in DOMAIN sent, sent[i] = "frame",
         c = Wire(i, sent[i])
  PROVE  Lines(c) = {} /\ Frame(c) = Data(i) /\ Data(i) # <<>>
<1>1. "frame" \in Kinds  BY ElementOfSeq, LenProperties DEF TypeOK
<1>2. /\ Len(c) = 3
      /\ c[1] = Unit(i, 1) /\ c[2] = Unit(i, 2) /\ c[3] = Unit(i, 3)
  <2>1. /\ Size("frame") = 3 /\ Len(c) = Size("frame")
        /\ \A x \in 1..Size("frame") : c[x] = Unit(i, x)
    BY <1>1, WireFacts, Sizes
  <2> QED  BY <2>1
<1>3. Part("frame", 1) = "$" /\ Part("frame", 2) = "header" /\ Line("frame", 1) = "frame"
  BY DEF Part, Line
<1>4. EndLines(c) = {}
  <2>1. \A x \in EndLines(c) : x = 1 \/ x = 2
    <3>1. \A x \in EndLines(c) : x \in 1..Len(c) - 1  BY EndFacts
    <3>2. Len(c) - 1 = 2  BY <1>2
    <3>3. \A x \in EndLines(c) : x \in 1..2  BY <3>1, <3>2
    <3> QED  BY <3>3
  <2>2. 1 \notin EndLines(c) /\ 2 \notin EndLines(c)
    <3>1. Kind(c[1]) = "frame" /\ Kind(c[2]) = "frame" /\ c[1].at = 1 /\ c[2].at = 2
      BY <1>2 DEF Kind, Unit
    <3> QED  BY <3>1, <1>3, EndFacts
  <2> QED  BY <2>1, <2>2
<1>5. Lines(c) = {}  BY <1>4, EndFacts
<1>6. Frame(c) = SubSeq(c, 3, 3)
  <2>1. Reads(c[1], "frame", "$")  BY <1>2, <1>3 DEF Reads, Unit
  <2>2. Len(c) > 2  BY <1>2
  <2>3. Frame(c) = SubSeq(c, 3, Len(c))  BY <2>1, <2>2 DEF Frame
  <2> QED  BY <2>3, <1>2
<1>7. SubSeq(c, 3, 3) = <<Unit(i, 3)>>
  <2>1. c \in Seq(Units) /\ 3 \in 1..Len(c)  BY <1>2 DEF Chunk
  <2>2. c[3] \in Units /\ \A x \in 3..3 : c[x] \in Units  BY <2>1, ElementOfSeq
  <2>3. /\ SubSeq(c, 3, 3) \in Seq(Units) /\ Len(SubSeq(c, 3, 3)) = 1
        /\ SubSeq(c, 3, 3)[1] = c[3]
    BY <2>2, SubSeqProperties
  <2>4. <<c[3]>> \in Seq(Units) /\ Len(<<c[3]>>) = 1 /\ <<c[3]>>[1] = c[3]  BY <2>2
  <2>5. \A x \in 1..1 : SubSeq(c, 3, 3)[x] = <<c[3]>>[x]  BY <2>3, <2>4
  <2> QED  BY <2>3, <2>4, <2>5, <1>2, SeqEqual
<1> QED  BY <1>5, <1>6, <1>7 DEF Data
\* What an answered message leaves understood.
LEMMA NowUnderstood ==
  ASSUME TypeOK, NEW c, Chunk(c), NEW i \in DOMAIN sent, sent[i] \in Method, sent' = sent,
         c = Wire(i, sent[i]), executed' = Append(executed, Request(c, Lines(c), 1))
  PROVE  Understood(i)'
<1> DEFINE r == Request(c, Lines(c), 1)
           m == Len(executed)
           R == [msg : DOMAIN sent, CSeq : 0..MaxMessages, Accept : 0..MaxMessages,
                 Transport : 0..MaxMessages]
<1>1. Parsed(c, Lines(c), 1) /\ c[1].msg = i  BY WholeRequest
<1>2. executed \in Seq(R) /\ r \in R  BY <1>1, RequestType DEF TypeOK
<1>3. r.msg = i /\ r["CSeq"] = i /\ (sent[i] = "DESCRIBE" => r["Accept"] = i)
      /\ (sent[i] = "SETUP" => r["Transport"] = i)
  BY WholeRequest DEF Request
<1> HIDE DEF r, R
<1>4. m + 1 \in DOMAIN executed' /\ executed'[m + 1] = r
  <2>1. executed' = Append(executed, r)  BY DEF r
  <2>2. m \in Nat /\ DOMAIN executed' = 1..m + 1 /\ executed'[m + 1] = r  BY <2>1, <1>2, Appended
  <2> QED  BY <2>2
<1>5. ASSUME NEW n \in DOMAIN LinesOf[sent[i]], LinesOf[sent[i]][n] \in {"CSeq", "Accept", "Transport"}
      PROVE  r[LinesOf[sent[i]][n]] = i
  BY <1>3, <1>5, FieldNames
<1> QED  BY <1>3, <1>4, <1>5 DEF Understood

\* What has been executed stays.
LEMMA StaysUnderstood ==
  ASSUME TypeOK, Stream, NEW n \in 1..Len(coming), Read(n), NEW i, Understood(i)
  PROVE  Understood(i)'
<1> DEFINE R == [msg : DOMAIN sent, CSeq : 0..MaxMessages, Accept : 0..MaxMessages,
                 Transport : 0..MaxMessages]
           c == SubSeq(coming, 1, n)
<1>1. sent' = sent  BY Left
<1>2. executed \in Seq(R) /\ Chunk(c)  BY ReadParts DEF TypeOK
<1>3. \A p : Parsed(c, Lines(c), p) => Request(c, Lines(c), p) \in R  BY <1>2, RequestType
<1>4. executed' = executed \/ \E r \in R : executed' = Append(executed, r)
  BY <1>3, ReadExecutes
<1> HIDE DEF R, c
<1>5. \A k \in DOMAIN executed : k \in DOMAIN executed' /\ executed'[k] = executed[k]
  <2>1. ASSUME NEW r \in R, executed' = Append(executed, r)
        PROVE  \A k \in DOMAIN executed : k \in DOMAIN executed' /\ executed'[k] = executed[k]
    <3>1. /\ Len(executed) \in Nat /\ DOMAIN executed = 1..Len(executed)
          /\ DOMAIN executed' = 1..Len(executed) + 1
          /\ \A k \in 1..Len(executed) : executed'[k] = executed[k]
      BY <2>1, <1>2, Appended
    <3> QED  BY <3>1
  <2> QED  BY <2>1, <1>4
<1> QED  BY <1>1, <1>5 DEF Understood

LEMMA ReadWhole ==
  ASSUME TypeOK, Stream, Whole, NEW n \in 1..Len(coming), Read(n)
  PROVE  Whole'
<1> SUFFICES ASSUME whole' PROVE Whole'
  BY DEF Whole
<1> DEFINE c == SubSeq(coming, 1, n)
           l == Len(coming) - n
<1>1. sent' = sent /\ OnRecv(c) /\ whole  BY DEF Read
<1>2. PICK i \in DOMAIN sent : c = Wire(i, sent[i])  BY DEF Read
<1>3. /\ Chunk(c) /\ Len(c) = n /\ n \in Nat
      /\ \A k \in 1..n : c[k] = coming[k] /\ k \in DOMAIN coming
  BY ReadParts
<1>4. /\ DOMAIN coming' = 1..l /\ l \in Nat /\ DOMAIN coming = 1..Len(coming) /\ Len(coming) = n + l
      /\ coming' \in Seq(Units) /\ Len(coming') = l
      /\ \A k \in 1..l : coming'[k] = coming[n + k]
  <2>1. /\ DOMAIN coming' = 1..l /\ Len(coming) \in Nat /\ DOMAIN coming = 1..Len(coming)
        /\ coming' \in Seq(Units) /\ Len(coming') = l
        /\ \A k \in 1..l : coming'[k] = coming[n + k]
    BY Left
  <2>2. l \in Nat /\ Len(coming) = n + l  BY <2>1
  <2> QED  BY <2>1, <2>2
<1> HIDE DEF c, l
<1>5. sent[i] \in Kinds /\ DOMAIN sent = 1..Len(sent) /\ Len(sent) \in Nat /\ i \in Nat
  <2>1. DOMAIN sent = 1..Len(sent) /\ Len(sent) \in Nat  BY LenProperties DEF TypeOK
  <2> QED  BY <2>1, ElementOfSeq DEF TypeOK
<1>6. /\ Size(sent[i]) = n /\ n > 0
      /\ coming[1] = Unit(i, 1) /\ coming[n] = Unit(i, n)
  <2>1. /\ Size(sent[i]) \in 1..14 /\ Len(c) = Size(sent[i])
        /\ \A x \in 1..Size(sent[i]) : c[x] = Unit(i, x)
    BY <1>2, <1>5, WireFacts
  <2>2. 1 \in 1..n /\ n \in 1..n  BY <2>1, <1>3
  <2> QED  BY <2>1, <2>2, <1>3
<1>7. coming # <<>> /\ (coming' = <<>> <=> l = 0)
  <2>1. coming # <<>>  BY <1>4, <1>6, EmptySeq
  <2> QED  BY <2>1, <1>4, EmptySeq
<1>8. coming' # <<>> => coming'[1] = Unit(i + 1, 1)
  <2> SUFFICES ASSUME coming' # <<>> PROVE coming'[1] = Unit(i + 1, 1)
    OBVIOUS
  <2>1. 1 \in 1..l /\ n < Len(coming) /\ n \in DOMAIN coming  BY <1>4, <1>6, <1>7
  <2>2. coming[n].at = Size(Kind(coming[n])) /\ coming[n].msg = i  BY <1>6 DEF Kind, Unit
  <2>3. coming[n + 1] = Unit(i + 1, 1)  BY <2>1, <2>2 DEF Stream, Crossing
  <2> QED  BY <2>1, <2>3, <1>4
<1>9. coming' = <<>> => i = Len(sent)
  <2> SUFFICES ASSUME coming' = <<>> PROVE i = Len(sent)
    OBVIOUS
  <2>1. Len(coming) = n  BY <1>4, <1>7
  <2>2. coming[n] = Unit(Len(sent), Size(sent[Len(sent)]))  BY <2>1, <1>7 DEF Stream
  <2> QED  BY <2>2, <1>6 DEF Unit
<1>10. \A j \in DOMAIN sent : Gone(j)' <=> j <= i
  <2>1. CASE coming' = <<>>  BY <2>1, <1>5, <1>9 DEF Gone
  <2>2. CASE coming' # <<>>
    <3>1. coming'[1].msg = i + 1  BY <2>2, <1>8 DEF Unit
    <3> QED  BY <3>1, <2>2, <1>5 DEF Gone
  <2> QED  BY <2>1, <2>2
<1>11. \A j \in DOMAIN sent : Gone(j) <=> j < i  BY <1>6, <1>7 DEF Gone, Unit
<1>12. \A j \in DOMAIN sent : Gone(j)' <=> Gone(j) \/ j = i  BY <1>5, <1>10, <1>11
<1>13. coming' # <<>> => coming'[1].at = 1  BY <1>8 DEF Unit
<1>14. ASSUME NEW j \in DOMAIN sent, Gone(j), sent[j] # "frame" PROVE Understood(j)'
  BY <1>1, <1>14, StaysUnderstood DEF Whole
<1>15. CASE sent[i] \in Method
  <2>1. /\ 1 \in Lines(c) /\ \A p : Parsed(c, Lines(c), p) <=> p = 1
        /\ c[1].msg = i /\ (sent[i] = "SETUP" => Field(c, Lines(c), "Transport") = i)
    BY <1>2, <1>3, <1>15, WholeRequest
  <2>2. Execute(Request(c, Lines(c), 1)) /\ rtcp' = rtcp  BY <2>1, <1>1 DEF OnRecv
  <2>3. executed' = Append(executed, Request(c, Lines(c), 1))
    <3>1. i # 0  BY <1>5
    <3> QED  BY <3>1, <2>1, <2>2 DEF Execute, Request
  <2>4. Understood(i)'  BY <2>3, <1>1, <1>2, <1>3, <1>15, NowUnderstood
  <2>5. sent[i] # "frame"  BY <1>15, Methods
  <2>6. \A j \in DOMAIN sent : Gone(j)' /\ sent[j] # "frame" => Understood(j)'
    BY <2>4, <1>12, <1>14
  <2>7. \A j \in DOMAIN sent : Gone(j)' /\ sent[j] = "frame" => Gone(j)  BY <2>5, <1>12
  <2>8. \A j \in DOMAIN sent : Gone(j)' /\ sent[j] = "frame" => \E k \in DOMAIN rtcp' : rtcp'[k] = Data(j)
    BY <2>2, <2>7, <1>1 DEF Whole
  <2>9. \A k \in DOMAIN rtcp' : \E j \in DOMAIN sent : Gone(j)' /\ sent[j] = "frame" /\ rtcp'[k] = Data(j)
    BY <2>2, <1>1, <1>12 DEF Whole
  <2>10. \A j, k \in DOMAIN rtcp' : j < k => rtcp'[j][1].msg < rtcp'[k][1].msg
    BY <2>2, <1>1 DEF Whole
  <2> QED  BY <2>6, <2>8, <2>9, <2>10, <1>1, <1>13 DEF Whole
<1>16. CASE sent[i] = "frame"
  <2> DEFINE m == Len(rtcp)
  <2>1. Lines(c) = {} /\ Frame(c) = Data(i) /\ Data(i) # <<>>  BY <1>2, <1>3, <1>16, WholeFrame
  <2>2. rtcp' = Append(rtcp, Data(i))  BY <2>1, <1>1 DEF OnRecv
  <2>3. /\ m \in Nat /\ DOMAIN rtcp = 1..m /\ DOMAIN rtcp' = 1..m + 1
        /\ \A k \in 1..m : rtcp'[k] = rtcp[k]
        /\ rtcp'[m + 1] = Data(i)
    <3> DEFINE S == Seq(Units) \cup {Data(i)}
    <3>1. rtcp \in Seq(S) /\ Data(i) \in S  BY SeqMonotonic DEF TypeOK
    <3> HIDE DEF S
    <3> QED  BY <3>1, <2>2, Appended
  <2> HIDE DEF m
  <2>4. \A k \in 1..m + 1 : k \in 1..m \/ k = m + 1  BY <2>3
  <2>5. \A k \in 1..m : k \in 1..m + 1  BY <2>3
  <2>6. \A j \in DOMAIN sent : Gone(j)' /\ sent[j] # "frame" => Understood(j)'
    BY <1>12, <1>14, <1>16
  <2>7. ASSUME NEW j \in DOMAIN sent, Gone(j)', sent[j] = "frame"
        PROVE  \E k \in DOMAIN rtcp' : rtcp'[k] = Data(j)
    <3>1. CASE j = i
      <4>1. m + 1 \in DOMAIN rtcp'  BY <2>3
      <4> QED  BY <4>1, <3>1, <2>3
    <3>2. CASE Gone(j)
      <4>1. PICK k \in DOMAIN rtcp : rtcp[k] = Data(j)  BY <3>2, <2>7, <1>1 DEF Whole
      <4> QED  BY <4>1, <2>3, <2>5
    <3> QED  BY <3>1, <3>2, <2>7, <1>12
  <2>8. ASSUME NEW k \in DOMAIN rtcp
        PROVE  \E j \in DOMAIN sent : Gone(j) /\ j < i /\ sent[j] = "frame" /\ rtcp[k] = Data(j)
    BY <2>8, <1>1, <1>11 DEF Whole
  <2>9. ASSUME NEW k \in DOMAIN rtcp'
        PROVE  \E j \in DOMAIN sent : Gone(j)' /\ sent[j] = "frame" /\ rtcp'[k] = Data(j)
    <3>1. CASE k \in 1..m
      <4>1. PICK j \in DOMAIN sent : Gone(j) /\ sent[j] = "frame" /\ rtcp[k] = Data(j)
        BY <3>1, <2>3, <2>8
      <4>2. Gone(j)'  BY <4>1, <1>12
      <4> QED  BY <4>1, <4>2, <3>1, <2>3
    <3>2. CASE k = m + 1  BY <3>2, <2>3, <1>12, <1>16
    <3> QED  BY <3>1, <3>2, <2>3, <2>4
  <2>10. ASSUME NEW j \in DOMAIN rtcp', NEW k \in DOMAIN rtcp', j < k
         PROVE  rtcp'[j][1].msg < rtcp'[k][1].msg
    <3>1. j \in 1..m  BY <2>10, <2>3
    <3>2. CASE k \in 1..m  BY <3>1, <3>2, <2>3, <2>10, <1>1 DEF Whole
    <3>3. CASE k = m + 1
      <4>1. PICK x \in DOMAIN sent : x < i /\ rtcp[j] = Data(x)  BY <3>1, <2>3, <2>8
      <4>2. rtcp'[j] = Data(x) /\ rtcp'[k] = Data(i)  BY <4>1, <3>1, <3>3, <2>3
      <4>3. Data(x)[1].msg = x /\ Data(i)[1].msg = i  BY DEF Data, Unit
      <4> QED  BY <4>1, <4>2, <4>3
    <3> QED  BY <3>2, <3>3, <2>3, <2>4
  <2> QED  BY <2>6, <2>7, <2>9, <2>10, <1>1, <1>13 DEF Whole
<1> QED  BY <1>5, <1>15, <1>16, Methods-----------------------------------------------------------------------------
(* The theorems.                                                           *)

LEMMA InitIInv == Init => IInv /\ AnswersDelimited
<1> SUFFICES ASSUME Init PROVE IInv /\ AnswersDelimited
  OBVIOUS
<1>1. /\ sent = <<>> /\ coming = <<>> /\ executed = <<>> /\ rtcp = <<>> /\ answers = <<>>
      /\ whole = TRUE
  BY DEF Init
<1>2. \A S : <<>> \in Seq(S)  BY EmptySeq
<1>3. Len(<<>>) = 0 /\ DOMAIN <<>> = {}  BY EmptySeq
<1>4. TypeOK  BY <1>1, <1>2, <1>3, FramingAssumption DEF TypeOK
<1>5. Stream  BY <1>1, <1>3 DEF Stream, InPlace, Together, Crossing, Sorted
<1>6. Ahead /\ ExecutedWasSent /\ Whole /\ AnswersDelimited
  BY <1>1, <1>3 DEF Ahead, ExecutedWasSent, Whole, AnswersDelimited
<1> QED  BY <1>4, <1>5, <1>6 DEF IInv

LEMMA StepIInv == IInv /\ AnswersDelimited /\ [Next]_vars => IInv' /\ AnswersDelimited'
<1> SUFFICES ASSUME IInv, AnswersDelimited, [Next]_vars PROVE IInv' /\ AnswersDelimited'
  OBVIOUS
<1>1. TypeOK /\ Stream /\ Ahead /\ ExecutedWasSent /\ Whole  BY DEF IInv
<1>2. ASSUME NEW kind \in Kinds, Send(kind) PROVE IInv' /\ AnswersDelimited'
  <2>1. TypeOK' /\ Stream'  BY <1>1, <1>2, SendTypes, SendStream
  <2>2. Ahead' /\ ExecutedWasSent' /\ Whole'  BY <1>1, <1>2, SendAhead, SendWhole
  <2>3. AnswersDelimited'
    <3>1. answers' = answers  BY <1>2 DEF Send
    <3> QED  BY <3>1 DEF AnswersDelimited
  <2> QED  BY <2>1, <2>2, <2>3 DEF IInv
<1>3. ASSUME NEW n \in 1..Len(coming), Read(n) PROVE IInv' /\ AnswersDelimited'
  <2>1. TypeOK' /\ Stream'  BY <1>1, <1>3, ReadTypes, ReadStream
  <2>2. Ahead' /\ ExecutedWasSent' /\ Whole'  BY <1>1, <1>3, ReadAhead, ReadWhole
  <2>3. AnswersDelimited'  BY <1>1, <1>3, ReadAnswers
  <2> QED  BY <2>1, <2>2, <2>3 DEF IInv
<1>4. CASE UNCHANGED vars
  BY <1>4 DEF vars, IInv, TypeOK, Units, Stream, InPlace, Together, Crossing, Sorted, Kind, Ahead,
     ExecutedWasSent, Whole, Gone, Understood, AnswersDelimited
<1> QED  BY <1>2, <1>3, <1>4 DEF Next

\* The connection holds the rest of one message and whole messages behind it; requests that
\* have been executed precede those to come.
THEOREM FramingInvariant == Spec => [](IInv /\ AnswersDelimited)
BY InitIInv, StepIInv, PTL DEF Spec

\* However TCP cuts what the clients send: what create_request and get_field make of a chunk is
\* a request that was sent, in the order sent and once, with its own fields or without them:
\* ExecutedWasSent in the run.
THEOREM ExecutedWasSentAlways == Spec => []ExecutedWasSent
<1>1. IInv => ExecutedWasSent  BY DEF IInv
<1> QED  BY <1>1, FramingInvariant, PTL

\* As long as every chunk is one message, create_request finds every request with its fields,
\* and InterleavedFrame::parse every packet: UnderstoodIfWhole in the run.
THEOREM UnderstoodIfWholeAlways == Spec => []UnderstoodIfWhole
<1>1. IInv => UnderstoodIfWhole  BY DEF IInv, Whole, Gone, UnderstoodIfWhole
<1> QED  BY <1>1, FramingInvariant, PTL

\* send_response and fill_response end every answer but the refusal of a SETUP, whatever
\* requests come: AnswersDelimited in the run.
THEOREM AnswersAlwaysDelimited == Spec => []AnswersDelimited
BY FramingInvariant, PTL
=============================================================================
