------------------------- MODULE EventStreamProofs -------------------------
(* Proofs about EventStream for any events, payloads, buffer and connection  *)
(* sizes, and any number of frames.                                          *)
EXTENDS EventStream, SequenceTheorems, WellFoundedInduction, TLAPS

-----------------------------------------------------------------------------
(* The inductive invariant.  All that the writer has written is a sequence S  *)
(* of pieces; the i-th event begins behind start[i], and the reader has taken *)
(* pos pieces.  What lies in the scanner's buffer, on the wire and unsent is  *)
(* the rest of S, or the beginning of it once the connection has gone.        *)

Pieces == Marks \cup Kinds \cup Parts

\* The pieces of an event's data, and of its frame.
Width(e) == Len(e.data)
Size(e) == IF reader = "Events" THEN 6 + Width(e) ELSE 3 + Width(e)

\* S has the frame of e behind s.
Holds(S, s, e) ==
  IF reader = "Events"
  THEN /\ S[s + 1] = "event:"
       /\ S[s + 2] = e.kind
       /\ S[s + 3] = NL
       /\ S[s + 4] = "data:"
       /\ \A j \in 1..Width(e) : S[s + (4 + j)] = e.data[j]
       /\ S[s + (5 + Width(e))] = NL
       /\ S[s + (6 + Width(e))] = NL
  ELSE /\ S[s + 1] = e.kind
       /\ \A j \in 1..Width(e) : S[s + (1 + j)] = e.data[j]
       /\ S[s + (2 + Width(e))] = "}"
       /\ S[s + (3 + Width(e))] = NL

\* Position p belongs to no event's frame.
Between(start, p) ==
  \A i \in 1..Len(sent) : p <= start[i] \/ start[i] + Size(sent[i]) < p

LineStart(S, p) == p = 0 \/ S[p] = NL

\* The frames lie in S in order, with nothing but pings between them.
Layout(S, start) ==
  /\ S \in Seq(Pieces)
  /\ start \in [1..Len(sent) -> Nat]
  /\ \A i \in 1..Len(sent) : /\ Holds(S, start[i], sent[i])
                             /\ LineStart(S, start[i])
                             /\ start[i] + Size(sent[i]) <= Len(S)
  /\ \A i, j \in 1..Len(sent) : i < j => start[i] + Size(sent[i]) <= start[j]
  /\ \A p \in 1..Len(S) :
       Between(start, p) => \/ S[p] = NL
                            \/ S[p] = ":" /\ p < Len(S) /\ S[p + 1] = NL
  /\ LineStart(S, Len(S))

\* The reader stands before a line: of the next frame, or between two frames.
Placed(S, start, pos) ==
  LET k == Len(delivered)
  IN  /\ pos \in 0..Len(S)
      /\ LineStart(S, pos)
      /\ \A i \in 1..k : start[i] + Size(sent[i]) <= pos
      /\ \/ /\ typ = NoType
            /\ data = <<>>
            /\ \A i \in 1..Len(sent) : i > k => pos <= start[i]
         \/ /\ reader = "Events"
            /\ k < Len(sent)
            /\ typ = sent[k + 1].kind
            /\ \/ data = <<>> /\ pos = start[k + 1] + 3
               \/ data = sent[k + 1].data /\ pos = start[k + 1] + (5 + Width(sent[k + 1]))

Whole == conn \in {"open", "ended"}

Pending(S, pos) ==
  /\ \A j \in 1..Len(buf) : buf[j] = S[pos + j]
  /\ \A j \in 1..Len(wire) : wire[j] = S[pos + Len(buf) + j]
  /\ \A j \in 1..Len(unsent) : unsent[j] = S[pos + Len(buf) + Len(wire) + j]
  /\ pos + Len(buf) + Len(wire) + Len(unsent) <= Len(S)
  /\ Whole => pos + Len(buf) + Len(wire) + Len(unsent) = Len(S)

\* The last line has been cut short, and has been handled.
Spent == atEnd /\ ~Whole /\ buf = <<>>

Shape ==
  /\ reader \in {"Events", "FollowLogs"}
  /\ buf \in Seq(Pieces) /\ wire \in Seq(Pieces) /\ unsent \in Seq(Pieces)
  /\ conn # "open" => unsent = <<>>
  /\ atEnd => wire = <<>> /\ conn # "open"
  /\ reader = "Events" => conn # "timedOut"

\* A prefix of the events, each whole.
Delivered ==
  /\ Len(delivered) <= Len(sent)
  /\ \A i \in 1..Len(delivered) : delivered[i] = sent[i]

Placement ==
  Running => Spent \/ \E S, start, pos : /\ Layout(S, start)
                                         /\ Placed(S, start, pos)
                                         /\ Pending(S, pos)

StreamInv == TypeOK /\ Shape /\ Delivered /\ Placement /\ TooLongIsOneLine

-----------------------------------------------------------------------------
(* Events, and the lines of their frames.                                    *)

LEMMA EventFacts ==
  ASSUME NEW e \in Events
  PROVE  /\ e.kind \in Kinds /\ e.kind \notin Marks /\ e.kind # NoType
         /\ e.data \in Seq(Parts) /\ Len(e.data) = Width(e)
         /\ Width(e) \in Nat /\ Width(e) >= 1
         /\ \A j \in 1..Width(e) : e.data[j] \in Parts /\ e.data[j] \notin Marks
<1>1. e.kind \in Kinds /\ e.data \in Payloads
  BY DEF Events
<1>2. e.kind \notin Marks /\ e.kind # NoType
  BY <1>1, StreamAssumption DEF StreamAssumption
<1>3. e.data \in Seq(Parts) /\ e.data # <<>>
  BY <1>1, StreamAssumption DEF StreamAssumption
<1>4. Len(e.data) = Width(e) /\ Width(e) \in Nat /\ Width(e) >= 1
  BY <1>3 DEF Width
<1>5. \A j \in 1..Width(e) : e.data[j] \in Parts
  BY <1>3 DEF Width
<1> QED
  BY <1>1, <1>2, <1>3, <1>4, <1>5 DEF Parts

LEMMA MarkFacts ==
  /\ NL # ":" /\ NL # "event:" /\ NL # "data:" /\ NL # "}"
  /\ NL \in Marks /\ ":" \in Marks /\ "event:" \in Marks /\ "data:" \in Marks /\ "}" \in Marks
BY StreamAssumption DEF StreamAssumption, Marks

\* The line of m pieces behind pos is a ping's, or the blank one behind it.
PingLine(S, start, pos, m) ==
  /\ typ = NoType /\ data = <<>>
  /\ Len(delivered) < Len(sent) => pos < start[Len(delivered) + 1]
  /\ m \in {0, 1}
  /\ m = 1 => S[pos + 1] = ":"

\* The first line of the next frame, or a part of it.
FirstLine(S, start, pos, m) ==
  /\ typ = NoType /\ data = <<>>
  /\ Len(delivered) < Len(sent)
  /\ pos = start[Len(delivered) + 1]
  /\ m <= IF reader = "Events" THEN 2 ELSE 2 + Width(sent[Len(delivered) + 1])

\* The second line of an event.
DataLine(S, start, pos, m) ==
  /\ reader = "Events"
  /\ Len(delivered) < Len(sent)
  /\ typ = sent[Len(delivered) + 1].kind /\ data = <<>>
  /\ pos = start[Len(delivered) + 1] + 3
  /\ m <= 1 + Width(sent[Len(delivered) + 1])

\* The blank line that ends it.
LastLine(S, start, pos, m) ==
  /\ reader = "Events"
  /\ Len(delivered) < Len(sent)
  /\ typ = sent[Len(delivered) + 1].kind /\ data = sent[Len(delivered) + 1].data
  /\ pos = start[Len(delivered) + 1] + (5 + Width(sent[Len(delivered) + 1]))
  /\ m = 0

\* A line ends before the first newline.
LEMMA NoEndInside ==
  ASSUME NEW S, NEW pos \in Nat, NEW m \in Nat, \A j \in 1..m : S[pos + j] # NL,
         NEW n \in Nat \ {0}, S[pos + n] = NL
  PROVE  m < n
OBVIOUS

LEMMA LineCases ==
  ASSUME TypeOK, Delivered, NEW S \in Seq(Pieces), NEW start, NEW pos \in Nat,
         Layout(S, start), Placed(S, start, pos), NEW m \in Nat,
         pos + m <= Len(S), \A j \in 1..m : S[pos + j] # NL
  PROVE  \/ PingLine(S, start, pos, m)
         \/ FirstLine(S, start, pos, m)
         \/ DataLine(S, start, pos, m)
         \/ LastLine(S, start, pos, m)
<1> DEFINE k == Len(delivered)
<1>1. /\ k \in Nat /\ Len(sent) \in Nat /\ k <= Len(sent)
      /\ Len(S) \in Nat
      /\ \A i \in 1..Len(sent) : start[i] \in Nat /\ sent[i] \in Events
  <2>1. sent \in Seq(Events) /\ delivered \in Seq(Events)
    BY DEF TypeOK
  <2>2. start \in [1..Len(sent) -> Nat]
    BY DEF Layout
  <2>3. k \in Nat /\ Len(sent) \in Nat /\ \A i \in 1..Len(sent) : sent[i] \in Events
    BY <2>1
  <2>4. \A i \in 1..Len(sent) : start[i] \in Nat
    BY <2>2
  <2>5. k <= Len(sent)
    BY DEF Delivered
  <2> QED
    BY <2>3, <2>4, <2>5
<1>2. ASSUME NEW e \in Events, NEW s \in Nat, NEW w \in Nat, k < Len(sent),
             e = sent[k + 1], s = start[k + 1], w = Width(e)
      PROVE  /\ pos = s /\ typ = NoType /\ data = <<>> => FirstLine(S, start, pos, m)
             /\ /\ reader = "Events" /\ typ = e.kind
                /\ data = <<>> /\ pos = s + 3
                => DataLine(S, start, pos, m)
             /\ /\ reader = "Events" /\ typ = e.kind
                /\ data = e.data /\ pos = s + (5 + w)
                => LastLine(S, start, pos, m)
  <2>1. Holds(S, s, e)
    BY <1>1, <1>2 DEF Layout
  <2>2. ASSUME pos = s, reader = "Events" PROVE m <= 2
    <3>1. S[pos + 3] = NL
      BY <2>1, <2>2 DEF Holds
    <3> QED
      BY <3>1, NoEndInside
  <2>3. ASSUME pos = s, reader # "Events" PROVE m <= 2 + w
    <3>1. S[pos + (3 + w)] = NL
      BY <1>2, <2>1, <2>3 DEF Holds
    <3> QED
      BY <3>1, NoEndInside
  <2>4. ASSUME pos = s + 3, reader = "Events" PROVE m <= 1 + w
    <3>1. S[s + (5 + w)] = NL
      BY <1>2, <2>1, <2>4 DEF Holds
    <3>2. s + (5 + w) = pos + (2 + w) /\ 2 + w \in Nat \ {0}
      BY <2>4
    <3>3. S[pos + (2 + w)] = NL
      BY <3>1, <3>2
    <3>4. m < 2 + w
      BY <3>2, <3>3, NoEndInside
    <3> QED
      BY <3>4
  <2>5. ASSUME pos = s + (5 + w), reader = "Events" PROVE m = 0
    <3>1. S[s + (6 + w)] = NL
      BY <1>2, <2>1, <2>5 DEF Holds
    <3>2. s + (6 + w) = pos + 1
      BY <2>5
    <3>3. S[pos + 1] = NL
      BY <3>1, <3>2
    <3>4. m < 1
      BY <3>3, NoEndInside
    <3> QED
      BY <3>4
  <2> QED
    BY <1>2, <2>2, <2>3, <2>4, <2>5 DEF FirstLine, DataLine, LastLine
<1>3. ASSUME typ = NoType, data = <<>>, \A i \in 1..Len(sent) : i > k => pos <= start[i],
             k < Len(sent) => pos < start[k + 1]
      PROVE  PingLine(S, start, pos, m)
  <2>1. CASE m = 0
    BY <1>3, <2>1 DEF PingLine
  <2>2. CASE m # 0
    <3>1. pos + 1 \in 1..Len(S) /\ S[pos + 1] # NL
      BY <1>1, <2>2
    <3>2. Between(start, pos + 1)
      <4> SUFFICES ASSUME NEW i \in 1..Len(sent)
                   PROVE  pos + 1 <= start[i] \/ start[i] + Size(sent[i]) < pos + 1
        BY DEF Between
      <4>1. CASE i <= k
        <5>1. start[i] + Size(sent[i]) <= pos
          BY <1>1, <4>1 DEF Placed
        <5>2. Size(sent[i]) \in Nat
          BY <1>1, EventFacts DEF Size
        <5> QED
          BY <1>1, <5>1, <5>2
      <4>2. CASE i = k + 1
        BY <1>1, <1>3, <4>2
      <4>3. CASE i > k + 1
        <5>1. start[k + 1] + Size(sent[k + 1]) <= start[i]
          BY <1>1, <4>3 DEF Layout
        <5>2. Size(sent[k + 1]) \in Nat
          BY <1>1, <4>3, EventFacts DEF Size
        <5> QED
          BY SMTT(30), <1>1, <1>3, <4>3, <5>1, <5>2
      <4> QED
        BY <1>1, <4>1, <4>2, <4>3
    <3>3. S[pos + 1] = ":" /\ S[pos + 2] = NL
      BY <1>1, <3>1, <3>2 DEF Layout
    <3>4. m = 1
      BY <1>1, <2>2, <3>3
    <3> QED
      BY <1>3, <3>3, <3>4 DEF PingLine
  <2> QED
    BY <2>1, <2>2
<1>4. CASE typ = NoType /\ data = <<>> /\ \A i \in 1..Len(sent) : i > k => pos <= start[i]
  <2>1. CASE k < Len(sent) /\ pos = start[k + 1]
    <3>1. k + 1 \in 1..Len(sent)
      BY <1>1, <2>1
    <3> QED
      BY <1>1, <1>2, <1>4, <2>1, <3>1, EventFacts
  <2>2. CASE k < Len(sent) => pos < start[k + 1]
    BY <1>3, <1>4, <2>2
  <2> QED
    BY <1>1, <1>4, <2>1, <2>2
<1>5. CASE /\ reader = "Events" /\ k < Len(sent) /\ typ = sent[k + 1].kind
           /\ \/ data = <<>> /\ pos = start[k + 1] + 3
              \/ data = sent[k + 1].data /\ pos = start[k + 1] + (5 + Width(sent[k + 1]))
  <2>1. k + 1 \in 1..Len(sent)
    BY <1>1, <1>5
  <2> QED
    BY <1>1, <1>2, <1>5, <2>1, EventFacts
<1> QED
  BY <1>4, <1>5 DEF Placed

\* What S holds at the place where the next event's frame is.
LEMMA NextFrame ==
  ASSUME TypeOK, NEW S, NEW start, NEW pos, Layout(S, start), Len(delivered) < Len(sent)
  PROVE  LET k == Len(delivered)
         IN  /\ k \in Nat /\ Len(sent) \in Nat /\ k + 1 \in 1..Len(sent)
             /\ sent[k + 1] \in Events /\ start[k + 1] \in Nat
             /\ Width(sent[k + 1]) \in Nat
             /\ Holds(S, start[k + 1], sent[k + 1])
             /\ LineStart(S, start[k + 1])
             /\ start[k + 1] + Size(sent[k + 1]) <= Len(S)
             /\ \A i \in 1..Len(sent) :
                  i > k + 1 => start[k + 1] + Size(sent[k + 1]) <= start[i]
<1> DEFINE k == Len(delivered)
<1>1. sent \in Seq(Events) /\ delivered \in Seq(Events)
  BY DEF TypeOK
<1>2. k \in Nat /\ Len(sent) \in Nat
  BY <1>1
<1> HIDE DEF k
<1>3. k + 1 \in 1..Len(sent)
  BY <1>2 DEF k
<1>4. sent[k + 1] \in Events /\ start[k + 1] \in Nat
  BY <1>1, <1>3 DEF Layout
<1>5. Width(sent[k + 1]) \in Nat
  BY <1>4, EventFacts
<1>6. \A i \in 1..Len(sent) : i > k + 1 => start[k + 1] + Size(sent[k + 1]) <= start[i]
  BY <1>3 DEF Layout
<1> QED
  BY <1>2, <1>3, <1>4, <1>5, <1>6 DEF Layout, k

\* A line has text before its end.
LEMMA EndOutside ==
  ASSUME NEW S, NEW pos \in Nat, NEW m \in Nat, S[pos + (m + 1)] = NL,
         NEW n \in Nat, m <= n, \A j \in 1..n : S[pos + j] # NL
  PROVE  m = n
<1> SUFFICES ASSUME m + 1 \in 1..n PROVE FALSE
  OBVIOUS
<1> QED
  OBVIOUS

\* One event more, or none.
Takes == \/ UNCHANGED delivered
         \/ /\ Len(delivered) < Len(sent)
            /\ delivered' = Append(delivered, sent[Len(delivered) + 1])

LEMMA TakesDelivers ==
  ASSUME TypeOK, Delivered, Takes, UNCHANGED sent
  PROVE  Delivered' /\ delivered' \in Seq(Events)
<1>1. sent \in Seq(Events) /\ delivered \in Seq(Events)
  BY DEF TypeOK
<1>2. CASE UNCHANGED delivered
  BY <1>1, <1>2 DEF Delivered
<1>3. CASE Len(delivered) < Len(sent) /\ delivered' = Append(delivered, sent[Len(delivered) + 1])
  <2>1. sent[Len(delivered) + 1] \in Events
    BY <1>1, <1>3
  <2>2. /\ Len(delivered') = Len(delivered) + 1 /\ delivered' \in Seq(Events)
        /\ \A i \in 1..Len(delivered) : delivered'[i] = delivered[i]
        /\ delivered'[Len(delivered) + 1] = sent[Len(delivered) + 1]
    BY <1>1, <1>3, <2>1
  <2>3. \A i \in 1..Len(delivered') : delivered'[i] = sent[i]
    BY <1>1, <2>2 DEF Delivered
  <2> QED
    BY <1>1, <1>3, <2>2, <2>3 DEF Delivered
<1> QED
  BY <1>2, <1>3 DEF Takes

-----------------------------------------------------------------------------
(* Handling a line.                                                          *)

\* line is what S holds behind pos, up to the next newline or not so far.
LineAt(S, pos, line) ==
  /\ line \in Seq(Pieces)
  /\ pos + Len(line) <= Len(S)
  /\ \A j \in 1..Len(line) : line[j] = S[pos + j] /\ S[pos + j] # NL

\* A ping changes nothing, and neither does a part of one.
LEMMA PingIsSkipped ==
  ASSUME NEW S, NEW start, NEW pos \in Nat, NEW line, LineAt(S, pos, line),
         PingLine(S, start, pos, Len(line)), HandleLine(line)
  PROVE  UNCHANGED <<typ, data, delivered>>
<1>1. line \in Seq(Pieces) /\ Len(line) \in {0, 1} /\ typ = NoType /\ data = <<>>
  BY DEF LineAt, PingLine
<1>2. CASE Len(line) = 0
  <2>1. line = <<>>
    BY <1>1, <1>2
  <2> QED
    BY <1>1, <2>1 DEF HandleLine, Blank, Field, Entry
<1>3. CASE Len(line) = 1
  <2>1. line # <<>> /\ line[1] = ":" /\ line[Len(line)] = ":"
    <3>1. line[1] = S[pos + 1]
      BY <1>3 DEF LineAt
    <3>2. S[pos + 1] = ":"
      BY <1>3 DEF PingLine
    <3>3. line # <<>>
      BY <1>3
    <3>4. line[Len(line)] = line[1]
      BY <1>3
    <3> QED
      BY <3>1, <3>2, <3>3, <3>4
  <2> QED
    BY <2>1 DEF HandleLine, Blank, Field, Entry, Starts
<1> QED
  BY <1>1, <1>2, <1>3

\* The first line of an event sets its type; cut short, it may set none.
LEMMA TypeIsRead ==
  ASSUME TypeOK, NEW S, NEW start, NEW pos \in Nat, Layout(S, start), NEW line,
         LineAt(S, pos, line), FirstLine(S, start, pos, Len(line)), reader = "Events",
         HandleLine(line)
  PROVE  /\ UNCHANGED <<data, delivered>>
         /\ typ' \in Kinds \cup {NoType}
         /\ S[pos + (Len(line) + 1)] = NL =>
              Len(line) = 2 /\ typ' = sent[Len(delivered) + 1].kind
<1>1. PICK e \in Events : e = sent[Len(delivered) + 1] /\ Holds(S, pos, e)
  BY NextFrame DEF FirstLine
<1>2. S[pos + 1] = "event:" /\ S[pos + 2] = e.kind /\ e.kind \in Kinds /\ e.kind # NL
  BY <1>1, EventFacts, MarkFacts DEF Holds
<1>3. line \in Seq(Pieces) /\ Len(line) \in Nat /\ Len(line) <= 2 /\ typ = NoType
  BY DEF LineAt, FirstLine
<1>4. /\ Len(line) >= 1 => line[1] = "event:"
      /\ Len(line) = 2 => line[2] = e.kind
  BY <1>2, <1>3 DEF LineAt
<1>5. CASE Len(line) = 0
  <2>1. line = <<>>
    BY <1>3, <1>5
  <2>2. S[pos + 1] # NL
    BY <1>2, MarkFacts
  <2> QED
    BY <1>3, <1>5, <2>1, <2>2 DEF HandleLine, Blank, Field, FirstLine
<1>6. CASE Len(line) = 1
  <2>1. line # <<>> /\ line[1] = "event:"
    BY <1>4, <1>6
  <2>2. S[pos + (Len(line) + 1)] # NL
    BY <1>2, <1>6
  <2> QED
    BY <1>6, <2>1, <2>2 DEF HandleLine, Blank, Field, Starts
<1>7. CASE Len(line) = 2
  <2>1. line # <<>> /\ line[1] = "event:" /\ line[2] = e.kind
    BY <1>4, <1>7
  <2> QED
    BY <1>1, <1>2, <1>7, <2>1 DEF HandleLine, Blank, Field, Starts
<1>8. Len(line) \in {0, 1, 2}
  <2>1. \A n \in Nat : n <= 2 => n \in {0, 1, 2}
    OBVIOUS
  <2> QED
    BY <1>3, <2>1, Zenon
<1> QED
  BY <1>5, <1>6, <1>7, <1>8, Zenon

\* The second line has the data.
LEMMA DataIsRead ==
  ASSUME TypeOK, NEW S, NEW start, NEW pos \in Nat, Layout(S, start), NEW line,
         LineAt(S, pos, line), DataLine(S, start, pos, Len(line)), HandleLine(line)
  PROVE  /\ UNCHANGED <<typ, delivered>> \/ line = <<>>
         /\ S[pos + (Len(line) + 1)] = NL =>
              /\ UNCHANGED <<typ, delivered>>
              /\ Len(line) = 1 + Width(sent[Len(delivered) + 1])
              /\ data' = sent[Len(delivered) + 1].data
<1>1. PICK e \in Events, s \in Nat, w \in Nat :
        /\ e = sent[Len(delivered) + 1] /\ s = start[Len(delivered) + 1] /\ w = Width(e)
        /\ Holds(S, s, e)
  BY NextFrame DEF DataLine
<1>2. reader = "Events" /\ pos = s + 3 /\ data = <<>> /\ Len(line) <= 1 + w
  BY <1>1 DEF DataLine
<1>3. S[pos + 1] = "data:"
  <2>1. S[s + 4] = "data:" /\ s + 4 = pos + 1
    BY <1>1, <1>2 DEF Holds
  <2> QED
    BY <2>1
<1>4. /\ e.data \in Seq(Parts) /\ Len(e.data) = w
      /\ \A j \in 1..w : e.data[j] # NL
  BY <1>1, EventFacts, MarkFacts
<1>5. \A j \in 1..w : S[pos + (1 + j)] = e.data[j]
  <2> TAKE j \in 1..w
  <2>1. S[s + (4 + j)] = e.data[j]
    BY <1>1, <1>2 DEF Holds, Width
  <2>2. s + (4 + j) = pos + (1 + j)
    BY <1>2
  <2> QED
    BY <2>1, <2>2
<1>6. line \in Seq(Pieces) /\ Len(line) \in Nat
  BY DEF LineAt
<1>7. CASE line = <<>>
  <2>1. S[pos + 1] # NL
    BY <1>3, MarkFacts
  <2> QED
    BY <1>7, <2>1
<1>8. CASE line # <<>>
  <2>1. Len(line) >= 1 /\ line[1] = "data:"
    BY <1>3, <1>6, <1>8 DEF LineAt
  <2>2. UNCHANGED <<typ, delivered>> /\ data' = <<>> \o Tail(line)
    BY <1>2, <1>8, <2>1 DEF HandleLine, Blank, Field, Starts
  <2>3. ASSUME S[pos + (Len(line) + 1)] = NL
        PROVE  Len(line) = 1 + w /\ data' = e.data
    <3>1. \A j \in 1..(1 + w) : S[pos + j] # NL
      <4> TAKE j \in 1..(1 + w)
      <4>1. CASE j = 1
        BY <1>3, <4>1, MarkFacts
      <4>2. CASE j # 1
        <5>1. j - 1 \in 1..w /\ 1 + (j - 1) = j
          BY <4>2
        <5> QED
          BY <1>4, <1>5, <5>1
      <4> QED
        BY <4>1, <4>2
    <3>2. Len(line) = 1 + w
      <4>1. 1 + w \in Nat
        OBVIOUS
      <4> QED
        BY <1>2, <1>6, <2>3, <3>1, <4>1, EndOutside, Zenon
    <3>3. Tail(line) \in Seq(Pieces) /\ Len(Tail(line)) = w
          /\ \A j \in 1..w : Tail(line)[j] = line[j + 1]
      BY <1>6, <1>8, <3>2
    <3>4. \A j \in 1..w : Tail(line)[j] = e.data[j]
      <4> TAKE j \in 1..w
      <4>1. j + 1 \in 1..Len(line) /\ 1 + j = j + 1
        BY <3>2
      <4>2. line[j + 1] = S[pos + (j + 1)]
        BY <4>1 DEF LineAt
      <4>3. S[pos + (j + 1)] = e.data[j]
        BY <1>5, <4>1
      <4> QED
        BY <3>3, <4>2, <4>3
    <3>5. e.data \in Seq(Pieces)
      BY <1>4 DEF Pieces
    <3>6. Tail(line) = e.data
      BY <1>4, <3>3, <3>4, <3>5, SeqEqual
    <3> QED
      BY <2>2, <3>2, <3>3, <3>6
  <2> QED
    BY <1>1, <2>2, <2>3
<1> QED
  BY <1>7, <1>8

\* The blank line hands the event over.
LEMMA EventIsHandedOver ==
  ASSUME TypeOK, NEW S, NEW start, NEW pos \in Nat, Layout(S, start), NEW line,
         LineAt(S, pos, line), LastLine(S, start, pos, Len(line)), HandleLine(line)
  PROVE  /\ line = <<>>
         /\ typ' = NoType /\ data' = <<>>
         /\ delivered' = Append(delivered, sent[Len(delivered) + 1])
<1>1. PICK e \in Events : e = sent[Len(delivered) + 1]
  BY NextFrame DEF LastLine
<1>2. reader = "Events" /\ typ = e.kind /\ data = e.data
  BY <1>1 DEF LastLine
<1>3. line = <<>>
  BY DEF LineAt, LastLine
<1>4. typ # NoType
  BY <1>1, <1>2, EventFacts
<1>5. e = [kind |-> e.kind, data |-> e.data]
  BY DEF Events
<1>6. typ' = NoType /\ data' = <<>> /\ delivered' = Append(delivered, [kind |-> typ, data |-> data])
  BY <1>2, <1>3, <1>4 DEF HandleLine, Blank, Field
<1> QED
  BY <1>1, <1>2, <1>3, <1>5, <1>6

\* An entry of the log is handed over whole, or not at all; when it is whole,
\* only its newline may be missing.
LEMMA EntryIsRead ==
  ASSUME TypeOK, NEW S, NEW start, NEW pos \in Nat, Layout(S, start), NEW line,
         LineAt(S, pos, line), FirstLine(S, start, pos, Len(line)), reader # "Events",
         HandleLine(line)
  PROVE  /\ UNCHANGED <<typ, data>>
         /\ Takes
         /\ S[pos + (Len(line) + 1)] = NL =>
              /\ Len(line) = 2 + Width(sent[Len(delivered) + 1])
              /\ delivered' = Append(delivered, sent[Len(delivered) + 1])
<1>1. PICK e \in Events, w \in Nat :
        e = sent[Len(delivered) + 1] /\ w = Width(e) /\ Holds(S, pos, e)
  BY NextFrame DEF FirstLine
<1>2. line \in Seq(Pieces) /\ Len(line) \in Nat /\ Len(line) <= 2 + w
  BY <1>1 DEF LineAt, FirstLine
<1>3. /\ S[pos + 1] = e.kind
      /\ \A j \in 1..w : S[pos + (1 + j)] = e.data[j]
      /\ S[pos + (2 + w)] = "}"
  BY <1>1 DEF Holds
<1>4. /\ e.kind \notin Marks
      /\ e.data \in Seq(Parts) /\ Len(e.data) = w
      /\ \A j \in 1..w : e.data[j] \notin Marks
      /\ e = [kind |-> e.kind, data |-> e.data]
  BY <1>1, EventFacts DEF Events
<1>5. \A j \in 1..(1 + w) : S[pos + j] \notin Marks
  <2> TAKE j \in 1..(1 + w)
  <2>1. CASE j = 1
    BY <1>3, <1>4, <2>1
  <2>2. CASE j # 1
    <3>1. j - 1 \in 1..w /\ 1 + (j - 1) = j
      BY <2>2
    <3>2. S[pos + (1 + (j - 1))] = e.data[j - 1] /\ e.data[j - 1] \notin Marks
      BY <1>3, <1>4, <3>1
    <3> QED
      BY <3>1, <3>2
  <2> QED
    BY <2>1, <2>2
<1>6. /\ UNCHANGED <<typ, data>>
      /\ delivered' = IF line # <<>> /\ line[Len(line)] = "}"
                      THEN Append(delivered, [kind |-> line[1],
                                              data |-> SubSeq(line, 2, Len(line) - 1)])
                      ELSE delivered
  BY DEF HandleLine, Entry
<1>7. ASSUME Len(line) = 2 + w
      PROVE  delivered' = Append(delivered, e)
  <2>1. /\ \A j \in 1..(2 + w) : line[j] = S[pos + j]
        /\ line # <<>>
    BY <1>2, <1>7 DEF LineAt
  <2>2. line[Len(line)] = "}" /\ line[1] = e.kind
    <3>1. line[2 + w] = S[pos + (2 + w)] /\ line[1] = S[pos + 1]
      BY <2>1
    <3> QED
      BY <1>3, <1>7, <3>1
  <2> DEFINE part == SubSeq(line, 2, Len(line) - 1)
  <2>3. part \in Seq(Pieces) /\ Len(part) = w /\ \A j \in 1..w : part[j] = line[j + 1]
    BY <1>2, <1>7
  <2>4. \A j \in 1..w : part[j] = e.data[j]
    <3> TAKE j \in 1..w
    <3>1. j + 1 \in 1..(2 + w) /\ 1 + j = j + 1
      OBVIOUS
    <3>2. line[j + 1] = S[pos + (j + 1)]
      BY <2>1, <3>1
    <3>3. S[pos + (j + 1)] = e.data[j]
      BY <1>3, <3>1
    <3> QED
      BY <2>3, <3>2, <3>3
  <2>5. e.data \in Seq(Pieces)
    BY <1>4 DEF Pieces
  <2>6. part = e.data
    <3> HIDE DEF part
    <3> QED
      BY <1>4, <2>3, <2>4, <2>5, SeqEqual
  <2> QED
    BY <1>4, <1>6, <2>1, <2>2, <2>6
<1>8. ASSUME Len(line) # 2 + w
      PROVE  delivered' = delivered /\ S[pos + (Len(line) + 1)] # NL
  <2>1. Len(line) + 1 \in 1..(2 + w)
    BY <1>2, <1>8
  <2>2. S[pos + (Len(line) + 1)] # NL
    <3>1. CASE Len(line) + 1 = 2 + w
      BY <1>3, <3>1, MarkFacts
    <3>2. CASE Len(line) + 1 \in 1..(1 + w)
      BY <1>5, <3>2, MarkFacts
    <3> QED
      BY <2>1, <3>1, <3>2
  <2>3. line # <<>> => line[Len(line)] # "}"
    <3> SUFFICES ASSUME line # <<>> PROVE line[Len(line)] # "}"
      OBVIOUS
    <3>1. Len(line) \in 1..(1 + w) /\ Len(line) \in 1..Len(line)
      BY <1>2, <1>8
    <3>2. line[Len(line)] = S[pos + Len(line)]
      BY <3>1 DEF LineAt
    <3> QED
      BY <1>5, <3>1, <3>2, MarkFacts
  <2> QED
    BY <1>6, <2>2, <2>3
<1> QED
  BY <1>1, <1>6, <1>7, <1>8 DEF Takes, FirstLine

-----------------------------------------------------------------------------
(* From one line to the next.                                                *)

LEMMA EndsAreNat ==
  ASSUME TypeOK, Delivered, NEW S, NEW start, Layout(S, start)
  PROVE  /\ Len(delivered) \in Nat /\ Len(sent) \in Nat /\ Len(delivered) <= Len(sent)
         /\ \A i \in 1..Len(sent) :
              start[i] \in Nat /\ Size(sent[i]) \in Nat /\ start[i] + Size(sent[i]) \in Nat
<1>1. sent \in Seq(Events) /\ delivered \in Seq(Events)
  BY DEF TypeOK
<1>2. Len(delivered) \in Nat /\ Len(sent) \in Nat
  BY <1>1
<1>3. Len(delivered) <= Len(sent)
  BY DEF Delivered
<1>4. ASSUME NEW i \in 1..Len(sent)
      PROVE  start[i] \in Nat /\ Size(sent[i]) \in Nat
  <2>1. sent[i] \in Events
    BY <1>1
  <2>2. Width(sent[i]) \in Nat
    BY <2>1, EventFacts
  <2> QED
    BY <2>2 DEF Layout, Size
<1> QED
  BY <1>2, <1>3, <1>4

LEMMA LayoutStays ==
  ASSUME NEW S, NEW start, Layout(S, start), UNCHANGED <<reader, sent>>
  PROVE  Layout(S, start)'
BY ZenonT(40) DEF Layout, Holds, Size, Width, Between, LineStart

\* Between two frames, the reader gets to the next one and not into it.
LEMMA PingPlaced ==
  ASSUME TypeOK, Delivered, NEW S \in Seq(Pieces), NEW start, NEW pos \in Nat,
         Layout(S, start), Placed(S, start, pos), NEW m \in Nat, \A j \in 1..m : S[pos + j] # NL,
         NEW next \in Nat, next = pos + (m + 1), next <= Len(S), S[next] = NL,
         PingLine(S, start, pos, m),
         UNCHANGED <<reader, sent, typ, data, delivered>>
  PROVE  Placed(S, start, next)'
<1> DEFINE k == Len(delivered)
<1>1. ASSUME k < Len(sent)
      PROVE  next <= start[k + 1]
  <2>1. PICK s \in Nat : s = start[k + 1] /\ LineStart(S, s) /\ pos < s
    BY <1>1, NextFrame DEF PingLine
  <2>2. S[s] = NL
    BY <2>1 DEF LineStart
  <2>3. SUFFICES ASSUME s < next PROVE FALSE
    BY <2>1
  <2>4. s - pos \in 1..m /\ pos + (s - pos) = s
    BY <2>1, <2>3
  <2> QED
    BY <2>2, <2>4
<1>2. ASSUME NEW i \in 1..Len(sent), i > k
      PROVE  next <= start[i]
  <2>1. k < Len(sent)
    <3>1. k \in Nat /\ Len(sent) \in Nat
      BY DEF TypeOK
    <3> QED
      BY <1>2, <3>1
  <2>2. PICK s \in Nat, z \in Nat :
          /\ s = start[k + 1] /\ z = Size(sent[k + 1]) /\ k \in Nat
          /\ i > k + 1 => s + z <= start[i]
    <3>1. Size(sent[k + 1]) \in Nat
      BY SMTT(30), <2>1, NextFrame DEF Size
    <3> QED
      BY <2>1, <3>1, NextFrame
  <2>3. next <= s
    BY <1>1, <2>1, <2>2
  <2>4. start[i] \in Nat
    BY DEF Layout
  <2>5. CASE i = k + 1
    BY <2>2, <2>3, <2>5
  <2>6. CASE i > k + 1
    BY SMTT(30), <2>2, <2>3, <2>4, <2>6
  <2> QED
    BY <1>2, <2>2, <2>5, <2>6
<1>3. \A i \in 1..k : start[i] + Size(sent[i]) <= next
  <2> TAKE i \in 1..k
  <2>1. start[i] + Size(sent[i]) <= pos
    BY DEF Placed
  <2>2. start[i] + Size(sent[i]) \in Nat
    BY EndsAreNat
  <2>3. \A n \in Nat : n <= pos => n <= next
    OBVIOUS
  <2> QED
    BY <2>1, <2>2, <2>3
<1> QED
  BY <1>2, <1>3 DEF Placed, PingLine, LineStart, Size, Width

\* Within a frame.
LEMMA InsidePlaced ==
  ASSUME TypeOK, Delivered, NEW S \in Seq(Pieces), NEW start, NEW pos \in Nat,
         Layout(S, start), Placed(S, start, pos), Len(delivered) < Len(sent), reader = "Events",
         NEW next \in Nat, pos <= next, next <= Len(S), S[next] = NL,
         typ' = sent[Len(delivered) + 1].kind,
         \/ data' = <<>> /\ next = start[Len(delivered) + 1] + 3
         \/ /\ data' = sent[Len(delivered) + 1].data
            /\ next = start[Len(delivered) + 1] + (5 + Width(sent[Len(delivered) + 1])),
         UNCHANGED <<reader, sent, delivered>>
  PROVE  Placed(S, start, next)'
<1>1. \A i \in 1..Len(delivered) : start[i] + Size(sent[i]) <= next
  <2> TAKE i \in 1..Len(delivered)
  <2>1. start[i] + Size(sent[i]) <= pos
    BY DEF Placed
  <2>2. start[i] + Size(sent[i]) \in Nat
    BY EndsAreNat
  <2>3. \A n \in Nat : n <= pos => n <= next
    OBVIOUS
  <2> QED
    BY <2>1, <2>2, <2>3
<1>2. next \in 0..Len(S) /\ LineStart(S, next)
  BY DEF LineStart
<1> QED
  BY <1>1, <1>2 DEF Placed, LineStart, Size, Width

\* Behind the frame that has been read.
LEMMA BehindPlaced ==
  ASSUME TypeOK, Delivered, NEW S \in Seq(Pieces), NEW start, NEW pos \in Nat,
         Layout(S, start), Placed(S, start, pos), Len(delivered) < Len(sent),
         NEW next \in Nat, pos <= next, next <= Len(S), S[next] = NL,
         next = start[Len(delivered) + 1] + Size(sent[Len(delivered) + 1]),
         delivered' = Append(delivered, sent[Len(delivered) + 1]),
         typ' = NoType, data' = <<>>, UNCHANGED <<reader, sent>>
  PROVE  Placed(S, start, next)'
<1> DEFINE k == Len(delivered)
<1>0. k \in Nat /\ Len(delivered') = k + 1 /\ Len(sent) \in Nat
  BY DEF TypeOK
<1>1. \A i \in 1..(k + 1) : start[i] + Size(sent[i]) <= next
  <2> TAKE i \in 1..(k + 1)
  <2>1. CASE i = k + 1
    BY <2>1
  <2>2. CASE i # k + 1
    <3>1. i \in 1..k
      BY <1>0, <2>2
    <3>2. start[i] + Size(sent[i]) <= pos
      BY <3>1 DEF Placed
    <3>3. start[i] + Size(sent[i]) \in Nat
      BY <3>1, EndsAreNat
    <3>4. \A n \in Nat : n <= pos => n <= next
      OBVIOUS
    <3> QED
      BY <3>2, <3>3, <3>4
  <2> QED
    BY <2>1, <2>2
<1>2. \A i \in 1..Len(sent) : i > k + 1 => next <= start[i]
  BY NextFrame
<1>3. next \in 0..Len(S) /\ LineStart(S, next)
  BY DEF LineStart
<1> HIDE DEF k
<1>4. Len(delivered') = k + 1
  BY <1>0
<1> QED
  BY <1>1, <1>2, <1>3, <1>4 DEF Placed, LineStart, Size, Width

\* A whole line leads to the next one, and to one event more at most.
LEMMA LineStep ==
  ASSUME TypeOK, Delivered, NEW S \in Seq(Pieces), NEW start, NEW pos \in Nat,
         Layout(S, start), Placed(S, start, pos), NEW line, LineAt(S, pos, line),
         NEW next \in Nat, next = pos + (Len(line) + 1), next <= Len(S), S[next] = NL,
         HandleLine(line), UNCHANGED <<reader, sent>>
  PROVE  Takes /\ typ' \in Kinds \cup {NoType} /\ Placed(S, start, next)'
<1>1. PICK m \in Nat : m = Len(line) /\ next = pos + (m + 1)
  BY DEF LineAt
<1>2. /\ pos + m <= Len(S) /\ \A j \in 1..m : S[pos + j] # NL
      /\ S[pos + (m + 1)] = NL /\ pos <= next
      /\ typ \in Kinds \cup {NoType}
  <2>1. pos + m <= Len(S) /\ \A j \in 1..m : S[pos + j] # NL
    BY <1>1 DEF LineAt
  <2>2. S[pos + (m + 1)] = NL /\ pos <= next
    BY <1>1
  <2>3. typ \in Kinds \cup {NoType}
    BY DEF TypeOK
  <2> QED
    BY <2>1, <2>2, <2>3
<1>3. CASE PingLine(S, start, pos, m)
  <2>1. UNCHANGED <<typ, data, delivered>>
    BY <1>1, <1>3, PingIsSkipped
  <2> QED
    BY <1>1, <1>2, <1>3, <2>1, PingPlaced DEF Takes
<1>4. CASE FirstLine(S, start, pos, m) /\ reader = "Events"
  <2>1. /\ UNCHANGED <<data, delivered>> /\ m = 2
        /\ typ' = sent[Len(delivered) + 1].kind /\ typ' \in Kinds \cup {NoType}
    BY <1>1, <1>2, <1>4, TypeIsRead
  <2>2. /\ Len(delivered) < Len(sent) /\ pos = start[Len(delivered) + 1] /\ data = <<>>
    BY <1>4 DEF FirstLine
  <2>3. next = start[Len(delivered) + 1] + 3
    BY <1>1, <2>1, <2>2
  <2> QED
    BY <1>2, <1>4, <2>1, <2>2, <2>3, InsidePlaced DEF Takes
<1>5. CASE FirstLine(S, start, pos, m) /\ reader # "Events"
  <2>1. /\ UNCHANGED <<typ, data>> /\ Takes
        /\ m = 2 + Width(sent[Len(delivered) + 1])
        /\ delivered' = Append(delivered, sent[Len(delivered) + 1])
    BY <1>1, <1>2, <1>5, EntryIsRead
  <2>2. /\ Len(delivered) < Len(sent) /\ pos = start[Len(delivered) + 1]
        /\ typ = NoType /\ data = <<>>
    BY <1>5 DEF FirstLine
  <2>3. next = start[Len(delivered) + 1] + Size(sent[Len(delivered) + 1])
    <3>1. PICK w \in Nat : w = Width(sent[Len(delivered) + 1])
      BY <2>2, NextFrame
    <3>2. Size(sent[Len(delivered) + 1]) = 3 + w
      BY <1>5, <3>1 DEF Size
    <3>3. next = pos + ((2 + w) + 1)
      BY <1>1, <2>1, <3>1
    <3>4. next = pos + (3 + w)
      BY <3>3
    <3> QED
      BY <2>2, <3>2, <3>4
  <2> QED
    BY <1>2, <2>1, <2>2, <2>3, BehindPlaced
<1>6. CASE DataLine(S, start, pos, m)
  <2>1. /\ UNCHANGED <<typ, delivered>>
        /\ m = 1 + Width(sent[Len(delivered) + 1])
        /\ data' = sent[Len(delivered) + 1].data
    BY <1>1, <1>2, <1>6, DataIsRead
  <2>2. /\ Len(delivered) < Len(sent) /\ pos = start[Len(delivered) + 1] + 3
        /\ typ = sent[Len(delivered) + 1].kind /\ reader = "Events"
    BY <1>6 DEF DataLine
  <2>3. next = start[Len(delivered) + 1] + (5 + Width(sent[Len(delivered) + 1]))
    <3>1. PICK w \in Nat, s \in Nat :
            w = Width(sent[Len(delivered) + 1]) /\ s = start[Len(delivered) + 1]
      BY <2>2, NextFrame
    <3>2. next = (s + 3) + ((1 + w) + 1)
      BY <1>1, <2>1, <2>2, <3>1
    <3>3. next = s + (5 + w)
      BY <3>2
    <3> QED
      BY <3>1, <3>3
  <2> QED
    BY <1>2, <2>1, <2>2, <2>3, InsidePlaced DEF Takes
<1>7. CASE LastLine(S, start, pos, m)
  <2>1. /\ m = 0 /\ typ' = NoType /\ data' = <<>>
        /\ delivered' = Append(delivered, sent[Len(delivered) + 1])
    BY <1>1, <1>7, EventIsHandedOver DEF LastLine
  <2>2. /\ Len(delivered) < Len(sent) /\ reader = "Events"
        /\ pos = start[Len(delivered) + 1] + (5 + Width(sent[Len(delivered) + 1]))
    BY <1>7 DEF LastLine
  <2>3. next = start[Len(delivered) + 1] + Size(sent[Len(delivered) + 1])
    <3>1. PICK w \in Nat, s \in Nat :
            w = Width(sent[Len(delivered) + 1]) /\ s = start[Len(delivered) + 1]
      BY <2>2, NextFrame
    <3>2. Size(sent[Len(delivered) + 1]) = 6 + w
      BY <2>2, <3>1 DEF Size
    <3>3. next = (s + (5 + w)) + 1
      BY <1>1, <2>1, <2>2, <3>1
    <3>4. next = s + (6 + w)
      BY <3>3
    <3> QED
      BY <3>1, <3>2, <3>4
  <2> QED
    BY <1>2, <2>1, <2>2, <2>3, BehindPlaced DEF Takes
<1> QED
  BY <1>2, <1>3, <1>4, <1>5, <1>6, <1>7, LineCases

-----------------------------------------------------------------------------
(* Writing a frame.                                                          *)

\* What a concatenation holds.
LEMMA CatFacts ==
  ASSUME NEW a \in Seq(Pieces), NEW b \in Seq(Pieces)
  PROVE  /\ a \o b \in Seq(Pieces) /\ Len(a \o b) = Len(a) + Len(b)
         /\ \A j \in 1..Len(a) : (a \o b)[j] = a[j]
         /\ \A j \in 1..Len(b) : (a \o b)[Len(a) + j] = b[j]
OBVIOUS

\* The two kinds of frame, with the pieces named.
EventOf(a, k, n, c, d) == (<<a, k, n, c>> \o d) \o <<n, n>>
EntryOf(k, c, n, d) == (<<k>> \o d) \o <<c, n>>

LEMMA EventFrame ==
  ASSUME NEW a \in Pieces, NEW k \in Pieces, NEW n \in Pieces, NEW c \in Pieces,
         NEW d \in Seq(Pieces)
  PROVE  LET w == Len(d)
             F == EventOf(a, k, n, c, d)
         IN  /\ F \in Seq(Pieces) /\ Len(F) = 6 + w
             /\ F[1] = a /\ F[2] = k /\ F[3] = n /\ F[4] = c
             /\ \A j \in 1..w : F[4 + j] = d[j]
             /\ F[5 + w] = n /\ F[6 + w] = n
<1> DEFINE w == Len(d)
           F == EventOf(a, k, n, c, d)
           A == <<a, k, n, c>>
           B == <<n, n>>
           C == A \o d
<1>0. w \in Nat /\ w = Len(d)
  OBVIOUS
<1> HIDE DEF w
<1>1. A \in Seq(Pieces) /\ Len(A) = 4 /\ A[1] = a /\ A[2] = k /\ A[3] = n /\ A[4] = c
  OBVIOUS
<1>2. B \in Seq(Pieces) /\ Len(B) = 2 /\ B[1] = n /\ B[2] = n
  OBVIOUS
<1>3. F = C \o B
  BY DEF EventOf
<1> HIDE DEF A, B
<1>4. /\ C \in Seq(Pieces) /\ Len(C) = 4 + w
      /\ \A j \in 1..4 : C[j] = A[j]
      /\ \A j \in 1..w : C[4 + j] = d[j]
  <2>1. /\ A \o d \in Seq(Pieces) /\ Len(A \o d) = Len(A) + Len(d)
        /\ \A j \in 1..Len(A) : (A \o d)[j] = A[j]
        /\ \A j \in 1..Len(d) : (A \o d)[Len(A) + j] = d[j]
    BY <1>1, CatFacts
  <2> QED
    BY <1>0, <1>1, <2>1
<1> HIDE DEF C
<1>5. PICK u \in Nat : u = 4 + w
  BY <1>0
<1> HIDE DEF F
<1>6. /\ F \in Seq(Pieces) /\ Len(F) = u + 2
      /\ \A j \in 1..u : F[j] = C[j]
      /\ \A j \in 1..2 : F[u + j] = B[j]
  <2>1. /\ C \o B \in Seq(Pieces) /\ Len(C \o B) = Len(C) + Len(B)
        /\ \A j \in 1..Len(C) : (C \o B)[j] = C[j]
        /\ \A j \in 1..Len(B) : (C \o B)[Len(C) + j] = B[j]
    BY <1>2, <1>4, CatFacts
  <2> QED
    BY <1>2, <1>3, <1>4, <1>5, <2>1
<1>7. \A j \in 1..4 : F[j] = A[j]
  BY <1>0, <1>4, <1>5, <1>6
<1>8. \A j \in 1..w : F[4 + j] = d[j]
  <2> TAKE j \in 1..w
  <2>1. 4 + j \in 1..u
    BY <1>0, <1>5
  <2> QED
    BY <1>4, <1>6, <2>1
<1>9. F[u + 1] = n /\ F[u + 2] = n
  BY <1>2, <1>6
<1>10. u + 1 = 5 + w /\ u + 2 = 6 + w
  BY <1>0, <1>5
<1>11. F[1] = a /\ F[2] = k /\ F[3] = n /\ F[4] = c
  BY <1>1, <1>7
<1> QED
  BY <1>6, <1>8, <1>9, <1>10, <1>11 DEF F, w

LEMMA EntryFrame ==
  ASSUME NEW k \in Pieces, NEW c \in Pieces, NEW n \in Pieces,
         NEW d \in Seq(Pieces)
  PROVE  LET w == Len(d)
             F == EntryOf(k, c, n, d)
         IN  /\ F \in Seq(Pieces) /\ Len(F) = 3 + w
             /\ F[1] = k
             /\ \A j \in 1..w : F[1 + j] = d[j]
             /\ F[2 + w] = c /\ F[3 + w] = n
<1> DEFINE w == Len(d)
           F == EntryOf(k, c, n, d)
           A == <<k>>
           B == <<c, n>>
           C == A \o d
<1>0. w \in Nat /\ w = Len(d)
  OBVIOUS
<1> HIDE DEF w
<1>1. A \in Seq(Pieces) /\ Len(A) = 1 /\ A[1] = k
  OBVIOUS
<1>2. B \in Seq(Pieces) /\ Len(B) = 2 /\ B[1] = c /\ B[2] = n
  OBVIOUS
<1>3. F = C \o B
  BY DEF EntryOf
<1> HIDE DEF A, B
<1>4. /\ C \in Seq(Pieces) /\ Len(C) = 1 + w
      /\ \A j \in 1..1 : C[j] = A[j]
      /\ \A j \in 1..w : C[1 + j] = d[j]
  <2>1. /\ A \o d \in Seq(Pieces) /\ Len(A \o d) = Len(A) + Len(d)
        /\ \A j \in 1..Len(A) : (A \o d)[j] = A[j]
        /\ \A j \in 1..Len(d) : (A \o d)[Len(A) + j] = d[j]
    BY <1>1, CatFacts
  <2> QED
    BY <1>0, <1>1, <2>1
<1> HIDE DEF C
<1>5. PICK u \in Nat : u = 1 + w
  BY <1>0
<1> HIDE DEF F
<1>6. /\ F \in Seq(Pieces) /\ Len(F) = u + 2
      /\ \A j \in 1..u : F[j] = C[j]
      /\ \A j \in 1..2 : F[u + j] = B[j]
  <2>1. /\ C \o B \in Seq(Pieces) /\ Len(C \o B) = Len(C) + Len(B)
        /\ \A j \in 1..Len(C) : (C \o B)[j] = C[j]
        /\ \A j \in 1..Len(B) : (C \o B)[Len(C) + j] = B[j]
    BY <1>2, <1>4, CatFacts
  <2> QED
    BY <1>2, <1>3, <1>4, <1>5, <2>1
<1>7. F[1] = k
  BY <1>0, <1>1, <1>4, <1>5, <1>6
<1>8. \A j \in 1..w : F[1 + j] = d[j]
  <2> TAKE j \in 1..w
  <2>1. 1 + j \in 1..u
    BY <1>0, <1>5
  <2> QED
    BY <1>4, <1>6, <2>1
<1>9. F[u + 1] = c /\ F[u + 2] = n
  BY <1>2, <1>6
<1>10. u + 1 = 2 + w /\ u + 2 = 3 + w
  BY <1>0, <1>5
<1> QED
  BY <1>6, <1>7, <1>8, <1>9, <1>10 DEF F, w

\* The pieces of a frame are where Holds says.
LEMMA FrameHolds ==
  ASSUME NEW e \in Events, NEW F, F = IF reader = "Events" THEN frame(e) ELSE LogEntry(e)
  PROVE  /\ F \in Seq(Pieces) /\ Len(F) = Size(e) /\ Size(e) \in Nat /\ Size(e) >= 1
         /\ Holds(F, 0, e)
         /\ F[Size(e)] = NL
<1>1. Marks \subseteq Pieces /\ Kinds \subseteq Pieces /\ Parts \subseteq Pieces
  BY DEF Pieces
<1>2. e.kind \in Pieces
  BY <1>1, EventFacts
<1>3. NL \in Pieces /\ "event:" \in Pieces /\ "data:" \in Pieces /\ "}" \in Pieces
  BY <1>1, MarkFacts
<1>4. e.data \in Seq(Pieces)
  <2>1. e.data \in Seq(Parts)
    BY EventFacts
  <2> QED
    BY <1>1, <2>1
<1>5. PICK w \in Nat, d \in Seq(Pieces) :
        w = Width(e) /\ d = e.data /\ w = Len(d) /\ w >= 1
  BY <1>4, EventFacts
<1>6. \A n \in Nat : 0 + n = n
  OBVIOUS
<1>7. CASE reader = "Events"
  <2>1. e # Ping
    <3>1. Ping.data = <<>>
      BY DEF Ping
    <3>2. d # <<>>
      BY <1>5
    <3> QED
      BY <1>5, <3>1, <3>2
  <2>2. F = (<<"event:", e.kind, NL, "data:">> \o d) \o <<NL, NL>>
    BY <1>5, <1>7, <2>1 DEF frame
  <2>3. /\ F \in Seq(Pieces) /\ Len(F) = 6 + w
        /\ F[1] = "event:" /\ F[2] = e.kind /\ F[3] = NL /\ F[4] = "data:"
        /\ \A j \in 1..w : F[4 + j] = d[j]
        /\ F[5 + w] = NL /\ F[6 + w] = NL
    <3>1. PICK a \in Pieces, k \in Pieces, n \in Pieces, c \in Pieces :
            a = "event:" /\ k = e.kind /\ n = NL /\ c = "data:"
      BY <1>2, <1>3
    <3>2. F = EventOf(a, k, n, c, d)
      BY <2>2, <3>1 DEF EventOf
    <3>3. w = Len(d)
      BY <1>5
    <3>4. /\ F \in Seq(Pieces) /\ Len(F) = 6 + w
          /\ F[1] = a /\ F[2] = k /\ F[3] = n /\ F[4] = c
          /\ \A j \in 1..w : F[4 + j] = d[j]
          /\ F[5 + w] = n /\ F[6 + w] = n
      <4> DEFINE G == EventOf(a, k, n, c, d)
      <4>1. /\ G \in Seq(Pieces) /\ Len(G) = 6 + Len(d)
            /\ G[1] = a /\ G[2] = k /\ G[3] = n /\ G[4] = c
            /\ \A j \in 1..Len(d) : G[4 + j] = d[j]
            /\ G[5 + Len(d)] = n /\ G[6 + Len(d)] = n
        BY EventFrame
      <4> HIDE DEF G
      <4>2. F = G
        BY <3>2 DEF G
      <4> QED
        BY <3>3, <4>1, <4>2
    <3> QED
      BY <3>1, <3>4
  <2>4. \A j \in 1..w : 0 + (4 + j) = 4 + j
    OBVIOUS
  <2>5. /\ 0 + 1 = 1 /\ 0 + 2 = 2 /\ 0 + 3 = 3 /\ 0 + 4 = 4
        /\ 0 + (5 + w) = 5 + w /\ 0 + (6 + w) = 6 + w
    OBVIOUS
  <2>6. Holds(F, 0, e)
    BY <1>5, <1>7, <2>3, <2>4, <2>5 DEF Holds
  <2>7. Size(e) = 6 + w /\ 6 + w \in Nat /\ 6 + w >= 1
    BY <1>5, <1>7 DEF Size
  <2> QED
    BY <2>3, <2>6, <2>7
<1>8. CASE reader # "Events"
  <2>1. F = (<<e.kind>> \o d) \o <<"}", NL>>
    BY <1>5, <1>8 DEF LogEntry
  <2>2. /\ F \in Seq(Pieces) /\ Len(F) = 3 + w
        /\ F[1] = e.kind
        /\ \A j \in 1..w : F[1 + j] = d[j]
        /\ F[2 + w] = "}" /\ F[3 + w] = NL
    <3>1. PICK k \in Pieces, c \in Pieces, n \in Pieces :
            k = e.kind /\ c = "}" /\ n = NL
      BY <1>2, <1>3
    <3>2. F = EntryOf(k, c, n, d)
      BY <2>1, <3>1 DEF EntryOf
    <3>3. w = Len(d)
      BY <1>5
    <3>4. /\ F \in Seq(Pieces) /\ Len(F) = 3 + w
          /\ F[1] = k
          /\ \A j \in 1..w : F[1 + j] = d[j]
          /\ F[2 + w] = c /\ F[3 + w] = n
      <4> DEFINE G == EntryOf(k, c, n, d)
      <4>1. /\ G \in Seq(Pieces) /\ Len(G) = 3 + Len(d)
            /\ G[1] = k
            /\ \A j \in 1..Len(d) : G[1 + j] = d[j]
            /\ G[2 + Len(d)] = c /\ G[3 + Len(d)] = n
        BY EntryFrame
      <4> HIDE DEF G
      <4>2. F = G
        BY <3>2 DEF G
      <4> QED
        BY <3>3, <4>1, <4>2
    <3> QED
      BY <3>1, <3>4
  <2>3. \A j \in 1..w : 0 + (1 + j) = 1 + j
    OBVIOUS
  <2>4. 0 + 1 = 1 /\ 0 + (2 + w) = 2 + w /\ 0 + (3 + w) = 3 + w
    OBVIOUS
  <2>5. Holds(F, 0, e)
    BY <1>5, <1>8, <2>2, <2>3, <2>4 DEF Holds
  <2>6. Size(e) = 3 + w /\ 3 + w \in Nat /\ 3 + w >= 1
    BY <1>5, <1>8 DEF Size
  <2> QED
    BY <2>2, <2>5, <2>6
<1> QED
  BY <1>7, <1>8

\* A frame may lie elsewhere in another sequence.
LEMMA SameHolds ==
  ASSUME NEW e \in Events, NEW S, NEW s \in Nat, NEW T, NEW t \in Nat,
         \A j \in 1..Size(e) : T[t + j] = S[s + j], Holds(S, s, e)
  PROVE  Holds(T, t, e)
<1>1. PICK w \in Nat : w = Width(e)
  BY EventFacts
<1>2. CASE reader = "Events"
  <2>1. Size(e) = 6 + w
    BY <1>1, <1>2 DEF Size
  <2>2. \A j \in 1..(6 + w) : T[t + j] = S[s + j]
    BY <2>1
  <2>3. T[t + 1] = S[s + 1] /\ T[t + 2] = S[s + 2] /\ T[t + 3] = S[s + 3] /\ T[t + 4] = S[s + 4]
    BY <2>2
  <2>4. T[t + (5 + w)] = S[s + (5 + w)] /\ T[t + (6 + w)] = S[s + (6 + w)]
    BY <2>2
  <2>5. \A j \in 1..w : T[t + (4 + j)] = S[s + (4 + j)]
    <3> TAKE j \in 1..w
    <3>1. 4 + j \in 1..(6 + w)
      OBVIOUS
    <3> QED
      BY <2>2, <3>1
  <2> QED
    BY <1>1, <1>2, <2>3, <2>4, <2>5 DEF Holds
<1>3. CASE reader # "Events"
  <2>1. Size(e) = 3 + w
    BY <1>1, <1>3 DEF Size
  <2>2. \A j \in 1..(3 + w) : T[t + j] = S[s + j]
    BY <2>1
  <2>3. T[t + 1] = S[s + 1]
    BY SMTT(30), <2>2
  <2>4. T[t + (2 + w)] = S[s + (2 + w)] /\ T[t + (3 + w)] = S[s + (3 + w)]
    BY <2>2
  <2>5. \A j \in 1..w : T[t + (1 + j)] = S[s + (1 + j)]
    <3> TAKE j \in 1..w
    <3>1. 1 + j \in 1..(3 + w)
      OBVIOUS
    <3> QED
      BY <2>2, <3>1
  <2> QED
    BY <1>1, <1>3, <2>3, <2>4, <2>5 DEF Holds
<1> QED
  BY <1>2, <1>3

\* T begins with S.
Grows(S, T) ==
  /\ T \in Seq(Pieces)
  /\ Len(S) <= Len(T)
  /\ \A j \in 1..Len(S) : T[j] = S[j]

\* What has been written stays where it is.
LEMMA FramesStay ==
  ASSUME TypeOK, Delivered, NEW S \in Seq(Pieces), NEW start, Layout(S, start), NEW T, Grows(S, T)
  PROVE  /\ \A i \in 1..Len(sent) : /\ Holds(T, start[i], sent[i])
                                    /\ LineStart(T, start[i])
                                    /\ start[i] + Size(sent[i]) <= Len(T)
                                    /\ start[i] <= Len(S)
         /\ \A p \in 0..Len(S) : LineStart(S, p) => LineStart(T, p)
         /\ LineStart(T, Len(S))
<1>1. Len(S) \in Nat /\ Len(T) \in Nat
  BY DEF Grows
<1>2. ASSUME NEW p \in 0..Len(S), LineStart(S, p) PROVE LineStart(T, p)
  <2>1. p = 0 \/ p \in 1..Len(S)
    BY <1>1
  <2> QED
    BY <1>2, <2>1 DEF LineStart, Grows
<1>3. ASSUME NEW i \in 1..Len(sent)
      PROVE  /\ Holds(T, start[i], sent[i]) /\ LineStart(T, start[i])
             /\ start[i] + Size(sent[i]) <= Len(T) /\ start[i] <= Len(S)
  <2>1. sent[i] \in Events
    BY DEF TypeOK
  <2>2. PICK s \in Nat, z \in Nat : s = start[i] /\ z = Size(sent[i])
    BY EndsAreNat
  <2>3. s + z <= Len(S) /\ LineStart(S, s) /\ Holds(S, s, sent[i])
    BY <2>2 DEF Layout
  <2>4. \A j \in 1..z : T[s + j] = S[s + j]
    <3> TAKE j \in 1..z
    <3>1. s + j \in 1..Len(S)
      BY <1>1, <2>3
    <3> QED
      BY <3>1 DEF Grows
  <2>5. Holds(T, s, sent[i])
    BY <2>1, <2>2, <2>3, <2>4, SameHolds
  <2>6. s + z <= Len(T) /\ s <= Len(S)
    BY <1>1, <2>3 DEF Grows
  <2>7. LineStart(T, s)
    BY <1>1, <1>2, <2>3, <2>6
  <2> QED
    BY <2>2, <2>5, <2>6, <2>7
<1>4. LineStart(T, Len(S))
  BY <1>1, <1>2 DEF Layout
<1> QED
  BY <1>2, <1>3, <1>4

LEMMA CatGrows ==
  ASSUME NEW S \in Seq(Pieces), NEW F \in Seq(Pieces)
  PROVE  /\ Grows(S, S \o F) /\ Len(S \o F) = Len(S) + Len(F)
         /\ \A j \in 1..Len(F) : (S \o F)[Len(S) + j] = F[j]
BY CatFacts DEF Grows

\* A ping goes between two frames.
LEMMA PingLayout ==
  ASSUME TypeOK, Delivered, NEW S \in Seq(Pieces), NEW start, Layout(S, start),
         NEW T, Grows(S, T), Len(T) = Len(S) + 3,
         T[Len(S) + 1] = ":", T[Len(S) + 2] = NL, T[Len(S) + 3] = NL
  PROVE  Layout(T, start)
<1>1. PICK l \in Nat : l = Len(S) /\ Len(T) = l + 3
  OBVIOUS
<1>2. ASSUME NEW p \in 1..Len(T), Between(start, p)
      PROVE  T[p] = NL \/ (T[p] = ":" /\ p < Len(T) /\ T[p + 1] = NL)
  <2>1. CASE p \in 1..l
    <3>1. S[p] = NL \/ (S[p] = ":" /\ p < l /\ S[p + 1] = NL)
      BY <1>1, <1>2, <2>1 DEF Layout
    <3>2. T[p] = S[p]
      BY <1>1, <2>1 DEF Grows
    <3>3. CASE S[p] = NL
      BY <3>2, <3>3
    <3>4. CASE S[p] = ":" /\ p < l /\ S[p + 1] = NL
      <4>1. p + 1 \in 1..l
        BY <1>1, <2>1, <3>4
      <4>2. T[p + 1] = NL
        BY <1>1, <3>4, <4>1 DEF Grows
      <4>3. p < Len(T)
        BY <1>1, <3>4
      <4> QED
        BY <3>2, <3>4, <4>2, <4>3
    <3> QED
      BY <3>1, <3>3, <3>4
  <2>2. CASE p = l + 1
    BY <1>1, <2>2
  <2>3. CASE p = l + 2
    BY <1>1, <2>3
  <2>4. CASE p = l + 3
    BY <1>1, <2>4
  <2> QED
    BY <1>1, <2>1, <2>2, <2>3, <2>4
<1>3. LineStart(T, Len(T))
  BY <1>1 DEF LineStart
<1>4. T \in Seq(Pieces)
  BY DEF Grows
<1>5. \A i \in 1..Len(sent) : /\ Holds(T, start[i], sent[i])
                              /\ LineStart(T, start[i])
                              /\ start[i] + Size(sent[i]) <= Len(T)
  BY FramesStay
<1>6. /\ start \in [1..Len(sent) -> Nat]
      /\ \A i, j \in 1..Len(sent) : i < j => start[i] + Size(sent[i]) <= start[j]
  BY DEF Layout
<1> QED
  BY <1>2, <1>3, <1>4, <1>5, <1>6 DEF Layout

\* Where the frames begin when one more has been written behind S.
OneMore(start, S) ==
  [i \in 1..(Len(sent) + 1) |-> IF i = Len(sent) + 1 THEN Len(S) ELSE start[i]]

LEMMA EventLayout ==
  ASSUME TypeOK, Delivered, NEW S \in Seq(Pieces), NEW start, Layout(S, start),
         NEW e \in Events, sent' = Append(sent, e), UNCHANGED reader,
         NEW T, Grows(S, T), Len(T) = Len(S) + Size(e), Holds(T, Len(S), e),
         T[Len(S) + Size(e)] = NL, NEW more, more = OneMore(start, S)
  PROVE  Layout(T, more)'
<1>1. PICK l \in Nat, n \in Nat, z \in Nat :
        l = Len(S) /\ n = Len(sent) /\ z = Size(e) /\ Len(T) = l + z
  <2>1. Size(e) \in Nat
    BY EventFacts DEF Size
  <2> QED
    BY <2>1, EndsAreNat
<1>2. /\ sent' \in Seq(Events) /\ Len(sent') = n + 1 /\ sent'[n + 1] = e
      /\ \A i \in 1..n : sent'[i] = sent[i]
  <2>1. sent \in Seq(Events)
    BY DEF TypeOK
  <2> QED
    BY <1>1, <2>1
<1>3. \A i \in 1..n : start[i] \in Nat
  BY <1>1, EndsAreNat
<1>4. /\ more \in [1..(n + 1) -> Nat] /\ more[n + 1] = l
      /\ \A i \in 1..n : more[i] = start[i]
  BY <1>1, <1>3 DEF OneMore
<1>5. ASSUME NEW i \in 1..(n + 1)
      PROVE  Holds(T, more[i], sent'[i]) /\ LineStart(T, more[i])
             /\ more[i] + Size(sent'[i]) <= Len(T)
  <2>1. CASE i = n + 1
    <3>1. Holds(T, l, e) /\ LineStart(T, l) /\ l + z <= Len(T)
      BY <1>1, FramesStay
    <3> QED
      BY <1>1, <1>2, <1>4, <2>1, <3>1
  <2>2. CASE i # n + 1
    <3>1. i \in 1..n
      BY <2>2
    <3>2. Holds(T, start[i], sent[i]) /\ LineStart(T, start[i])
          /\ start[i] + Size(sent[i]) <= Len(T)
      BY <1>1, <3>1, FramesStay
    <3> QED
      BY <1>2, <1>4, <3>1, <3>2
  <2> QED
    BY <2>1, <2>2
<1>6. ASSUME NEW i \in 1..(n + 1), NEW j \in 1..(n + 1), i < j
      PROVE  more[i] + Size(sent'[i]) <= more[j]
  <2>1. i \in 1..n
    BY <1>6
  <2>2. CASE j = n + 1
    <3>1. start[i] + Size(sent[i]) <= l
      BY <1>1, <2>1 DEF Layout
    <3> QED
      BY <1>2, <1>4, <2>1, <2>2, <3>1
  <2>3. CASE j # n + 1
    <3>1. j \in 1..n
      BY <2>3
    <3>2. start[i] + Size(sent[i]) <= start[j]
      BY <1>1, <1>6, <2>1, <3>1 DEF Layout
    <3> QED
      BY <1>2, <1>4, <2>1, <3>1, <3>2
  <2> QED
    BY <2>2, <2>3
<1>7. ASSUME NEW p \in 1..Len(T),
             \A i \in 1..(n + 1) : p <= more[i] \/ more[i] + Size(sent'[i]) < p
      PROVE  T[p] = NL \/ (T[p] = ":" /\ p < Len(T) /\ T[p + 1] = NL)
  <2>1. p <= l
    <3>1. n + 1 \in 1..(n + 1)
      BY <1>1
    <3>2. p <= l \/ l + z < p
      BY <1>1, <1>2, <1>4, <1>7, <3>1
    <3> QED
      BY <1>1, <3>2
  <2>2. Between(start, p)
    <3>1. \A i \in 1..n : i \in 1..(n + 1)
      BY <1>1
    <3>2. \A i \in 1..n : p <= start[i] \/ start[i] + Size(sent[i]) < p
      BY <1>2, <1>4, <1>7, <3>1
    <3> QED
      BY <1>1, <3>2 DEF Between
  <2>3. p \in 1..l
    BY <1>1, <2>1
  <2>4. S[p] = NL \/ (S[p] = ":" /\ p < l /\ S[p + 1] = NL)
    BY <1>1, <2>2, <2>3 DEF Layout
  <2>5. T[p] = S[p]
    BY <1>1, <2>3 DEF Grows
  <2>6. CASE S[p] = ":" /\ p < l /\ S[p + 1] = NL
    <3>1. p + 1 \in 1..l
      BY <1>1, <2>3, <2>6
    <3>2. T[p + 1] = NL
      BY <1>1, <2>6, <3>1 DEF Grows
    <3>3. p < Len(T)
      BY <1>1, <2>6
    <3> QED
      BY <2>5, <2>6, <3>2, <3>3
  <2> QED
    BY <2>4, <2>5, <2>6
<1>8. LineStart(T, Len(T))
  BY <1>1 DEF LineStart
<1>9. T \in Seq(Pieces)
  BY DEF Grows
<1>10. ASSUME NEW i \in 1..Len(sent')
       PROVE  /\ Holds(T, more[i], sent[i])' /\ LineStart(T, more[i])'
              /\ more[i] + Size(sent[i])' <= Len(T)
  <2>1. Holds(T, more[i], sent'[i]) /\ LineStart(T, more[i])
        /\ more[i] + Size(sent'[i]) <= Len(T)
    BY <1>2, <1>5, <1>10
  <2>2. Holds(T, more[i], sent[i])'
    BY <2>1 DEF Holds, Width
  <2>3. LineStart(T, more[i])'
    BY <2>1 DEF LineStart
  <2>4. more[i] + Size(sent[i])' <= Len(T)
    BY <2>1 DEF Size, Width
  <2> QED
    BY <2>2, <2>3, <2>4
<1>11. \A i, j \in 1..Len(sent') : i < j => more[i] + Size(sent[i])' <= more[j]
  BY <1>2, <1>6 DEF Size, Width
<1>12. ASSUME NEW p \in 1..Len(T), Between(more, p)'
       PROVE  T[p] = NL \/ (T[p] = ":" /\ p < Len(T) /\ T[p + 1] = NL)
  <2>1. \A i \in 1..(n + 1) : p <= more[i] \/ more[i] + Size(sent'[i]) < p
    BY <1>2, <1>12 DEF Between, Size, Width
  <2> QED
    BY <1>7, <2>1
<1>13. LineStart(T, Len(T))'
  BY <1>8 DEF LineStart
<1> QED
  BY <1>2, <1>4, <1>9, <1>10, <1>11, <1>12, <1>13 DEF Layout

\* The reader's place is not moved by what is written behind it.
LEMMA PlacedGrows ==
  ASSUME TypeOK, Delivered, NEW S \in Seq(Pieces), NEW start, Layout(S, start),
         NEW pos, Placed(S, start, pos), NEW T, Grows(S, T),
         UNCHANGED <<reader, typ, data, delivered>>,
         NEW n \in Nat, n = Len(sent), Len(sent') \in Nat, n <= Len(sent'),
         NEW more,
         \A i \in 1..n : sent'[i] = sent[i] /\ more[i] = start[i],
         \A i \in 1..Len(sent') : i > n => more[i] = Len(S)
  PROVE  Placed(T, more, pos)'
<1>1. PICK k \in Nat : k = Len(delivered) /\ k <= n
  BY EndsAreNat
<1>2. pos \in 0..Len(T) /\ LineStart(T, pos)
  <2>1. pos \in 0..Len(S) /\ LineStart(S, pos)
    BY DEF Placed
  <2>2. Len(S) \in Nat /\ Len(T) \in Nat /\ Len(S) <= Len(T)
    BY DEF Grows
  <2> QED
    BY <2>1, <2>2, FramesStay
<1>3. \A i \in 1..k : more[i] + Size(sent'[i]) <= pos
  <2> TAKE i \in 1..k
  <2>1. start[i] + Size(sent[i]) <= pos
    BY <1>1 DEF Placed
  <2>2. i \in 1..n
    BY <1>1
  <2> QED
    BY <2>1, <2>2
<1>4. CASE typ = NoType /\ data = <<>> /\ \A i \in 1..n : i > k => pos <= start[i]
  <2>1. ASSUME NEW i \in 1..Len(sent'), i > k PROVE pos <= more[i]
    <3>1. CASE i \in 1..n
      BY <1>4, <2>1, <3>1
    <3>2. CASE i \notin 1..n
      <4>1. i > n
        BY <3>2
      <4> QED
        BY <4>1 DEF Placed
    <3> QED
      BY <3>1, <3>2
  <2> QED
    BY <1>1, <1>2, <1>3, <1>4, <2>1 DEF Placed, LineStart, Size, Width
<1>5. CASE /\ reader = "Events" /\ k < n /\ typ = sent[k + 1].kind
           /\ \/ data = <<>> /\ pos = start[k + 1] + 3
              \/ data = sent[k + 1].data /\ pos = start[k + 1] + (5 + Width(sent[k + 1]))
  <2>1. k + 1 \in 1..n /\ k < Len(sent')
    BY <1>1, <1>5
  <2>2. sent'[k + 1] = sent[k + 1] /\ more[k + 1] = start[k + 1]
    BY <2>1
  <2> QED
    BY <1>1, <1>2, <1>3, <1>5, <2>1, <2>2 DEF Placed, LineStart, Size, Width
<1> QED
  BY <1>1, <1>4, <1>5 DEF Placed

\* Nothing was unsent, and a frame is.
LEMMA PendingGrows ==
  ASSUME TypeOK, Shape, NEW S \in Seq(Pieces), NEW pos \in Nat, Pending(S, pos), conn = "open",
         unsent = <<>>, NEW F \in Seq(Pieces), unsent' = F, UNCHANGED <<buf, wire, conn>>
  PROVE  Pending(S \o F, pos)'
<1> DEFINE T == S \o F
<1>1. PICK l \in Nat, b \in Nat, w \in Nat, f \in Nat :
        l = Len(S) /\ b = Len(buf) /\ w = Len(wire) /\ f = Len(F)
  BY DEF Shape
<1>2. Grows(S, T) /\ Len(T) = l + f /\ \A j \in 1..f : T[l + j] = F[j]
  BY <1>1, CatGrows
<1> HIDE DEF T
<1>3. pos + b + w = l
  <2>1. Whole /\ Len(unsent) = 0
    BY DEF Whole
  <2>2. pos + b + w + 0 = l
    BY <1>1, <2>1 DEF Pending
  <2> QED
    BY <1>1, <2>2
<1>4. \A j \in 1..b : buf[j] = T[pos + j]
  <2> TAKE j \in 1..b
  <2>1. buf[j] = S[pos + j]
    BY <1>1 DEF Pending
  <2>2. pos + j \in 1..l
    BY <1>3
  <2> QED
    BY <1>1, <1>2, <2>1, <2>2 DEF Grows
<1>5. \A j \in 1..w : wire[j] = T[pos + b + j]
  <2> TAKE j \in 1..w
  <2>1. wire[j] = S[pos + b + j]
    BY <1>1 DEF Pending
  <2>2. pos + b + j \in 1..l
    BY <1>3
  <2> QED
    BY <1>1, <1>2, <2>1, <2>2 DEF Grows
<1>6. \A j \in 1..f : F[j] = T[pos + b + w + j]
  BY <1>2, <1>3
<1>7. pos + b + w + f = Len(T)
  BY <1>2, <1>3
<1>8. /\ \A j \in 1..Len(buf') : buf'[j] = T[pos + j]
      /\ \A j \in 1..Len(wire') : wire'[j] = T[pos + Len(buf') + j]
      /\ \A j \in 1..Len(unsent') : unsent'[j] = T[pos + Len(buf') + Len(wire') + j]
      /\ pos + Len(buf') + Len(wire') + Len(unsent') = Len(T)
  BY <1>1, <1>4, <1>5, <1>6, <1>7
<1>9. Len(T) \in Nat
  BY <1>2 DEF Grows
<1>10. pos + Len(buf') + Len(wire') + Len(unsent') <= Len(T)
  BY <1>8, <1>9
<1>11. Pending(T, pos)'
  <2>1. T' = T
    BY DEF T
  <2> QED
    BY <1>8, <1>10, <2>1 DEF Pending
<1> QED
  BY <1>11 DEF T

-----------------------------------------------------------------------------
(* The writer's steps, and the connection's.                                 *)

\* What the ping's frame holds.
LEMMA PingFrame ==
  /\ frame(Ping) \in Seq(Pieces) /\ Len(frame(Ping)) = 3
  /\ frame(Ping)[1] = ":" /\ frame(Ping)[2] = NL /\ frame(Ping)[3] = NL
<1>1. frame(Ping) = <<":", NL, NL>>
  BY DEF frame
<1>2. PICK c \in Pieces, n \in Pieces : c = ":" /\ n = NL
  BY MarkFacts DEF Pieces
<1>3. frame(Ping) = <<c, n, n>>
  BY <1>1, <1>2
<1> QED
  BY <1>2, <1>3

LEMMA TooLongStays ==
  ASSUME TypeOK, TooLongIsOneLine, UNCHANGED <<reader, result>>, NEW n \in Nat, n = Len(sent),
         sent' \in Seq(Events), n <= Len(sent'), \A i \in 1..n : sent'[i] = sent[i]
  PROVE  TooLongIsOneLine'
<1> SUFFICES ASSUME result = "tooLong"
             PROVE  (\E i \in DOMAIN sent : Longest(sent[i]) >= maxLine)'
  BY DEF TooLongIsOneLine
<1>1. PICK i \in DOMAIN sent : Longest(sent[i]) >= maxLine
  BY DEF TooLongIsOneLine
<1>2. i \in 1..n /\ i \in DOMAIN sent'
  BY DEF TypeOK
<1>3. sent'[i] = sent[i]
  BY <1>2
<1> QED
  BY <1>1, <1>2, <1>3 DEF Longest

LEMMA WriteKeeps ==
  ASSUME StreamInv, NEW f \in Events \cup {Ping}, Write(f)
  PROVE  StreamInv'
<1> USE DEF StreamInv
<1>1. /\ UNCHANGED <<reader, wire, conn, cancelled, buf, atEnd, typ, data, delivered, result>>
      /\ conn = "open" /\ unsent = <<>> /\ frames < MaxFrames /\ frames' = frames + 1
  BY DEF Write, parserVars
<1>2. PICK n \in Nat : n = Len(sent)
  BY DEF TypeOK
<1>3. \/ f = Ping /\ sent' = sent /\ unsent' = frame(Ping) /\ reader = "Events"
      \/ /\ f \in Events /\ sent' = Append(sent, f)
         /\ unsent' = IF reader = "Events" THEN frame(f) ELSE LogEntry(f)
  BY DEF Write
<1>4. /\ sent' \in Seq(Events) /\ Len(sent') \in Nat /\ n <= Len(sent')
      /\ \A i \in 1..n : sent'[i] = sent[i]
  <2>1. sent \in Seq(Events)
    BY DEF TypeOK
  <2>2. CASE sent' = sent
    BY <1>2, <2>1, <2>2
  <2>3. CASE f \in Events /\ sent' = Append(sent, f)
    BY <1>2, <2>1, <2>3
  <2> QED
    BY <1>3, <2>2, <2>3
<1>5. unsent' \in Seq(Pieces)
  BY <1>3, FrameHolds, PingFrame
<1>6. TypeOK'
  <2>1. frames' \in 0..MaxFrames
    <3>1. MaxFrames \in Nat /\ frames \in 0..MaxFrames
      BY StreamAssumption DEF TypeOK, StreamAssumption
    <3>2. frames < MaxFrames /\ frames' = frames + 1
      BY <1>1
    <3> QED
      BY <3>1, <3>2
  <2> QED
    BY <1>1, <1>4, <2>1 DEF TypeOK
<1>7. Shape'
  BY <1>1, <1>5 DEF Shape
<1>8. Delivered'
  <2>1. PICK k \in Nat : k = Len(delivered) /\ k <= n
    BY <1>2 DEF Delivered, TypeOK
  <2>2. \A i \in 1..k : delivered[i] = sent[i] /\ i \in 1..n
    BY <2>1 DEF Delivered
  <2>3. \A i \in 1..k : delivered[i] = sent'[i]
    BY <1>4, <2>2
  <2> QED
    BY <1>1, <1>4, <2>1, <2>3 DEF Delivered
<1>9. Placement'
  <2> SUFFICES ASSUME Running'
               PROVE  (\E S, start, pos : Layout(S, start) /\ Placed(S, start, pos) /\ Pending(S, pos))'
    BY DEF Placement
  <2>1. PICK S, start, pos : Layout(S, start) /\ Placed(S, start, pos) /\ Pending(S, pos)
    <3>1. Running /\ ~Spent
      BY <1>1 DEF Running, Spent, Whole
    <3> QED
      BY <3>1 DEF Placement
  <2>2. S \in Seq(Pieces) /\ pos \in Nat
    BY <2>1 DEF Layout, Placed
  <2>3. CASE f = Ping /\ sent' = sent /\ unsent' = frame(Ping)
    <3>1. PICK F \in Seq(Pieces) :
            /\ F = unsent' /\ Len(F) = 3 /\ F[1] = ":" /\ F[2] = NL /\ F[3] = NL
      BY <2>3, PingFrame
    <3> DEFINE T == S \o F
    <3>2. /\ Grows(S, T) /\ Len(T) = Len(S) + 3
          /\ T[Len(S) + 1] = ":" /\ T[Len(S) + 2] = NL /\ T[Len(S) + 3] = NL
      <4>1. /\ Grows(S, S \o F) /\ Len(S \o F) = Len(S) + Len(F)
            /\ \A j \in 1..Len(F) : (S \o F)[Len(S) + j] = F[j]
        BY <2>2, CatGrows
      <4>2. 1 \in 1..Len(F) /\ 2 \in 1..Len(F) /\ 3 \in 1..Len(F)
        BY <3>1
      <4> QED
        BY <3>1, <4>1, <4>2
    <3>3. Pending(T, pos)'
      BY <1>1, <2>1, <2>2, <3>1, PendingGrows
    <3> HIDE DEF T
    <3>4. Layout(T, start)
      BY <2>1, <2>2, <3>2, PingLayout
    <3>5. Layout(T, start)'
      BY <1>1, <2>3, <3>4, LayoutStays
    <3>6. Placed(T, start, pos)'
      <4>1. \A i \in 1..n : sent'[i] = sent[i] /\ start[i] = start[i]
        BY <1>4
      <4>2. Len(sent') = n /\ \A i \in 1..Len(sent') : i > n => start[i] = Len(S)
        BY <1>2, <2>3
      <4> QED
        BY SMTT(30), <1>1, <1>2, <2>1, <2>2, <3>2, <4>1, <4>2, PlacedGrows
    <3> QED
      BY <3>3, <3>5, <3>6
  <2>4. CASE /\ f \in Events /\ sent' = Append(sent, f)
             /\ unsent' = IF reader = "Events" THEN frame(f) ELSE LogEntry(f)
    <3>1. PICK F \in Seq(Pieces), z \in Nat \ {0} :
            /\ F = unsent' /\ z = Size(f) /\ Len(F) = z /\ Holds(F, 0, f) /\ F[z] = NL
      BY <2>4, FrameHolds
    <3> DEFINE T == S \o F
    <3>2. /\ Grows(S, T) /\ Len(T) = Len(S) + z
          /\ \A j \in 1..z : T[Len(S) + j] = F[j]
      BY ZenonT(40), <2>2, <3>1, CatGrows
    <3>3. Pending(T, pos)'
      BY <1>1, <2>1, <2>2, <3>1, PendingGrows
    <3> HIDE DEF T
    <3>4. PICK l \in Nat : l = Len(S)
      BY <2>2
    <3>5. \A j \in 1..z : T[l + j] = F[0 + j]
      BY <3>2, <3>4
    <3>6. Holds(T, l, f)
      BY <2>4, <3>1, <3>4, <3>5, SameHolds
    <3>7. T[l + z] = NL
      BY <3>1, <3>2, <3>4
    <3>8. PICK more : more = OneMore(start, S)
      OBVIOUS
    <3>9. Layout(T, more)'
      BY <1>1, <2>1, <2>2, <2>4, <3>1, <3>2, <3>4, <3>6, <3>7, <3>8, EventLayout
    <3>10. Placed(T, more, pos)'
      <4>1. \A i \in 1..n : sent'[i] = sent[i] /\ more[i] = start[i]
        BY <1>2, <1>4, <3>8 DEF OneMore
      <4>2. Len(sent') = n + 1
        BY <1>2, <2>4 DEF TypeOK
      <4>3. more[n + 1] = Len(S)
        BY <1>2, <3>8 DEF OneMore
      <4>4. \A i \in 1..Len(sent') : i > n => more[i] = Len(S)
        <5> TAKE i \in 1..Len(sent')
        <5>1. i > n => i = n + 1
          BY <4>2
        <5> QED
          BY <4>3, <5>1
      <4> QED
        BY ZenonT(40), <1>1, <1>2, <1>4, <2>1, <2>2, <3>2, <4>1, <4>4, PlacedGrows
    <3> QED
      BY <3>3, <3>9, <3>10
  <2> QED
    BY <1>3, <2>3, <2>4
<1>10. TooLongIsOneLine'
  BY <1>1, <1>2, <1>4, TooLongStays
<1> QED
  BY <1>6, <1>7, <1>8, <1>9, <1>10

\* A step that moves pieces, or loses the last of them.
LEMMA MoveKeeps ==
  ASSUME StreamInv, UNCHANGED <<reader, sent, frames, typ, data, delivered, result>>,
         Spent => Spent',
         \A S \in Seq(Pieces), pos \in Nat : Pending(S, pos) => Pending(S, pos)'
  PROVE  Delivered' /\ Placement' /\ TooLongIsOneLine'
<1> USE DEF StreamInv
<1>1. Delivered'
  BY DEF Delivered
<1>2. Placement'
  <2> SUFFICES ASSUME Running', ~Spent
               PROVE  (\E S, start, pos : Layout(S, start) /\ Placed(S, start, pos) /\ Pending(S, pos))'
    BY DEF Placement
  <2>1. PICK S, start, pos : Layout(S, start) /\ Placed(S, start, pos) /\ Pending(S, pos)
    BY DEF Placement, Running
  <2>2. S \in Seq(Pieces) /\ pos \in Nat
    BY <2>1 DEF Layout, Placed
  <2>3. Layout(S, start)'
    BY <2>1, LayoutStays
  <2>4. Placed(S, start, pos)'
    BY <2>1 DEF Placed, LineStart, Size, Width
  <2>5. Pending(S, pos)'
    BY <2>1, <2>2
  <2> QED
    BY <2>3, <2>4, <2>5
<1>3. TooLongIsOneLine'
  BY DEF TooLongIsOneLine, Longest
<1> QED
  BY <1>1, <1>2, <1>3

LEMMA PushKeeps ==
  ASSUME StreamInv, Push
  PROVE  StreamInv'
<1> USE DEF StreamInv
<1>1. /\ UNCHANGED <<reader, sent, frames, conn, cancelled, buf, atEnd, typ, data, delivered, result>>
      /\ conn = "open" /\ unsent # <<>> /\ Len(wire) < Capacity
      /\ wire' = Append(wire, Head(unsent)) /\ unsent' = Tail(unsent)
  BY DEF Push, parserVars
<1>2. buf \in Seq(Pieces) /\ wire \in Seq(Pieces) /\ unsent \in Seq(Pieces)
  BY DEF Shape
<1>3. PICK b \in Nat, w \in Nat, u \in Nat : b = Len(buf) /\ w = Len(wire) /\ Len(unsent) = u + 1
  <2>1. Len(unsent) \in Nat \ {0}
    BY <1>1, <1>2
  <2>2. PICK x \in Nat \ {0} : x = Len(unsent)
    BY <2>1
  <2>3. x - 1 \in Nat /\ Len(unsent) = (x - 1) + 1
    BY <2>2
  <2> QED
    BY <1>2, <2>3
<1>4. /\ wire' \in Seq(Pieces) /\ Len(wire') = w + 1 /\ wire'[w + 1] = unsent[1]
      /\ \A j \in 1..w : wire'[j] = wire[j]
  BY <1>1, <1>2, <1>3
<1>5. /\ unsent' \in Seq(Pieces) /\ Len(unsent') = u
      /\ \A j \in 1..u : unsent'[j] = unsent[j + 1]
  BY <1>1, <1>2, <1>3
<1>6. TypeOK'
  <2>1. Len(wire') <= Capacity
    <3>1. Capacity \in Nat
      BY StreamAssumption DEF StreamAssumption
    <3> QED
      BY <1>1, <1>3, <1>4, <3>1
  <2> QED
    BY <1>1, <2>1 DEF TypeOK
<1>7. Shape'
  BY <1>1, <1>4, <1>5 DEF Shape
<1>8. ASSUME NEW S \in Seq(Pieces), NEW pos \in Nat, Pending(S, pos)
      PROVE  Pending(S, pos)'
  <2>1. PICK l \in Nat : l = Len(S) /\ pos + b + w + (u + 1) = l
    BY <1>1, <1>3, <1>8 DEF Pending, Whole
  <2>2. \A j \in 1..(w + 1) : wire'[j] = S[pos + b + j]
    <3> TAKE j \in 1..(w + 1)
    <3>1. CASE j \in 1..w
      BY <1>3, <1>4, <1>8, <3>1 DEF Pending
    <3>2. CASE j = w + 1
      <4>1. unsent[1] = S[pos + b + w + 1]
        BY <1>3, <1>8 DEF Pending
      <4>2. pos + b + w + 1 = pos + b + j
        BY <3>2
      <4> QED
        BY <1>4, <3>2, <4>1, <4>2
    <3> QED
      BY <3>1, <3>2
  <2>3. \A j \in 1..u : unsent'[j] = S[pos + b + (w + 1) + j]
    <3> TAKE j \in 1..u
    <3>1. unsent[j + 1] = S[pos + b + w + (j + 1)]
      <4>1. j + 1 \in 1..(u + 1)
        OBVIOUS
      <4> QED
        BY <1>3, <1>8, <4>1 DEF Pending
    <3>2. pos + b + w + (j + 1) = pos + b + (w + 1) + j
      OBVIOUS
    <3> QED
      BY <1>5, <3>1, <3>2
  <2>4. pos + b + (w + 1) + u = l
    BY <2>1
  <2>5. \A j \in 1..b : buf[j] = S[pos + j]
    BY <1>3, <1>8 DEF Pending
  <2>6. /\ \A j \in 1..Len(buf') : buf'[j] = S[pos + j]
        /\ \A j \in 1..Len(wire') : wire'[j] = S[pos + Len(buf') + j]
        /\ \A j \in 1..Len(unsent') : unsent'[j] = S[pos + Len(buf') + Len(wire') + j]
        /\ pos + Len(buf') + Len(wire') + Len(unsent') = Len(S)
    BY <1>1, <1>3, <1>4, <1>5, <2>1, <2>2, <2>3, <2>4, <2>5
  <2>7. pos + Len(buf') + Len(wire') + Len(unsent') <= Len(S)
    BY <2>1, <2>6
  <2> QED
    BY <2>6, <2>7 DEF Pending
<1>9. Spent => Spent'
  BY <1>1 DEF Spent, Whole
<1>10. Delivered' /\ Placement' /\ TooLongIsOneLine'
  BY <1>1, <1>8, <1>9, MoveKeeps
<1> QED
  BY <1>6, <1>7, <1>10

LEMMA HandlerReturnsKeeps ==
  ASSUME StreamInv, HandlerReturns
  PROVE  StreamInv'
<1> USE DEF StreamInv
<1>1. /\ UNCHANGED <<reader, sent, frames, unsent, wire, cancelled, buf, atEnd, typ, data, delivered, result>>
      /\ conn = "open" /\ unsent = <<>> /\ conn' = "ended"
  BY DEF HandlerReturns, agentVars, parserVars
<1>2. TypeOK' /\ Shape'
  BY <1>1 DEF TypeOK, Shape
<1>3. \A S \in Seq(Pieces), pos \in Nat : Pending(S, pos) => Pending(S, pos)'
  BY <1>1 DEF Pending, Whole
<1>4. Spent => Spent'
  BY <1>1 DEF Spent, Whole
<1>5. Delivered' /\ Placement' /\ TooLongIsOneLine'
  BY <1>1, <1>3, <1>4, MoveKeeps
<1> QED
  BY <1>2, <1>5

\* The connection goes, with the last pieces on their way.
LEMMA LoseKeeps ==
  ASSUME StreamInv, LoseSuffix, unsent' = <<>>, conn' \in {"broken", "timedOut"},
         reader = "Events" => conn' # "timedOut", cancelled' \in BOOLEAN,
         UNCHANGED <<reader, sent, frames, buf, atEnd, typ, data, delivered, result>>
  PROVE  StreamInv'
<1> USE DEF StreamInv
<1>1. PICK n \in 0..Len(wire) : wire' = SubSeq(wire, 1, n)
  BY DEF LoseSuffix
<1>2. buf \in Seq(Pieces) /\ wire \in Seq(Pieces)
  BY DEF Shape
<1>3. /\ n \in Nat /\ n <= Len(wire) /\ Len(wire) \in Nat
      /\ wire' \in Seq(Pieces) /\ Len(wire') = n
      /\ \A j \in 1..n : wire'[j] = wire[j]
  BY <1>1, <1>2
<1>4. TypeOK'
  <2>1. Len(wire') <= Capacity
    <3>1. Capacity \in Nat /\ Len(wire) <= Capacity
      BY StreamAssumption DEF StreamAssumption, TypeOK
    <3> QED
      BY <1>3, <3>1
  <2> QED
    BY <2>1 DEF TypeOK
<1>5. Shape'
  <2>1. atEnd => wire' = <<>>
    BY <1>3 DEF Shape
  <2> QED
    BY <1>3, <2>1 DEF Shape
<1>6. ASSUME NEW S \in Seq(Pieces), NEW pos \in Nat, Pending(S, pos)
      PROVE  Pending(S, pos)'
  <2>1. PICK b \in Nat, w \in Nat, u \in Nat, l \in Nat :
          b = Len(buf) /\ w = Len(wire) /\ u = Len(unsent) /\ l = Len(S)
    BY <1>2 DEF Shape
  <2>2. pos + b + w + u <= l
    BY <1>6, <2>1 DEF Pending
  <2>3. pos + b + n + 0 <= l
    BY <1>3, <2>1, <2>2
  <2>4. \A j \in 1..n : wire'[j] = S[pos + b + j]
    <3> TAKE j \in 1..n
    <3>1. j \in 1..w
      BY <1>3, <2>1
    <3>2. wire[j] = S[pos + b + j]
      BY <1>6, <2>1, <3>1 DEF Pending
    <3> QED
      BY <1>3, <3>2
  <2>5. \A j \in 1..b : buf[j] = S[pos + j]
    BY <1>6, <2>1 DEF Pending
  <2>6. ~Whole'
    BY DEF Whole
  <2>7. Len(unsent') = 0
    OBVIOUS
  <2>8. /\ \A j \in 1..Len(buf') : buf'[j] = S[pos + j]
        /\ \A j \in 1..Len(wire') : wire'[j] = S[pos + Len(buf') + j]
        /\ \A j \in 1..Len(unsent') : unsent'[j] = S[pos + Len(buf') + Len(wire') + j]
        /\ pos + Len(buf') + Len(wire') + Len(unsent') <= Len(S)
    BY <1>3, <2>1, <2>3, <2>4, <2>5, <2>7
  <2> QED
    BY <2>6, <2>8 DEF Pending
<1>7. Spent => Spent'
  BY DEF Spent, Whole
<1>8. Delivered' /\ Placement' /\ TooLongIsOneLine'
  BY <1>6, <1>7, MoveKeeps
<1> QED
  BY <1>4, <1>5, <1>8

LEMMA ConnectionGoesKeeps ==
  ASSUME StreamInv, Break \/ Timeout \/ Cancel
  PROVE  StreamInv'
<1>1. /\ LoseSuffix /\ unsent' = <<>> /\ conn' \in {"broken", "timedOut"}
      /\ reader = "Events" => conn' # "timedOut"
      /\ cancelled' \in BOOLEAN
      /\ UNCHANGED <<reader, sent, frames, buf, atEnd, typ, data, delivered, result>>
  BY DEF Break, Timeout, Cancel, Timed, parserVars, StreamInv, TypeOK
<1> QED
  BY <1>1, LoseKeeps

-----------------------------------------------------------------------------
(* The reader's steps.                                                       *)

LEMMA ReadKeeps ==
  ASSUME StreamInv, Read
  PROVE  StreamInv'
<1> USE DEF StreamInv
<1>1. /\ UNCHANGED <<reader, sent, frames, unsent, conn, cancelled, atEnd, typ, data, delivered, result>>
      /\ ~atEnd
  BY DEF Read, agentVars
<1>2. PICK n \in 1..Len(wire) : /\ Len(buf) + n <= maxLine
                                /\ buf' = buf \o SubSeq(wire, 1, n)
                                /\ wire' = SubSeq(wire, n + 1, Len(wire))
  BY DEF Read
<1>3. buf \in Seq(Pieces) /\ wire \in Seq(Pieces) /\ unsent \in Seq(Pieces)
  BY DEF Shape
<1>4. PICK b \in Nat, w \in Nat, u \in Nat : b = Len(buf) /\ w = Len(wire) /\ u = Len(unsent)
  BY <1>3
<1>5. n \in 1..w /\ n \in Nat
  BY <1>4
<1> DEFINE C == SubSeq(wire, 1, n)
<1>6. /\ C \in Seq(Pieces) /\ Len(C) = n
      /\ \A j \in 1..n : C[j] = wire[j]
  BY <1>3, <1>4, <1>5
<1>7. PICK r \in Nat : r + n = w
  <2>1. w - n \in Nat /\ (w - n) + n = w
    BY <1>5
  <2> QED
    BY <2>1
<1>8. /\ wire' \in Seq(Pieces) /\ Len(wire') = r
      /\ \A j \in 1..r : wire'[j] = wire[n + j]
  BY <1>2, <1>3, <1>4, <1>5, <1>7
<1> HIDE DEF C
<1>9. buf' = buf \o C
  BY <1>2 DEF C
<1>10. /\ buf' \in Seq(Pieces) /\ Len(buf') = b + n
       /\ \A j \in 1..b : buf'[j] = buf[j]
       /\ \A j \in 1..n : buf'[b + j] = C[j]
  <2>1. /\ buf \o C \in Seq(Pieces) /\ Len(buf \o C) = Len(buf) + Len(C)
        /\ \A j \in 1..Len(buf) : (buf \o C)[j] = buf[j]
        /\ \A j \in 1..Len(C) : (buf \o C)[Len(buf) + j] = C[j]
    BY <1>3, <1>6, CatFacts
  <2> QED
    BY <1>4, <1>6, <1>9, <2>1
<1>11. TypeOK'
  <2>1. Len(wire') <= Capacity
    <3>1. Capacity \in Nat /\ w <= Capacity
      BY <1>4, StreamAssumption DEF StreamAssumption, TypeOK
    <3> QED
      BY <1>7, <1>8, <3>1
  <2>2. Len(buf') <= maxLine
    BY <1>2, <1>4, <1>10
  <2> QED
    BY <1>1, <2>1, <2>2 DEF TypeOK
<1>12. Shape'
  BY <1>1, <1>8, <1>10 DEF Shape
<1>13. ASSUME NEW S \in Seq(Pieces), NEW pos \in Nat, Pending(S, pos)
       PROVE  Pending(S, pos)'
  <2>1. PICK l \in Nat : l = Len(S) /\ pos + b + w + u <= l
    BY <1>4, <1>13 DEF Pending
  <2>2. pos + (b + n) + r + u = pos + b + w + u
    BY <1>5, <1>7
  <2>3. \A j \in 1..(b + n) : buf'[j] = S[pos + j]
    <3> TAKE j \in 1..(b + n)
    <3>1. CASE j \in 1..b
      BY <1>4, <1>10, <1>13, <3>1 DEF Pending
    <3>2. CASE j \notin 1..b
      <4>1. PICK i \in 1..n : j = b + i
        <5>1. j - b \in 1..n /\ j = b + (j - b)
          BY <1>5, <3>2
        <5> QED
          BY <5>1
      <4>2. i \in 1..w
        BY <1>5
      <4>3. wire[i] = S[pos + b + i]
        BY <1>4, <1>13, <4>2 DEF Pending
      <4>4. pos + b + i = pos + j
        BY <4>1
      <4>5. buf'[j] = wire[i]
        BY <1>6, <1>10, <4>1
      <4> QED
        BY <4>3, <4>4, <4>5
    <3> QED
      BY <3>1, <3>2
  <2>4. \A j \in 1..r : wire'[j] = S[pos + (b + n) + j]
    <3> TAKE j \in 1..r
    <3>1. n + j \in 1..w
      BY <1>5, <1>7
    <3>2. wire[n + j] = S[pos + b + (n + j)]
      BY <1>4, <1>13, <3>1 DEF Pending
    <3>3. pos + b + (n + j) = pos + (b + n) + j
      BY <1>5
    <3> QED
      BY <1>8, <3>2, <3>3
  <2>5. \A j \in 1..u : unsent'[j] = S[pos + (b + n) + r + j]
    <3> TAKE j \in 1..u
    <3>1. unsent[j] = S[pos + b + w + j]
      BY <1>4, <1>13 DEF Pending
    <3>2. pos + b + w + j = pos + (b + n) + r + j
      BY <1>5, <1>7
    <3> QED
      BY <1>1, <3>1, <3>2
  <2>6. /\ \A j \in 1..Len(buf') : buf'[j] = S[pos + j]
        /\ \A j \in 1..Len(wire') : wire'[j] = S[pos + Len(buf') + j]
        /\ \A j \in 1..Len(unsent') : unsent'[j] = S[pos + Len(buf') + Len(wire') + j]
        /\ pos + Len(buf') + Len(wire') + Len(unsent') = pos + b + w + u
    BY <1>1, <1>4, <1>8, <1>10, <2>2, <2>3, <2>4, <2>5
  <2>7. pos + Len(buf') + Len(wire') + Len(unsent') <= Len(S)
    BY <2>1, <2>6
  <2>8. Whole' => pos + Len(buf') + Len(wire') + Len(unsent') = Len(S)
    <3>1. Whole' => pos + b + w + u = Len(S)
      BY <1>1, <1>4, <1>13 DEF Pending, Whole
    <3> QED
      BY <2>6, <3>1
  <2> QED
    BY <2>6, <2>7, <2>8 DEF Pending
<1>14. Spent => Spent'
  BY <1>1 DEF Spent
<1>15. Delivered' /\ Placement' /\ TooLongIsOneLine'
  BY <1>1, <1>13, <1>14, MoveKeeps
<1> QED
  BY <1>11, <1>12, <1>15

LEMMA ReadFailsKeeps ==
  ASSUME StreamInv, ReadFails
  PROVE  StreamInv'
<1> USE DEF StreamInv
<1>1. /\ UNCHANGED <<reader, sent, frames, unsent, wire, conn, cancelled, buf, typ, data, delivered, result>>
      /\ wire = <<>> /\ conn # "open" /\ atEnd' = TRUE
  BY DEF ReadFails, agentVars
<1>2. TypeOK' /\ Shape'
  BY <1>1 DEF TypeOK, Shape
<1>3. \A S \in Seq(Pieces), pos \in Nat : Pending(S, pos) => Pending(S, pos)'
  BY <1>1 DEF Pending, Whole
<1>4. Spent => Spent'
  BY <1>1 DEF Spent, Whole
<1>5. Delivered' /\ Placement' /\ TooLongIsOneLine'
  BY <1>1, <1>3, <1>4, MoveKeeps
<1> QED
  BY <1>2, <1>5

\* A nonempty set of numbers has a least one.
LEMMA SmallestNat ==
  ASSUME NEW T, T \subseteq Nat, T # {}
  PROVE  \E x \in T : \A y \in T : x <= y
<1> DEFINE R == OpToRel(<, Nat)
<1>1. IsWellFoundedOn(R, Nat)
  BY NatLessThanWellFounded
<1>2. R = {ss \in Nat \X Nat : ss[1] < ss[2]}
  BY DEF OpToRel
<1> HIDE DEF R
<1>3. PICK x \in T : \A y \in T : <<y, x>> \notin R
  BY <1>1, WFMin
<1>4. ASSUME NEW y \in T PROVE x <= y
  <2>1. ~(y < x)
    BY <1>2, <1>3
  <2>2. x \in Nat /\ y \in Nat
    OBVIOUS
  <2> QED
    BY <2>1, <2>2
<1> QED
  BY <1>4

\* The line that Scan hands out, and what is left of the buffer.
LEMMA FirstLineFound ==
  ASSUME Shape, LineEnds # {}
  PROVE  /\ FirstEnd \in 1..Len(buf) /\ buf[FirstEnd] = NL
         /\ \A j \in 1..(FirstEnd - 1) : buf[j] # NL
<1>1. buf \in Seq(Pieces)
  BY DEF Shape
<1>2. LineEnds \subseteq Nat /\ LineEnds \subseteq 1..Len(buf)
  BY <1>1 DEF LineEnds
<1>3. \E x \in LineEnds : \A y \in LineEnds : x <= y
  BY <1>2, SmallestNat
<1>4. FirstEnd \in LineEnds /\ \A y \in LineEnds : FirstEnd <= y
  BY <1>3 DEF FirstEnd
<1>5. FirstEnd \in 1..Len(buf) /\ buf[FirstEnd] = NL
  BY <1>2, <1>4 DEF LineEnds
<1>6. ASSUME NEW j \in 1..(FirstEnd - 1), buf[j] = NL PROVE FALSE
  <2>1. j \in 1..Len(buf) /\ ~(FirstEnd <= j)
    BY <1>1, <1>5
  <2>2. j \in LineEnds
    BY <1>1, <1>6, <2>1 DEF LineEnds
  <2> QED
    BY <1>4, <2>1, <2>2
<1> QED
  BY <1>5, <1>6

LEMMA ScanLineKeeps ==
  ASSUME StreamInv, ScanLine
  PROVE  StreamInv' /\ Takes
<1> USE DEF StreamInv
<1> DEFINE line == SubSeq(buf, 1, FirstEnd - 1)
<1>1. /\ UNCHANGED <<reader, sent, frames, unsent, wire, conn, cancelled, atEnd, result>>
      /\ Running /\ LineEnds # {} /\ HandleLine(line)
      /\ buf' = SubSeq(buf, FirstEnd + 1, Len(buf))
  BY DEF ScanLine, agentVars
<1>2. buf \in Seq(Pieces) /\ wire \in Seq(Pieces) /\ unsent \in Seq(Pieces)
  BY DEF Shape
<1>3. PICK b \in Nat, w \in Nat, u \in Nat : b = Len(buf) /\ w = Len(wire) /\ u = Len(unsent)
  BY <1>2
<1>4. PICK m \in Nat : /\ FirstEnd = m + 1 /\ m + 1 <= b /\ buf[m + 1] = NL
                       /\ \A j \in 1..m : buf[j] # NL
  <2>1. /\ FirstEnd \in 1..b /\ buf[FirstEnd] = NL
        /\ \A j \in 1..(FirstEnd - 1) : buf[j] # NL
    BY <1>1, <1>3, FirstLineFound
  <2>2. PICK i \in 1..b : i = FirstEnd
    BY <2>1
  <2>3. i - 1 \in Nat /\ i = (i - 1) + 1
    BY <2>2
  <2> QED
    BY <1>3, <2>1, <2>2, <2>3
<1>5. line \in Seq(Pieces) /\ Len(line) = m /\ \A j \in 1..m : line[j] = buf[j]
  <2>1. line = SubSeq(buf, 1, m)
    BY <1>4
  <2> HIDE DEF line
  <2> QED
    BY <1>2, <1>3, <1>4, <2>1
<1> HIDE DEF line
<1>6. PICK r \in Nat : r + (m + 1) = b
  <2>1. b - (m + 1) \in Nat /\ (b - (m + 1)) + (m + 1) = b
    BY <1>4
  <2> QED
    BY <2>1
<1>7. /\ buf' \in Seq(Pieces) /\ Len(buf') = r
      /\ \A j \in 1..r : buf'[j] = buf[(m + 1) + j]
  <2>1. buf' = SubSeq(buf, (m + 1) + 1, b)
    BY <1>1, <1>3, <1>4
  <2> QED
    BY <1>2, <1>3, <1>6, <2>1
<1>8. Shape'
  BY <1>1, <1>7 DEF Shape
<1>9. PICK S, start, pos : Layout(S, start) /\ Placed(S, start, pos) /\ Pending(S, pos)
  <2>1. buf # <<>>
    BY <1>2, <1>3, <1>4
  <2> QED
    BY <1>1, <2>1 DEF Placement, Spent
<1>10. S \in Seq(Pieces) /\ pos \in Nat
  BY <1>9 DEF Layout, Placed
<1>11. PICK l \in Nat : l = Len(S) /\ pos + b + w + u <= l
  BY <1>3, <1>9, <1>10 DEF Pending
<1>12. \A j \in 1..b : buf[j] = S[pos + j]
  BY <1>3, <1>9 DEF Pending
<1>13. PICK next \in Nat : next = pos + (m + 1)
  BY <1>10
<1>14. LineAt(S, pos, line)
  <2>1. pos + m <= l
    BY <1>6, <1>10, <1>11
  <2>2. \A j \in 1..m : line[j] = S[pos + j] /\ S[pos + j] # NL
    <3> TAKE j \in 1..m
    <3>1. j \in 1..b
      BY <1>6
    <3> QED
      BY <1>4, <1>5, <1>12, <3>1
  <2> QED
    BY <1>5, <1>11, <2>1, <2>2 DEF LineAt
<1>15. next <= Len(S) /\ S[next] = NL
  <2>1. next <= l
    BY <1>6, <1>10, <1>11, <1>13
  <2>2. m + 1 \in 1..b
    BY <1>4
  <2> QED
    BY <1>4, <1>11, <1>12, <1>13, <2>1, <2>2
<1>16. Takes /\ typ' \in Kinds \cup {NoType} /\ Placed(S, start, next)'
  <2>1. next = pos + (Len(line) + 1)
    BY <1>5, <1>13
  <2> QED
    BY <1>1, <1>9, <1>10, <1>13, <1>14, <1>15, <2>1, LineStep
<1>17. Delivered' /\ delivered' \in Seq(Events)
  BY <1>1, <1>16, TakesDelivers
<1>18. Pending(S, next)'
  <2>1. \A j \in 1..r : buf'[j] = S[next + j]
    <3> TAKE j \in 1..r
    <3>1. (m + 1) + j \in 1..b
      BY <1>6
    <3>2. pos + ((m + 1) + j) = next + j
      BY <1>10, <1>13
    <3> QED
      BY <1>7, <1>12, <3>1, <3>2
  <2>2. \A j \in 1..w : wire[j] = S[next + r + j]
    <3> TAKE j \in 1..w
    <3>1. wire[j] = S[pos + b + j]
      BY <1>3, <1>9 DEF Pending
    <3>2. pos + b + j = next + r + j
      BY <1>6, <1>10, <1>13
    <3> QED
      BY <3>1, <3>2
  <2>3. \A j \in 1..u : unsent[j] = S[next + r + w + j]
    <3> TAKE j \in 1..u
    <3>1. unsent[j] = S[pos + b + w + j]
      BY <1>3, <1>9 DEF Pending
    <3>2. pos + b + w + j = next + r + w + j
      BY <1>6, <1>10, <1>13
    <3> QED
      BY <3>1, <3>2
  <2>4. next + r + w + u = pos + b + w + u
    BY <1>6, <1>10, <1>13
  <2>5. /\ \A j \in 1..Len(buf') : buf'[j] = S[next + j]
        /\ \A j \in 1..Len(wire') : wire'[j] = S[next + Len(buf') + j]
        /\ \A j \in 1..Len(unsent') : unsent'[j] = S[next + Len(buf') + Len(wire') + j]
        /\ next + Len(buf') + Len(wire') + Len(unsent') = pos + b + w + u
    BY <1>1, <1>3, <1>7, <2>1, <2>2, <2>3, <2>4
  <2>6. next + Len(buf') + Len(wire') + Len(unsent') <= Len(S)
    BY <1>11, <2>5
  <2>7. Whole' => next + Len(buf') + Len(wire') + Len(unsent') = Len(S)
    <3>1. Whole' => pos + b + w + u = Len(S)
      BY <1>1, <1>3, <1>9 DEF Pending, Whole
    <3> QED
      BY <2>5, <3>1
  <2> QED
    BY <2>5, <2>6, <2>7 DEF Pending
<1>19. Layout(S, start)'
  BY <1>1, <1>9, LayoutStays
<1>20. Placement'
  BY <1>16, <1>18, <1>19 DEF Placement
<1>21. TypeOK'
  <2>1. Len(buf') <= maxLine
    <3>1. maxLine \in Nat /\ b <= maxLine
      BY <1>3, StreamAssumption DEF StreamAssumption, TypeOK
    <3> QED
      BY <1>6, <1>7, <3>1
  <2> QED
    BY <1>1, <1>16, <1>17, <2>1 DEF TypeOK
<1>22. TooLongIsOneLine'
  BY <1>1 DEF TooLongIsOneLine, Longest
<1> QED
  BY <1>8, <1>16, <1>17, <1>20, <1>21, <1>22

\* Handling a line cut short, of a connection that has gone.
LEMMA CutLineStep ==
  ASSUME TypeOK, Delivered, NEW S \in Seq(Pieces), NEW start, NEW pos \in Nat,
         Layout(S, start), Placed(S, start, pos), NEW line, LineAt(S, pos, line), line # <<>>,
         HandleLine(line), UNCHANGED <<reader, sent>>
  PROVE  Takes /\ typ' \in Kinds \cup {NoType}
<1>1. PICK m \in Nat \ {0} : m = Len(line)
  BY DEF LineAt
<1>2. pos + m <= Len(S) /\ \A j \in 1..m : S[pos + j] # NL
  BY <1>1 DEF LineAt
<1>3. typ \in Kinds \cup {NoType}
  BY DEF TypeOK
<1>4. CASE PingLine(S, start, pos, m)
  BY <1>1, <1>3, <1>4, PingIsSkipped DEF Takes
<1>5. CASE FirstLine(S, start, pos, m) /\ reader = "Events"
  BY <1>1, <1>5, TypeIsRead DEF Takes
<1>6. CASE FirstLine(S, start, pos, m) /\ reader # "Events"
  <2>1. Takes /\ UNCHANGED <<typ, data>>
    BY <1>1, <1>6, EntryIsRead
  <2> QED
    BY <1>3, <2>1
<1>7. CASE DataLine(S, start, pos, m)
  BY <1>1, <1>3, <1>7, DataIsRead DEF Takes
<1>8. CASE LastLine(S, start, pos, m)
  BY <1>8 DEF LastLine
<1> QED
  BY <1>2, <1>4, <1>5, <1>6, <1>7, <1>8, LineCases

\* What the buffer holds when it has no newline is a line, or a part of one.
LEMMA RestIsLine ==
  ASSUME Shape, LineEnds = {}, NEW S \in Seq(Pieces), NEW pos \in Nat, Pending(S, pos)
  PROVE  LineAt(S, pos, buf)
<1>1. buf \in Seq(Pieces) /\ wire \in Seq(Pieces) /\ unsent \in Seq(Pieces)
  BY DEF Shape
<1>2. PICK b \in Nat, w \in Nat, u \in Nat, l \in Nat :
        b = Len(buf) /\ w = Len(wire) /\ u = Len(unsent) /\ l = Len(S)
  BY <1>1
<1>3. pos + b <= l
  <2>1. pos + b + w + u <= l
    BY <1>2 DEF Pending
  <2> QED
    BY <1>2, <2>1
<1>4. \A j \in 1..b : buf[j] # NL
  BY <1>1, <1>2 DEF LineEnds
<1>5. \A j \in 1..b : buf[j] = S[pos + j]
  BY <1>2 DEF Pending
<1> QED
  BY <1>1, <1>2, <1>3, <1>4, <1>5 DEF LineAt

\* A stream that ended properly ends between two frames, so with a newline.
LEMMA WholeEndsBetween ==
  ASSUME TypeOK, Delivered, Shape, Whole, atEnd, LineEnds = {},
         NEW S \in Seq(Pieces), NEW start, NEW pos \in Nat,
         Layout(S, start), Placed(S, start, pos), Pending(S, pos)
  PROVE  buf = <<>> /\ delivered = sent
<1>1. buf \in Seq(Pieces) /\ wire = <<>> /\ unsent = <<>>
  BY DEF Shape
<1>2. PICK b \in Nat, l \in Nat : b = Len(buf) /\ l = Len(S)
  BY <1>1
<1>3. pos + b = l
  <2>1. pos + b + Len(wire) + Len(unsent) = l
    BY <1>2 DEF Pending
  <2>2. Len(wire) = 0 /\ Len(unsent) = 0
    BY <1>1
  <2> QED
    BY <1>2, <2>1, <2>2
<1>4. b = 0
  <2> SUFFICES ASSUME b # 0 PROVE FALSE
    OBVIOUS
  <2>1. LineAt(S, pos, buf)
    BY RestIsLine
  <2>2. b \in 1..b
    BY <1>2
  <2>3. S[pos + b] # NL
    BY <1>2, <2>1, <2>2 DEF LineAt
  <2>4. LineStart(S, l) /\ l # 0
    BY <1>2, <1>3 DEF Layout
  <2> QED
    BY <1>3, <2>3, <2>4 DEF LineStart
<1>5. PICK k \in Nat, n \in Nat : k = Len(delivered) /\ n = Len(sent) /\ k <= n
  BY EndsAreNat
<1>6. k = n
  <2> SUFFICES ASSUME k < n PROVE FALSE
    BY <1>5
  <2>1. PICK e \in Events, s \in Nat, w \in Nat :
          /\ e = sent[k + 1] /\ s = start[k + 1] /\ w = Width(e)
          /\ s + Size(e) <= l
    BY <1>2, <1>5, NextFrame
  <2>2. Size(e) \in Nat /\ Size(e) >= 1 /\ (reader = "Events" => Size(e) = 6 + w)
    BY <2>1 DEF Size
  <2>3. pos = l
    BY <1>3, <1>4
  <2>4. CASE \A i \in 1..Len(sent) : i > k => pos <= start[i]
    <3>1. k + 1 \in 1..Len(sent) /\ k + 1 > k
      BY <1>5
    <3>2. pos <= s
      BY <2>1, <2>4, <3>1
    <3> QED
      BY <1>2, <2>1, <2>2, <2>3, <3>2
  <2>5. CASE reader = "Events" /\ (pos = s + 3 \/ pos = s + (5 + w))
    BY SMTT(30), <1>2, <2>1, <2>2, <2>3, <2>5
  <2> QED
    BY <1>5, <2>1, <2>4, <2>5 DEF Placed
<1>7. buf = <<>>
  <2>1. buf \in Seq(Pieces) /\ Len(buf) = 0
    BY <1>1, <1>2, <1>4
  <2> QED
    BY <2>1, EmptySeq
<1>8. delivered = sent
  <2>1. sent \in Seq(Events) /\ delivered \in Seq(Events)
    BY DEF TypeOK
  <2>2. Len(delivered) = Len(sent) /\ \A i \in 1..Len(delivered) : delivered[i] = sent[i]
    BY <1>5, <1>6 DEF Delivered
  <2> QED
    BY <2>1, <2>2, SeqEqual
<1> QED
  BY <1>7, <1>8

LEMMA ScanRestKeeps ==
  ASSUME StreamInv, ScanRest
  PROVE  StreamInv' /\ Takes
<1> USE DEF StreamInv
<1>1. /\ UNCHANGED <<reader, sent, frames, unsent, wire, conn, cancelled, atEnd, result>>
      /\ Running /\ atEnd /\ LineEnds = {} /\ buf # <<>> /\ HandleLine(buf) /\ buf' = <<>>
  BY DEF ScanRest, agentVars
<1>2. PICK S, start, pos : Layout(S, start) /\ Placed(S, start, pos) /\ Pending(S, pos)
  BY <1>1 DEF Placement, Spent
<1>3. S \in Seq(Pieces) /\ pos \in Nat
  BY <1>2 DEF Layout, Placed
<1>4. LineAt(S, pos, buf)
  BY <1>1, <1>2, <1>3, RestIsLine
<1>5. Takes /\ typ' \in Kinds \cup {NoType}
  BY <1>1, <1>2, <1>3, <1>4, CutLineStep
<1>6. Delivered' /\ delivered' \in Seq(Events)
  BY <1>1, <1>5, TakesDelivers
<1>7. ~Whole
  BY <1>1, <1>2, <1>3, WholeEndsBetween
<1>8. Placement'
  BY <1>1, <1>7 DEF Placement, Spent, Whole
<1>9. Shape'
  BY <1>1 DEF Shape
<1>10. TypeOK'
  <2>1. maxLine \in Nat
    BY StreamAssumption DEF StreamAssumption
  <2>2. Len(buf') = 0 /\ Len(buf') <= maxLine
    BY <1>1, <2>1
  <2> QED
    BY <1>1, <1>5, <1>6, <2>2 DEF TypeOK
<1>11. TooLongIsOneLine'
  BY <1>1 DEF TooLongIsOneLine, Longest
<1> QED
  BY <1>5, <1>6, <1>8, <1>9, <1>10, <1>11

\* The buffer is full of one line.
LEMMA FullOfOneLine ==
  ASSUME StreamInv, Running, ~atEnd, LineEnds = {}, Overlong
  PROVE  \E i \in DOMAIN sent : Longest(sent[i]) >= maxLine
<1> USE DEF StreamInv
<1>1. PICK S, start, pos : Layout(S, start) /\ Placed(S, start, pos) /\ Pending(S, pos)
  BY DEF Placement, Spent
<1>2. S \in Seq(Pieces) /\ pos \in Nat
  BY <1>1 DEF Layout, Placed
<1>3. LineAt(S, pos, buf)
  BY <1>1, <1>2, RestIsLine
<1>4. PICK m \in Nat : m = Len(buf) /\ m = maxLine /\ m >= 2
  <2>1. maxLine \in Nat /\ maxLine # 0 /\ maxLine # 1
    BY StreamAssumption DEF StreamAssumption
  <2>2. maxLine >= 2
    BY <2>1
  <2>3. Len(buf) = maxLine
    BY DEF Overlong
  <2> QED
    BY <2>1, <2>2, <2>3
<1>5. pos + m <= Len(S) /\ \A j \in 1..m : S[pos + j] # NL
  BY <1>3, <1>4 DEF LineAt
<1>6. ~PingLine(S, start, pos, m) /\ ~LastLine(S, start, pos, m)
  BY <1>4 DEF PingLine, LastLine
<1>7. CASE FirstLine(S, start, pos, m) \/ DataLine(S, start, pos, m)
  <2>1. Len(delivered) < Len(sent)
    BY <1>7 DEF FirstLine, DataLine
  <2>2. PICK i \in 1..Len(sent), e \in Events, w \in Nat :
          i = Len(delivered) + 1 /\ e = sent[i] /\ w = Width(e) /\ w >= 1
    BY <1>1, <2>1, NextFrame, EventFacts
  <2>3. Longest(e) = IF reader = "Events" THEN 1 + w ELSE 2 + w
    BY <2>2 DEF Longest, Width
  <2>4. m <= IF reader = "Events" THEN 1 + w ELSE 2 + w
    <3>1. CASE FirstLine(S, start, pos, m)
      <4>1. m <= IF reader = "Events" THEN 2 ELSE 2 + w
        BY <2>2, <3>1 DEF FirstLine
      <4> QED
        BY <2>2, <4>1
    <3>2. CASE DataLine(S, start, pos, m)
      BY <2>2, <3>2 DEF DataLine
    <3> QED
      BY <1>7, <3>1, <3>2
  <2>5. Longest(sent[i]) >= maxLine
    BY <1>4, <2>2, <2>3, <2>4
  <2>6. i \in DOMAIN sent
    BY <2>2 DEF TypeOK
  <2> QED
    BY <2>5, <2>6
<1> QED
  BY <1>1, <1>2, <1>4, <1>5, <1>6, <1>7, LineCases

LEMMA ReturnKeeps ==
  ASSUME StreamInv, Return
  PROVE  StreamInv'
<1> USE DEF StreamInv
<1>1. /\ UNCHANGED <<reader, sent, frames, cancelled, buf, atEnd, typ, data, delivered>>
      /\ Running /\ LineEnds = {} /\ (IF atEnd THEN buf = <<>> ELSE Overlong)
      /\ result' = Cause /\ conn' = "broken" /\ unsent' = <<>> /\ wire' = <<>>
  BY DEF Return
<1>2. result' \in Causes /\ (result' = "tooLong" => ~atEnd)
  BY <1>1 DEF Cause, Causes, TypeOK
<1>3. TypeOK'
  <2>1. Capacity \in Nat
    BY StreamAssumption DEF StreamAssumption
  <2>2. Len(wire') = 0 /\ Len(wire') <= Capacity
    BY <1>1, <2>1
  <2> QED
    BY <1>1, <1>2, <2>2 DEF TypeOK
<1>4. Shape'
  BY <1>1 DEF Shape
<1>5. Delivered'
  BY <1>1 DEF Delivered
<1>6. ~Running'
  BY <1>2, StreamAssumption DEF Running, StreamAssumption
<1>7. Placement'
  BY <1>6 DEF Placement
<1>8. TooLongIsOneLine'
  BY <1>1, <1>2, FullOfOneLine DEF TooLongIsOneLine, Longest
<1> QED
  BY <1>3, <1>4, <1>5, <1>7, <1>8

-----------------------------------------------------------------------------
(* The theorems.                                                             *)

LEMMA StreamInit == Init => StreamInv
<1> SUFFICES ASSUME Init PROVE StreamInv
  OBVIOUS
<1> USE DEF Init
<1>1. Capacity \in Nat /\ maxLine \in Nat /\ MaxFrames \in Nat /\ None \notin Causes
      /\ Readers \subseteq {"Events", "FollowLogs"}
  BY StreamAssumption DEF StreamAssumption
<1>2. TypeOK
  <2>1. sent \in Seq(Events) /\ delivered \in Seq(Events)
    BY EmptySeq
  <2>2. Len(wire) <= Capacity /\ Len(buf) <= maxLine /\ frames \in 0..MaxFrames
    BY <1>1
  <2> QED
    BY <2>1, <2>2 DEF TypeOK
<1>3. Shape
  BY <1>1 DEF Shape
<1>4. Delivered
  BY DEF Delivered
<1>5. PICK S \in Seq(Pieces) : S = <<>>
  BY EmptySeq
<1>6. PICK start : start = [i \in 1..0 |-> 0]
  OBVIOUS
<1>7. Len(sent) = 0 /\ Len(S) = 0 /\ Len(delivered) = 0 /\ 1..0 = {}
  BY <1>5
<1>8. start \in [1..Len(sent) -> Nat]
  BY <1>6, <1>7
<1>9. Layout(S, start)
  BY <1>7, <1>8 DEF Layout, LineStart
<1>10. Placed(S, start, 0)
  BY <1>7 DEF Placed, LineStart
<1>11. Pending(S, 0)
  BY <1>7 DEF Pending
<1>12. Placement
  BY <1>9, <1>10, <1>11 DEF Placement
<1>13. TooLongIsOneLine
  <2>1. result # "tooLong"
    BY <1>1 DEF Causes
  <2> QED
    BY <2>1 DEF TooLongIsOneLine
<1> QED
  BY <1>2, <1>3, <1>4, <1>12, <1>13 DEF StreamInv

LEMMA StreamStep == StreamInv /\ [Next]_vars => StreamInv'
<1> SUFFICES ASSUME StreamInv, [Next]_vars PROVE StreamInv'
  OBVIOUS
<1>1. ASSUME NEW f \in Events \cup {Ping}, Write(f) PROVE StreamInv'
  BY <1>1, WriteKeeps
<1>2. CASE Push
  BY <1>2, PushKeeps
<1>3. CASE HandlerReturns
  BY <1>3, HandlerReturnsKeeps
<1>4. CASE Break \/ Timeout \/ Cancel
  BY <1>4, ConnectionGoesKeeps
<1>5. CASE Read
  BY <1>5, ReadKeeps
<1>6. CASE ReadFails
  BY <1>6, ReadFailsKeeps
<1>7. CASE ScanLine
  BY <1>7, ScanLineKeeps
<1>8. CASE ScanRest
  BY <1>8, ScanRestKeeps
<1>9. CASE Return
  BY <1>9, ReturnKeeps
<1>10. CASE UNCHANGED vars
  <2>1. UNCHANGED <<reader, sent, frames, unsent, wire, conn, cancelled, buf, atEnd, typ, data, delivered, result>>
    BY <1>10 DEF vars, agentVars, parserVars
  <2>2. TypeOK' /\ Shape'
    BY <2>1 DEF StreamInv, TypeOK, Shape
  <2>3. \A S \in Seq(Pieces), pos \in Nat : Pending(S, pos) => Pending(S, pos)'
    BY <2>1 DEF Pending, Whole
  <2>4. Spent => Spent'
    BY <2>1 DEF Spent, Whole
  <2>5. Delivered' /\ Placement' /\ TooLongIsOneLine'
    BY <2>1, <2>3, <2>4, MoveKeeps
  <2> QED
    BY <2>2, <2>5 DEF StreamInv
<1> QED
  BY <1>1, <1>2, <1>3, <1>4, <1>5, <1>6, <1>7, <1>8, <1>9, <1>10 DEF Next, Agent, Scan

LEMMA StreamInvariant == Spec => []StreamInv
<1> QED
  BY StreamInit, StreamStep, PTL DEF Spec

\* Both buffers keep within their size, and everything handed to fn is an event:
\* the bytes a broken connection cuts never make one up.
THEOREM StreamTypeCorrect == Spec => []TypeOK
<1>1. StreamInv => TypeOK
  BY DEF StreamInv
<1> QED
  BY <1>1, StreamInvariant, PTL

\* bufio.ErrTooLong means one line that does not fit; lines that fit are taken
\* out of the buffer in time, whatever the connection delivers at once.
THEOREM OnlyOneLineOverflows == Spec => []TooLongIsOneLine
<1>1. StreamInv => TooLongIsOneLine
  BY DEF StreamInv
<1> QED
  BY <1>1, StreamInvariant, PTL

\* events.go, Events: the call ends because ctx is done, the connection has gone,
\* the agent has returned or a line is too long, and for no other reason.
THEOREM EventsRunsOn == Spec => EventsKeepsStream
<1> DEFINE Step == reader = "Events" /\ result' # result
                     => cancelled \/ Overlong \/ conn \in {"ended", "broken"}
<1>1. ASSUME StreamInv, [Next]_vars PROVE [Step]_vars
  <2>1. CASE Return
    <3>1. atEnd \/ Overlong
      BY <2>1 DEF Return
    <3>2. atEnd => conn # "open"
      BY <1>1 DEF StreamInv, Shape
    <3>3. reader = "Events" => conn # "timedOut"
      BY <1>1 DEF StreamInv, Shape
    <3>4. conn \in {"open", "ended", "broken", "timedOut"}
      BY <1>1 DEF StreamInv, TypeOK
    <3> QED
      BY <3>1, <3>2, <3>3, <3>4
  <2>2. CASE ~Return
    <3>1. UNCHANGED result \/ UNCHANGED vars
      BY <1>1, <2>2 DEF Next, Agent, Scan, HandlerReturns, Push, Write, Break, Timeout, Cancel,
                        Read, ReadFails, ScanLine, ScanRest, parserVars
    <3> QED
      BY <3>1
  <2> QED
    BY <2>1, <2>2
<1> HIDE DEF Step
<1>2. Spec => [][Step]_vars
  BY <1>1, StreamInvariant, PTL DEF Spec
<1> QED
  BY <1>2 DEF EventsKeepsStream, Step

\* The safety of DeliversWhole: every step of a stream is one of EventFeed's, or
\* none.  Events arrive in order, whole and once, whatever the connection cuts,
\* and the call returns EOF only when it has handed over all of them.
THEOREM StreamImplementsFeed == Spec => Feed!FeedSafety
<1>1. Init => Feed!FeedInit
  BY DEF Init, Feed!FeedInit
<1>2. ASSUME StreamInv, [Next]_vars PROVE [Feed!FeedNext]_(Feed!feedVars)
  <2> USE DEF Feed!FeedNext, Feed!feedVars
  <2>1. ASSUME NEW f \in Events \cup {Ping}, Write(f) PROVE [Feed!FeedNext]_(Feed!feedVars)
    <3>1. UNCHANGED <<delivered, result>>
      BY <2>1 DEF Write, parserVars
    <3>2. CASE f = Ping
      BY <2>1, <3>1, <3>2 DEF Write
    <3>3. CASE f # Ping
      BY <2>1, <3>1, <3>3 DEF Write, Feed!Send
    <3> QED
      BY <3>2, <3>3
  <2>2. CASE ScanLine
    <3>1. Takes /\ UNCHANGED <<sent, result>> /\ result = None
      BY <1>2, <2>2, ScanLineKeeps DEF ScanLine, agentVars, Running
    <3> QED
      BY <3>1 DEF Takes, Feed!Deliver
  <2>3. CASE ScanRest
    <3>1. Takes /\ UNCHANGED <<sent, result>> /\ result = None
      BY <1>2, <2>3, ScanRestKeeps DEF ScanRest, agentVars, Running
    <3> QED
      BY <3>1 DEF Takes, Feed!Deliver
  <2>4. CASE Return
    <3>1. UNCHANGED <<sent, delivered>> /\ result = None /\ result' = Cause
      BY <2>4 DEF Return, Running
    <3>2. Cause \in Causes
      BY <1>2 DEF Cause, Causes, StreamInv, TypeOK
    <3>3. ASSUME Cause = "EOF" PROVE delivered = sent
      <4>1. atEnd /\ buf = <<>> /\ LineEnds = {} /\ Running
        BY <2>4, <3>3 DEF Return, Cause
      <4>2. Whole
        BY <1>2, <3>3, <4>1 DEF Cause, Whole, StreamInv, TypeOK, Shape
      <4>3. PICK S, start, pos : Layout(S, start) /\ Placed(S, start, pos) /\ Pending(S, pos)
        BY <1>2, <4>1, <4>2 DEF StreamInv, Placement, Spent
      <4>4. S \in Seq(Pieces) /\ pos \in Nat
        BY <4>3 DEF Layout, Placed
      <4> QED
        BY <1>2, <4>1, <4>2, <4>3, <4>4, WholeEndsBetween DEF StreamInv
    <3>4. Feed!End(Cause)
      BY <3>1, <3>3 DEF Feed!End
    <3> QED
      BY <3>2, <3>4
  <2>5. CASE Push \/ HandlerReturns \/ Break \/ Timeout \/ Cancel \/ Read \/ ReadFails
    <3>1. UNCHANGED <<sent, delivered, result>>
      BY <2>5 DEF Push, HandlerReturns, Break, Timeout, Cancel, Read, ReadFails,
                  agentVars, parserVars
    <3> QED
      BY <3>1
  <2>6. CASE UNCHANGED vars
    BY <2>6 DEF vars, agentVars, parserVars
  <2> QED
    BY <1>2, <2>1, <2>2, <2>3, <2>4, <2>5, <2>6 DEF Next, Agent, Scan
<1> QED
  BY <1>1, <1>2, StreamInvariant, PTL DEF Spec, Feed!FeedSafety
=============================================================================
