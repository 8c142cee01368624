----------------------------- MODULE EventStream -----------------------------
(***************************************************************************)
(* The two streams the repository reads, from the write to the callback.   *)
(* "Events" is one GET /v1/events: agent/events.go writes frames, and      *)
(* Client.Events in controller/events.go assembles events out of lines.    *)
(* "FollowLogs" is one GET /logs of the core: it writes a line per entry,  *)
(* and Core.FollowLogs in corehooks/corehooks.go parses each by itself.    *)
(* The connection carries the bytes in any pieces and may break at any of  *)
(* them; both readers cut lines with a bufio.Scanner.                      *)
(*                                                                         *)
(* The bytes are abstracted to pieces: a field name with its colon, a      *)
(* value or a part of one, a newline.  A connection cuts between pieces.   *)
(***************************************************************************)
EXTENDS Naturals, Sequences

CONSTANTS
  Readers,    \* the streams considered, "Events" and "FollowLogs"
  Kinds,      \* event types, or levels of log lines
  Payloads,   \* data of an event: a nonempty sequence of pieces
  maxLine,    \* pieces the scanner's buffer holds (1 MiB)
  Capacity,   \* pieces the connection holds before a write blocks
  MaxFrames,  \* bound of the model: frames the agent writes
  NL,         \* the newline
  None        \* the call has not returned

\* The pieces with a meaning of their own, and no type (an empty string).
Marks == {NL, ":", "event:", "data:", "}"}
NoType == ""

\* The pieces of a value.
Parts == STRING \ Marks

\* What a call returns.
Causes == {"EOF", "cancelled", "broken", "timedOut", "tooLong"}

\* canonjson escapes newlines, and the brace is the one that closes the entry.
ASSUME StreamAssumption ==
  /\ Readers \subseteq {"Events", "FollowLogs"}
  /\ maxLine \in Nat \ {0, 1}
  /\ Capacity \in Nat \ {0}
  /\ MaxFrames \in Nat
  /\ NL \notin {":", "event:", "data:", "}"}
  /\ Kinds \cap Marks = {}
  /\ NoType \notin Kinds
  /\ None \notin Causes
  /\ \A p \in Payloads : p \in Seq(Parts) /\ p # <<>>

VARIABLES
  reader,     \* which stream this is
  sent,       \* history: the events the agent has started to write
  frames,     \* how many frames, pings too
  unsent,     \* pieces of the present frame the connection has not taken
  wire,       \* pieces on their way
  conn,       \* "open"; "ended": the writer has returned; "broken"; "timedOut"
  cancelled,  \* ctx is done
  buf,        \* the scanner's buffer
  atEnd,      \* the scanner has seen the end of the body, or an error
  typ, data,  \* the event being assembled
  delivered,  \* the calls of fn
  result      \* what the call has returned

agentVars == <<sent, frames, unsent>>
parserVars == <<buf, atEnd, typ, data, delivered, result>>
vars == <<reader, agentVars, wire, conn, cancelled, parserVars>>

Events == [kind: Kinds, data: Payloads]
Ping == [kind |-> "ping", data |-> <<>>]

\* frame, and the heartbeat's comment: what write puts on the connection.
frame(f) ==
  IF f = Ping THEN <<":", NL, NL>>
  ELSE <<"event:", f.kind, NL, "data:">> \o f.data \o <<NL, NL>>

\* A log entry of the core: a JSON object, which ends with its brace.
LogEntry(f) == <<f.kind>> \o f.data \o <<"}", NL>>

\* The longest line of what is written for an event.
Longest(f) == IF reader = "Events" THEN 1 + Len(f.data) ELSE 2 + Len(f.data)

Init ==
  /\ reader \in Readers
  /\ sent = <<>>
  /\ frames = 0
  /\ unsent = <<>>
  /\ wire = <<>>
  /\ conn = "open"
  /\ cancelled = FALSE
  /\ buf = <<>>
  /\ atEnd = FALSE
  /\ typ = NoType
  /\ data = <<>>
  /\ delivered = <<>>
  /\ result = None

-----------------------------------------------------------------------------
\* The agent or the core writes the next frame; the write before it has
\* returned.  The core has no heartbeat.
Write(f) ==
  /\ f = Ping => reader = "Events"
  /\ conn = "open"
  /\ unsent = <<>>
  /\ frames < MaxFrames
  /\ frames' = frames + 1
  /\ sent' = IF f = Ping THEN sent ELSE Append(sent, f)
  /\ unsent' = IF reader = "Events" THEN frame(f) ELSE LogEntry(f)
  /\ UNCHANGED <<reader, wire, conn, cancelled, parserVars>>

\* The connection takes a piece: a write blocks while it holds all it can.
Push ==
  /\ conn = "open"
  /\ unsent # <<>>
  /\ Len(wire) < Capacity
  /\ wire' = Append(wire, Head(unsent))
  /\ unsent' = Tail(unsent)
  /\ UNCHANGED <<reader, sent, frames, conn, cancelled, parserVars>>

\* The writer returns between two frames, and the body ends properly.
HandlerReturns ==
  /\ conn = "open"
  /\ unsent = <<>>
  /\ conn' = "ended"
  /\ UNCHANGED <<reader, agentVars, wire, cancelled, parserVars>>

\* What is left of the pieces on their way when the connection goes.
LoseSuffix == \E n \in 0..Len(wire) : wire' = SubSeq(wire, 1, n)

\* The connection breaks, even when only the end of the body is on its way.
Break ==
  /\ conn \in {"open", "ended"}
  /\ conn' = "broken"
  /\ unsent' = <<>>
  /\ LoseSuffix
  /\ UNCHANGED <<reader, sent, frames, cancelled, parserVars>>

\* Mutant of Timed: Events uses the client of the other calls, with its timeout.
TimedAll == {"Events", "FollowLogs"}

\* The readers whose http.Client has a Timeout, which covers the body: 40 s in
\* corehooks.New; Events makes itself a client without one.
Timed == {"FollowLogs"}

\* Client.Timeout is over: reads of the body fail.
Timeout ==
  /\ reader \in Timed
  /\ result = None
  /\ conn \in {"open", "ended"}
  /\ conn' = "timedOut"
  /\ unsent' = <<>>
  /\ LoseSuffix
  /\ UNCHANGED <<reader, sent, frames, cancelled, parserVars>>

\* The caller cancels ctx: reads of the body fail.
Cancel ==
  /\ ~cancelled
  /\ result = None
  /\ cancelled' = TRUE
  /\ conn' = "broken"
  /\ unsent' = <<>>
  /\ LoseSuffix
  /\ UNCHANGED <<reader, sent, frames, parserVars>>

-----------------------------------------------------------------------------
Running == result = None

LineEnds == {i \in DOMAIN buf : buf[i] = NL}
FirstEnd == CHOOSE i \in LineEnds : \A j \in LineEnds : i <= j

\* Mutant of Overlong: the newline is not given the last place.
OverlongByOne == Len(buf) + 1 >= maxLine

\* The buffer is full (what it has handed out no longer counts).
Overlong == Len(buf) = maxLine

\* Scan reads when its buffer holds no line: some of what has arrived, and
\* at most what the buffer has room for.
Read ==
  /\ Running
  /\ ~atEnd
  /\ LineEnds = {}
  /\ ~Overlong
  /\ \E n \in 1..Len(wire) : /\ Len(buf) + n <= maxLine
                             /\ buf' = buf \o SubSeq(wire, 1, n)
                             /\ wire' = SubSeq(wire, n + 1, Len(wire))
  /\ UNCHANGED <<reader, agentVars, conn, cancelled, atEnd, typ, data, delivered, result>>

\* Mutant of ReadFails: a read error is tried again, only io.EOF ends it.
ReadFailsOnEOF ==
  /\ Running
  /\ ~atEnd
  /\ LineEnds = {}
  /\ ~Overlong
  /\ wire = <<>>
  /\ conn = "ended"
  /\ atEnd' = TRUE
  /\ UNCHANGED <<reader, agentVars, wire, conn, cancelled, buf, typ, data, delivered, result>>

\* The read that returns io.EOF or an error.
ReadFails ==
  /\ Running
  /\ ~atEnd
  /\ LineEnds = {}
  /\ ~Overlong
  /\ wire = <<>>
  /\ conn # "open"
  /\ atEnd' = TRUE
  /\ UNCHANGED <<reader, agentVars, wire, conn, cancelled, buf, typ, data, delivered, result>>

\* A blank line: fn is called if there is anything to hand over.  The data
\* lines are joined.
Blank(line) ==
  /\ line = <<>>
  /\ delivered' = IF typ = NoType /\ data = <<>> THEN delivered
                  ELSE Append(delivered, [kind |-> IF typ = NoType THEN "message" ELSE typ,
                                          data |-> data])
  /\ typ' = NoType
  /\ data' = <<>>

Starts(line, field) == line # <<>> /\ line[1] = field

\* An event or data field, cut short perhaps; comments and unknown fields are
\* skipped.  Only one data line comes with a frame, so the lines are kept joined.
Field(line) ==
  /\ line # <<>>
  /\ typ' = IF Starts(line, "event:") THEN IF Len(line) = 1 THEN NoType ELSE line[2]
             ELSE typ
  /\ data' = IF Starts(line, "data:") THEN data \o Tail(line) ELSE data
  /\ UNCHANGED delivered

\* FollowLogs: a line that does not parse, cut short perhaps, is skipped.
Entry(line) ==
  /\ delivered' = IF line # <<>> /\ line[Len(line)] = "}"
                  THEN Append(delivered, [kind |-> line[1],
                                          data |-> SubSeq(line, 2, Len(line) - 1)])
                  ELSE delivered
  /\ UNCHANGED <<typ, data>>

HandleLine(line) ==
  \/ reader = "Events" /\ (Blank(line) \/ Field(line))
  \/ reader = "FollowLogs" /\ Entry(line)

\* Scan finds a line.
ScanLine ==
  /\ Running
  /\ LineEnds # {}
  /\ HandleLine(SubSeq(buf, 1, FirstEnd - 1))
  /\ buf' = SubSeq(buf, FirstEnd + 1, Len(buf))
  /\ UNCHANGED <<reader, agentVars, wire, conn, cancelled, atEnd, result>>

\* Mutant of ScanRest: what is left counts as a finished event.
ScanRestDispatches ==
  /\ Running
  /\ atEnd
  /\ LineEnds = {}
  /\ buf # <<>>
  /\ Starts(buf, "data:")
  /\ typ # NoType
  /\ delivered' = Append(delivered, [kind |-> typ, data |-> data \o Tail(buf)])
  /\ buf' = <<>>
  /\ UNCHANGED <<reader, agentVars, wire, conn, cancelled, atEnd, typ, data, result>>

\* At the end of the body, what is left without a newline is a line too.
ScanRest ==
  /\ Running
  /\ atEnd
  /\ LineEnds = {}
  /\ buf # <<>>
  /\ HandleLine(buf)
  /\ buf' = <<>>
  /\ UNCHANGED <<reader, agentVars, wire, conn, cancelled, atEnd, result>>

\* The cause: ctx.Err before sc.Err before io.EOF, which FollowLogs returns as nil.
Cause == IF cancelled THEN "cancelled"
         ELSE IF ~atEnd THEN "tooLong"
         ELSE IF conn \in {"broken", "timedOut"} THEN conn
         ELSE "EOF"

\* Scan is false; the call closes the body and returns.
Return ==
  /\ Running
  /\ LineEnds = {}
  /\ IF atEnd THEN buf = <<>> ELSE Overlong
  /\ result' = Cause
  /\ conn' = "broken"
  /\ unsent' = <<>>
  /\ wire' = <<>>
  /\ UNCHANGED <<reader, sent, frames, cancelled, buf, atEnd, typ, data, delivered>>

-----------------------------------------------------------------------------
Agent == HandlerReturns \/ Push \/ \E f \in Events \cup {Ping} : Write(f)

Scan == Read \/ ReadFails \/ ScanLine \/ ScanRest \/ Return

Next == Agent \/ Break \/ Timeout \/ Cancel \/ Scan

Spec == Init /\ [][Next]_vars

(***************************************************************************)
(* Fairness: the connection moves what it can hold, and the call keeps     *)
(* running: fn returns.                                                    *)
(***************************************************************************)
FairSpec == Spec /\ WF_vars(Push) /\ WF_vars(Scan)

-----------------------------------------------------------------------------
\* Every variable keeps its type; neither buffer holds more than it may.
TypeOK ==
  /\ sent \in Seq(Events)
  /\ frames \in 0..MaxFrames
  /\ Len(wire) <= Capacity
  /\ Len(buf) <= maxLine
  /\ conn \in {"open", "ended", "broken", "timedOut"}
  /\ cancelled \in BOOLEAN
  /\ atEnd \in BOOLEAN
  /\ typ \in Kinds \cup {NoType}
  /\ delivered \in Seq(Events)
  /\ result \in Causes \cup {None}

\* events.go, "calling fn for each event until ... the stream ends", "io.EOF
\* when the agent closed the stream": whatever the connection cuts, the
\* callback gets a prefix of the events, each whole, and all of them on EOF.
Feed == INSTANCE EventFeed WITH over <- result
DeliversWhole == Feed!FeedSpec

\* The scanner gives up on its buffer only for a line that long, never
\* because lines that fit have piled up.
TooLongIsOneLine ==
  result = "tooLong" => \E i \in DOMAIN sent : Longest(sent[i]) >= maxLine

\* A stream that is over is noticed: the call returns.
EventsReturns == conn # "open" ~> result # None

\* events.go, "until ctx is cancelled or the stream ends", "no overall timeout:
\* the stream is long-lived": Events never ends a stream that could go on, but
\* for a line longer than its buffer.
EventsKeepsStream ==
  [][reader = "Events" /\ result' # result
       => cancelled \/ Overlong \/ conn \in {"ended", "broken"}]_vars
=============================================================================
