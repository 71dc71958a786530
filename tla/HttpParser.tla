---------------------------- MODULE HttpParser ----------------------------
(***************************************************************************)
(* The request parser, fed with what has arrived so far                    *)
(* (src/src/http_parser.c 8-104).                                          *)
(*                                                                         *)
(* A call of nexus_http_req_feed consumes whole lines, or body bytes, and  *)
(* returns how much; the caller offers the rest again when more has come.  *)
(* The worker calls it once, with its first read, and closes the           *)
(* connection if that is not a whole request (ProxyWorker!NoRequest).      *)
(*                                                                         *)
(* A request is a sequence of cells: "CR" and "LF"; "R", a request line;   *)
(* "H", a header; "C", a Content-Length of BodyLen; "Z", one that atoi     *)
(* reads as 0 or less; "x", any other text, without colon or digit.        *)
(***************************************************************************)
EXTENDS Integers, Sequences, FiniteSets

CONSTANTS
  Streams,   \* what a client may send
  LineMax,   \* sizeof(line_buf) - 1, in cells
  HeaderMax, \* NEXUS_HTTP_HEADER_MAX
  BodyLen    \* what "C" announces

Cells == {"CR", "LF", "R", "H", "C", "Z", "x"}

ASSUME StreamsAssumption == Streams \subseteq Seq(Cells)
ASSUME SizesAssumption == LineMax \in Nat /\ HeaderMax \in Nat /\ BodyLen \in Nat \ {0}

VARIABLES
  data,      \* what the client sends
  avail,     \* how much of it has arrived
  pos,       \* consumed
  calling,   \* inside a call
  st,        \* the parser's state
  headers,   \* the lines taken for headers
  remaining  \* body_remaining

vars == <<data, avail, pos, calling, st, headers, remaining>>

-----------------------------------------------------------------------------
Final == {"DONE", "INVALID"}

Init ==
  /\ data \in Streams
  /\ avail = 0 /\ pos = 0
  /\ calling = FALSE
  /\ st = "REQ_LINE"
  /\ headers = <<>>
  /\ remaining = 0

SmallerOf(m, n) == IF m < n THEN m ELSE n

\* Where the line that starts after pos may end: at a CR LF that has arrived.
Eols == {i \in pos + 1 .. avail - 1 : data[i] = "CR" /\ data[i + 1] = "LF"}

FoundEol(e) == e \in Eols /\ \A i \in Eols : e <= i

\* A line that does not fit into line_buf is cut, and consumed as if it ended there.
LineLength(e) == SmallerOf(e - pos - 1, LineMax)

Line(e) == SubSeq(data, pos + 1, pos + LineLength(e))

RequestLineOK(line) == line = <<"R">>

HasColon(line) == \E i \in 1 .. Len(line) : line[i] \in {"H", "C", "Z"}

\* Mutant of Announced: the last one counts.
AnnouncedLast(lines) ==
  LET lengths == {i \in 1 .. Len(lines) : lines[i][1] \in {"C", "Z"}}
  IN  IF \E i \in lengths : lines[i][1] = "C" /\ \A j \in lengths : j <= i THEN BodyLen ELSE 0

\* nexus_headers_get("content-length"), the first one, and atoi.
Announced(lines) ==
  LET lengths == {i \in 1 .. Len(lines) : lines[i][1] \in {"C", "Z"}}
  IN  IF \E i \in lengths : lines[i][1] = "C" /\ \A j \in lengths : i <= j THEN BodyLen ELSE 0

-----------------------------------------------------------------------------
\* More has arrived, and the caller offers what is not consumed yet.
Feed ==
  /\ ~calling /\ st \notin Final
  /\ avail' \in avail + 1 .. Len(data)
  /\ calling' = TRUE
  /\ UNCHANGED <<data, pos, st, headers, remaining>>

\* The loop is left: all is consumed, the request is whole, or a line is incomplete.
Return ==
  /\ calling
  /\ \/ pos = avail
     \/ st \in Final
     \/ st \in {"REQ_LINE", "HEADER"} /\ Eols = {}
  /\ calling' = FALSE
  /\ UNCHANGED <<data, avail, pos, st, headers, remaining>>

\* The loop's turn for a body.
TakeBody ==
  /\ calling /\ pos < avail /\ st = "BODY"
  /\ LET take == SmallerOf(avail - pos, remaining)
     IN  /\ pos' = pos + take
         /\ remaining' = remaining - take
         /\ st' = IF remaining = take THEN "DONE" ELSE "BODY"
  /\ UNCHANGED <<data, avail, calling, headers>>

\* A line that makes the request invalid is not consumed.
Reject ==
  /\ st' = "INVALID" /\ calling' = FALSE
  /\ UNCHANGED <<pos, headers, remaining>>

\* Mutant of Consume: the line without its CR LF.
ConsumeText(e) == pos' = pos + LineLength(e)

Consume(e) == pos' = pos + LineLength(e) + 2

RequestLine(e) ==
  /\ st = "REQ_LINE"
  /\ IF RequestLineOK(Line(e))
       THEN st' = "HEADER" /\ Consume(e) /\ UNCHANGED <<calling, headers, remaining>>
       ELSE Reject

\* The check for 100 headers comes before one that fails at HeaderMax and is never met.
HeaderLine(e) ==
  /\ st = "HEADER" /\ LineLength(e) > 0
  /\ IF HasColon(Line(e)) /\ Len(headers) < HeaderMax
       THEN headers' = Append(headers, Line(e)) /\ Consume(e) /\ UNCHANGED <<calling, st, remaining>>
       ELSE Reject

BlankLine(e) ==
  /\ st = "HEADER" /\ LineLength(e) = 0
  /\ remaining' = Announced(headers)
  /\ st' = IF Announced(headers) > 0 THEN "BODY" ELSE "DONE"
  /\ Consume(e)
  /\ UNCHANGED <<calling, headers>>

\* The loop's turn for a line.
TakeLine ==
  /\ calling /\ pos < avail
  /\ \E e \in 1 .. avail : FoundEol(e) /\ (RequestLine(e) \/ HeaderLine(e) \/ BlankLine(e))
  /\ UNCHANGED <<data, avail>>

Next == Feed \/ Return \/ TakeBody \/ TakeLine

Spec == Init /\ [][Next]_vars

\* The parser runs, and a client sends the rest of what it has begun.
FairSpec == Spec /\ WF_vars(Next)

-----------------------------------------------------------------------------
(* What must hold.                                                          *)

\* The parser stays inside what it was given, although it consumes a line that it has
\* cut by another length than it read; the table of headers stays within its size.
TypeOK ==
  /\ data \in Seq(Cells)
  /\ avail \in 0 .. Len(data) /\ pos \in 0 .. avail
  /\ calling \in BOOLEAN
  /\ st \in {"REQ_LINE", "HEADER", "BODY"} \cup Final
  /\ headers \in Seq(Seq(Cells) \ {<<>>}) /\ Len(headers) <= HeaderMax
  /\ remaining \in 0 .. BodyLen

\* The same request read at one glance: the ends and starts of its lines, its blank
\* line, and the verdict on all that has arrived.
Ends(s)   == {i \in 1 .. Len(s) - 1 : s[i] = "CR" /\ s[i + 1] = "LF"}
Starts(s) == {1} \cup {i + 2 : i \in Ends(s)}
First(S)  == CHOOSE i \in S : \A j \in S : i <= j
Last(S)   == CHOOSE i \in S : \A j \in S : j <= i

Whole(s, b) == SubSeq(s, b, First({i \in Ends(s) : b <= i}) - 1)

Verdict(s) ==
  LET blanks   == (Ends(s) \cap Starts(s)) \ {1}
      complete == {b \in Starts(s) : \E i \in Ends(s) : b <= i}
      head     == {b \in complete : blanks = {} \/ b < First(blanks)}
      bad      == {b \in head : IF b = 1 THEN Whole(s, b) # <<"R">>
                                ELSE \/ ~HasColon(Whole(s, b))
                                     \/ Cardinality({c \in head : c < b}) > HeaderMax}
      lengths  == {b \in head : b > 1 /\ s[b] \in {"C", "Z"}}
      body     == IF lengths # {} /\ s[First(lengths)] = "C" THEN BodyLen ELSE 0
      come     == Len(s) - First(blanks) - 1
  IN  IF bad # {} THEN [st |-> "INVALID", pos |-> First(bad) - 1]
      ELSE IF blanks = {}
        THEN [st |-> IF Ends(s) = {} THEN "REQ_LINE" ELSE "HEADER", pos |-> Last(Starts(s)) - 1]
        ELSE [st  |-> IF come < body THEN "BODY" ELSE "DONE",
              pos |-> First(blanks) + 1 + SmallerOf(come, body)]

LinesFit == \A b \in {b \in Starts(data) : \E i \in Ends(data) : b <= i} : Len(Whole(data, b)) <= LineMax

\* However a request is split over calls, in the middle of a line, of a CR LF or of a
\* body, the parser is where one look at all that has arrived puts it.
SplitsDoNotMatter ==
  ~calling /\ LinesFit => [st |-> st, pos |-> pos] = Verdict(SubSeq(data, 1, avail))

\* Every call returns, and a request that is whole and well formed is recognised.
Recognised ==
  LinesFit /\ Verdict(data).st \in Final ~> ~calling /\ st = Verdict(data).st
=============================================================================
