------------------------- MODULE HttpParser_proofs -------------------------
(***************************************************************************)
(* For every stream a client sends, every way to split it over calls, and  *)
(* every size of the line buffer and the table of headers: the parser      *)
(* stays inside what it was given (TypeCorrect), and if every line fits    *)
(* into the line buffer the split does not show (SplitsHarmless).          *)
(***************************************************************************)
EXTENDS HttpParser, SequenceTheorems, FiniteSetTheorems, WellFoundedInduction, TLAPS

USE SizesAssumption DEF Cells

\* A line that is found ends before the last byte that has arrived, so what is consumed,
\* its text, cut or not, and two more, does not reach past that byte.
LEMMA LineInside ==
  ASSUME TypeOK, NEW e, FoundEol(e)
  PROVE  /\ LineLength(e) \in Nat
         /\ pos + LineLength(e) + 2 \in pos .. avail
         /\ Line(e) \in Seq(Cells) /\ Len(Line(e)) = LineLength(e)
<1>1. e \in pos + 1 .. avail - 1 /\ pos \in Nat /\ avail \in Nat /\ avail <= Len(data) /\ e \in Int
  BY DEF FoundEol, Eols, TypeOK
<1>2. LineLength(e) \in Nat /\ LineLength(e) <= e - pos - 1
  BY <1>1 DEF LineLength, SmallerOf
<1>3. pos + LineLength(e) + 2 \in pos .. avail
  BY <1>1, <1>2
<1>4. data \in Seq(Cells)
  BY DEF TypeOK
<1>5. pos + 1 \in 1 .. Len(data) + 1 /\ pos + LineLength(e) \in (pos + 1) - 1 .. Len(data)
  BY <1>1, <1>2, <1>4
<1>6. Line(e) \in Seq(Cells) /\ Len(Line(e)) = LineLength(e)
  <2>1. \A i \in pos + 1 .. pos + LineLength(e) : i \in 1 .. Len(data)
    BY <1>5, <1>2, <1>1
  <2>2. Line(e) \in Seq(Cells)
    BY <1>4, <1>1, <1>2, <2>1, SubSeqProperties DEF Line
  <2>3. Len(Line(e)) = LineLength(e)
    BY <1>4, <1>1, <1>2, <2>1, SubSeqProperties DEF Line
  <2>. QED
    BY <2>2, <2>3
<1>. QED
  BY <1>2, <1>3, <1>6

\* The body announced is BodyLen or none.
LEMMA AnnouncedType == ASSUME NEW lines PROVE Announced(lines) \in {0, BodyLen}
BY DEF Announced

\* It starts inside.
LEMMA InitTypeOK == Init => TypeOK
<1>. SUFFICES ASSUME Init PROVE TypeOK
  OBVIOUS
<1>1. data \in Seq(Cells) /\ Len(data) \in Nat
  BY StreamsAssumption, LenProperties DEF Init
<1>2. headers \in Seq(Seq(Cells) \ {<<>>}) /\ Len(headers) = 0
  BY EmptySeq DEF Init
<1>3. avail \in 0 .. Len(data) /\ pos \in 0 .. avail /\ remaining \in 0 .. BodyLen
  BY <1>1 DEF Init
<1>4. calling \in BOOLEAN /\ st \in {"REQ_LINE", "HEADER", "BODY"} \cup Final
  BY DEF Init
<1>5. Len(headers) <= HeaderMax
  BY <1>2
<1>. QED
  BY <1>1, <1>2, <1>3, <1>4, <1>5 DEF TypeOK

\* And every turn of the loop stays inside.
LEMMA NextTypeOK == TypeOK /\ [Next]_vars => TypeOK'
<1>. SUFFICES ASSUME TypeOK, [Next]_vars PROVE TypeOK'
  OBVIOUS
<1>1. CASE Feed
  <2>1. avail' \in 0 .. Len(data') /\ pos' \in 0 .. avail'
    BY <1>1 DEF Feed, TypeOK
  <2>. QED
    BY <1>1, <2>1 DEF Feed, TypeOK
<1>2. CASE Return
  BY <1>2 DEF Return, TypeOK
<1>3. CASE TakeBody
  <2>. DEFINE take == SmallerOf(avail - pos, remaining)
  <2>1. pos \in Nat /\ avail \in Nat /\ avail - pos \in Nat /\ remaining \in 0 .. BodyLen
    BY DEF TypeOK
  <2>2. take \in Nat /\ take <= avail - pos /\ take <= remaining
    BY <2>1 DEF SmallerOf
  <2>3. pos' = pos + take /\ remaining' = remaining - take /\ avail' = avail
    BY <1>3 DEF TakeBody
  <2>. HIDE DEF take
  <2>4. pos' \in 0 .. avail' /\ remaining' \in 0 .. BodyLen
    BY <2>1, <2>2, <2>3
  <2>5. st' \in {"REQ_LINE", "HEADER", "BODY"} \cup Final
    BY <1>3 DEF TakeBody, Final
  <2>. QED
    BY <1>3, <2>4, <2>5 DEF TakeBody, TypeOK
<1>4. CASE TakeLine
  <2>1. PICK e \in 1 .. avail : FoundEol(e) /\ (RequestLine(e) \/ HeaderLine(e) \/ BlankLine(e))
    BY <1>4 DEF TakeLine
  <2>2. /\ LineLength(e) \in Nat
        /\ pos + LineLength(e) + 2 \in pos .. avail
        /\ Line(e) \in Seq(Cells) /\ Len(Line(e)) = LineLength(e)
    BY <2>1, LineInside
  <2>3. UNCHANGED <<data, avail>> /\ calling \in BOOLEAN
    BY <1>4 DEF TakeLine, TypeOK
  <2>4. Consume(e) => pos' \in 0 .. avail'
    BY <2>2, <2>3 DEF Consume, TypeOK
  <2>5. CASE RequestLine(e)
    BY <2>3, <2>4, <2>5 DEF RequestLine, Reject, TypeOK, Final
  <2>6. CASE HeaderLine(e)
    <3>1. CASE HasColon(Line(e)) /\ Len(headers) < HeaderMax
      <4>1. /\ headers' = Append(headers, Line(e)) /\ Consume(e)
            /\ UNCHANGED <<calling, st, remaining>> /\ LineLength(e) > 0
        BY <2>6, <3>1 DEF HeaderLine
      <4>2. Line(e) # <<>> /\ headers \in Seq(Seq(Cells) \ {<<>>}) /\ Len(headers) < HeaderMax
        BY <2>2, <4>1, <3>1 DEF TypeOK
      <4>3. headers' \in Seq(Seq(Cells) \ {<<>>}) /\ Len(headers') <= HeaderMax
        BY <4>1, <4>2, <2>2, AppendProperties
      <4>. QED
        BY <4>1, <4>3, <2>3, <2>4 DEF TypeOK
    <3>2. CASE ~(HasColon(Line(e)) /\ Len(headers) < HeaderMax)
      BY <2>6, <3>2, <2>3 DEF HeaderLine, Reject, TypeOK, Final
    <3>. QED
      BY <3>1, <3>2
  <2>7. CASE BlankLine(e)
    BY <2>3, <2>4, <2>7, AnnouncedType DEF BlankLine, TypeOK, Final
  <2>. QED
    BY <2>1, <2>5, <2>6, <2>7
<1>5. CASE UNCHANGED vars
  BY <1>5 DEF vars, TypeOK
<1>. QED
  BY <1>1, <1>2, <1>3, <1>4, <1>5 DEF Next

\* The parser never consumes more than it was given (a line that it has cut is consumed by
\* its cut length), nor stores more headers than there is room for.
THEOREM TypeCorrect == Spec => []TypeOK
BY InitTypeOK, NextTypeOK, PTL DEF Spec

-----------------------------------------------------------------------------
(* Lines, their starts and ends.                                            *)

LEMMA FirstFacts ==
  ASSUME NEW S \in SUBSET Nat, S # {}
  PROVE  First(S) \in S /\ \A i \in S : First(S) <= i
<1>1. IsWellFoundedOn(OpToRel(<, Nat), Nat)
  BY NatLessThanWellFounded
<1>2. PICK m \in S : \A i \in S : <<i, m>> \notin OpToRel(<, Nat)
  BY <1>1, WFMin
<1>3. ASSUME NEW i \in S
      PROVE  m <= i
  <2>1. i \in Nat /\ m \in Nat /\ <<i, m>> \in Nat \X Nat
    OBVIOUS
  <2>2. ~(i < m)
    BY <1>2, <2>1 DEF OpToRel
  <2> QED
    BY <2>1, <2>2
<1> QED
  BY <1>3 DEF First

LEMMA FirstIs ==
  ASSUME NEW S \in SUBSET Nat, NEW m \in S, \A i \in S : m <= i
  PROVE  First(S) = m
<1>1. First(S) \in S /\ \A i \in S : First(S) <= i
  BY DEF First
<1>2. First(S) \in Nat /\ m \in Nat /\ First(S) <= m /\ m <= First(S)
  BY <1>1
<1> QED
  BY <1>2

LEMMA LastIs ==
  ASSUME NEW S \in SUBSET Nat, NEW m \in S, \A i \in S : i <= m
  PROVE  Last(S) = m
<1>1. Last(S) \in S /\ \A i \in S : i <= Last(S)
  BY DEF Last
<1>2. Last(S) \in Nat /\ m \in Nat /\ Last(S) <= m /\ m <= Last(S)
  BY <1>1
<1> QED
  BY <1>2

\* Lines do not overlap: no line ends where another's CR LF does, nor right after it begins
\* to, and the one that ends before a start is the last before it.
LEMMA EndsFacts ==
  ASSUME NEW s \in Seq(Cells)
  PROVE  /\ Len(s) \in Nat
         /\ \A i \in Ends(s) : /\ i \in Nat /\ 0 < i /\ i < Len(s)
                               /\ i + 1 \notin Ends(s) /\ i + 2 \in Starts(s)
         /\ \A b \in Starts(s) : /\ b \in Nat /\ 0 < b
                                 /\ b = 1 \/ b - 2 \in Ends(s)
                                 /\ b - 1 \notin Ends(s)
         /\ 1 \in Starts(s)
<1>1. Len(s) \in Nat
  BY LenProperties
<1>2. \A i \in Ends(s) : /\ i \in Nat /\ 0 < i /\ i < Len(s)
                         /\ i + 1 \notin Ends(s) /\ i + 2 \in Starts(s)
  BY <1>1 DEF Ends, Starts
<1>3. \A b \in Starts(s) : b = 1 \/ b - 2 \in Ends(s)
  BY <1>2 DEF Starts
<1>4. ASSUME NEW b \in Starts(s)
      PROVE  b \in Nat /\ 0 < b /\ b - 1 \notin Ends(s)
  <2>1. CASE b = 1
    BY <1>2, <2>1
  <2>2. CASE b - 2 \in Ends(s)
    <3>1. PICK i \in Ends(s) : b = i + 2
      BY <1>2, <1>4, <2>2 DEF Starts
    <3> QED
      BY <1>2, <3>1
  <2> QED
    BY <1>3, <2>1, <2>2
<1> QED
  BY <1>1, <1>2, <1>3, <1>4 DEF Starts

\* What is seen of the lines in a part of what is sent.
LEMMA PrefixFacts ==
  ASSUME NEW s \in Seq(Cells), NEW n \in 0 .. Len(s), NEW p, p = SubSeq(s, 1, n)
  PROVE  /\ p \in Seq(Cells) /\ Len(p) = n /\ \A i \in 1 .. n : p[i] = s[i]
         /\ Ends(p) = {i \in Ends(s) : i < n}
         /\ \A b : b \in Starts(p) <=> b \in Starts(s) /\ b <= n + 1
         /\ \A b \in Starts(p), i \in Ends(p) : b <= i => Whole(p, b) = Whole(s, b)
<1>1. p \in Seq(Cells) /\ Len(p) = n /\ \A i \in 1 .. n : p[i] = s[i]
  <2>1. n \in Nat /\ n <= Len(s) /\ \A i \in 1 .. n : s[i] \in Cells
    BY LenProperties
  <2> QED
    BY <2>1, SubSeqProperties
<1>2. Ends(p) = {i \in Ends(s) : i < n}
  BY <1>1, LenProperties DEF Ends
<1>3. \A b : b \in Starts(p) <=> b \in Starts(s) /\ b <= n + 1
  BY <1>2, EndsFacts DEF Starts
<1>4. ASSUME NEW b \in Starts(p), NEW i \in Ends(p), b <= i
      PROVE  Whole(p, b) = Whole(s, b)
  <2> DEFINE S == {j \in Ends(p) : b <= j}
             T == {j \in Ends(s) : b <= j}
             f == First(S)
  <2>1. S \in SUBSET Nat /\ T \in SUBSET Nat /\ i \in S /\ S \subseteq T
    BY <1>1, <1>2, <1>4, EndsFacts
  <2>2. f \in S /\ \A j \in S : f <= j
    BY <2>1, FirstFacts
  <2>3. f \in T /\ \A j \in T : f <= j
    <3>1. f \in T /\ f \in Nat /\ f < n
      BY <1>2, <2>1, <2>2
    <3>2. ASSUME NEW j \in T
          PROVE  f <= j
      <4>1. j \in Nat /\ j \in Ends(s) /\ b <= j
        BY <2>1, <3>2
      <4>2. CASE j < n
        BY <1>2, <2>2, <4>1, <4>2
      <4>3. CASE ~(j < n)
        BY <3>1, <4>1, <4>3
      <4> QED
        BY <4>2, <4>3
    <3> QED
      BY <3>1, <3>2
  <2>4. First(T) = f
    BY <2>1, <2>3, FirstIs
  <2>5. f \in Nat /\ f < n /\ b \in Nat /\ 0 < b /\ b <= f
    BY <1>1, <1>2, <2>1, <2>2, EndsFacts
  <2> HIDE DEF f
  <2>6. SubSeq(p, b, f - 1) = SubSeq(s, b, f - 1)
    BY <1>1, <2>5, LenProperties
  <2> QED
    BY <2>4, <2>6 DEF Whole, f
<1> QED
  BY <1>1, <1>2, <1>3, <1>4

-----------------------------------------------------------------------------
(* The inductive invariant: what is consumed are the first lines of what is  *)
(* sent, taken for what they are, and no call returns in front of a line     *)
(* that is there.                                                           *)

Before(s, p) == {b \in Starts(s) : b <= p}

Sizes(s, p) == {b \in Before(s, p) : b > 1 /\ s[b] \in {"C", "Z"}}

GoodLine(s, b) ==
  IF b = 1 THEN Whole(s, b) = <<"R">> ELSE b \notin Ends(s) /\ HasColon(Whole(s, b))

BodySize(s, p) ==
  IF Sizes(s, p) # {} /\ s[First(Sizes(s, p))] = "C" THEN BodyLen ELSE 0

HasSize(h) == \E i \in 1 .. Len(h) : h[i][1] \in {"C", "Z"}

\* The lines that begin in the first p bytes end there, are good, and h are their headers.
Lines(s, p, h) ==
  /\ p \in Nat /\ p + 1 \in Starts(s)
  /\ \A b \in Before(s, p) : GoodLine(s, b)
  /\ p = 0 => h = <<>>
  /\ p # 0 => /\ Cardinality(Before(s, p)) = Len(h) + 1
              /\ HasSize(h) <=> Sizes(s, p) # {}
              /\ Announced(h) = BodySize(s, p)

Wrong(s, b, h) ==
  IF b = 1 THEN Whole(s, b) # <<"R">>
  ELSE b \notin Ends(s) /\ (~HasColon(Whole(s, b)) \/ Len(h) >= HeaderMax)

InHead ==
  \/ st = "REQ_LINE" /\ pos = 0
  \/ st = "HEADER" /\ pos > 0

InBody(p) ==
  /\ Lines(data, p, headers) /\ p + 1 \in Ends(data) /\ p # 0 /\ p + 2 <= pos
  /\ pos + remaining = p + 2 + Announced(headers)
  /\ st = "DONE" <=> remaining = 0

Refused ==
  /\ Lines(data, pos, headers) /\ Wrong(data, pos + 1, headers)
  /\ \E i \in Ends(data) : pos + 1 <= i /\ i < avail

ParserInv ==
  /\ st \in {"REQ_LINE", "HEADER"} => InHead /\ Lines(data, pos, headers)
  /\ st \in {"BODY", "DONE"} => \E p \in Nat : InBody(p)
  /\ st = "INVALID" => Refused /\ ~calling
  /\ ~calling /\ st \in {"REQ_LINE", "HEADER"} => Eols = {}
  /\ ~calling /\ st = "BODY" => pos = avail

Inv == TypeOK /\ (LinesFit => ParserInv)

-----------------------------------------------------------------------------
(* The verdict on what has arrived.                                         *)

Blanks(s)    == (Ends(s) \cap Starts(s)) \ {1}
Complete(s)  == {b \in Starts(s) : \E i \in Ends(s) : b <= i}
Headed(s)    == {b \in Complete(s) : Blanks(s) = {} \/ b < First(Blanks(s))}
BadLines(s)  ==
  {b \in Headed(s) : IF b = 1 THEN Whole(s, b) # <<"R">>
                     ELSE \/ ~HasColon(Whole(s, b))
                          \/ Cardinality({c \in Headed(s) : c < b}) > HeaderMax}
SizeLines(s) == {b \in Headed(s) : b > 1 /\ s[b] \in {"C", "Z"}}
BodyOf(s)    == IF SizeLines(s) # {} /\ s[First(SizeLines(s))] = "C" THEN BodyLen ELSE 0
Come(s)      == Len(s) - First(Blanks(s)) - 1

LEMMA VerdictIs ==
  ASSUME NEW s
  PROVE  Verdict(s) =
           IF BadLines(s) # {} THEN [st |-> "INVALID", pos |-> First(BadLines(s)) - 1]
           ELSE IF Blanks(s) = {}
             THEN [st |-> IF Ends(s) = {} THEN "REQ_LINE" ELSE "HEADER", pos |-> Last(Starts(s)) - 1]
             ELSE [st  |-> IF Come(s) < BodyOf(s) THEN "BODY" ELSE "DONE",
                   pos |-> First(Blanks(s)) + 1 + SmallerOf(Come(s), BodyOf(s))]
BY DEF Verdict, Blanks, Complete, Headed, BadLines, SizeLines, BodyOf, Come

\* A line that begins in the first p bytes ends there, and there are finitely many.
LEMMA BeforeFacts ==
  ASSUME NEW s \in Seq(Cells), NEW p \in Nat, p + 1 \in Starts(s)
  PROVE  /\ \A b \in Before(s, p) : p - 1 \in Ends(s) /\ b <= p - 1
         /\ p # 0 => p - 1 \in Ends(s) /\ p \notin Ends(s)
         /\ IsFiniteSet(Before(s, p)) /\ Before(s, p) \in SUBSET Nat
<1>1. p # 0 => p - 1 \in Ends(s)
  BY EndsFacts
<1>2. ASSUME NEW b \in Before(s, p)
      PROVE  p - 1 \in Ends(s) /\ b <= p - 1
  <2>1. b \in Nat /\ 0 < b /\ b <= p /\ b \in Starts(s)
    BY EndsFacts DEF Before
  <2>2. p - 1 \in Ends(s)
    BY <1>1, <2>1
  <2>3. b # p
    BY <2>1, <2>2, EndsFacts
  <2> QED
    BY <2>1, <2>2, <2>3
<1>3. p # 0 => p \notin Ends(s)
  <2>1. (p + 1) - 1 = p
    OBVIOUS
  <2> QED
    BY <2>1, EndsFacts
<1>4. Before(s, p) \subseteq 1 .. p
  BY EndsFacts DEF Before
<1>5. IsFiniteSet(Before(s, p)) /\ Before(s, p) \in SUBSET Nat
  <2>1. IsFiniteSet(1 .. p)
    BY FS_Interval
  <2> QED
    BY <1>4, <2>1, FS_Subset
<1> QED
  BY <1>1, <1>2, <1>3, <1>5

\* The lines consumed are in order in whatever part of the request has arrived.
LEMMA ConsumedFine ==
  ASSUME NEW s \in Seq(Cells), NEW n \in 0 .. Len(s), NEW q, q = SubSeq(s, 1, n),
         NEW p \in 0 .. n, NEW h \in Seq(Seq(Cells)), Len(h) <= HeaderMax, Lines(s, p, h)
  PROVE  /\ Before(s, p) \subseteq Complete(q)
         /\ \A b \in Blanks(q) : b \in Nat /\ p < b
         /\ \A b \in Before(s, p) : b \in Nat /\ b <= p /\ b \notin BadLines(q)
<1>1. /\ q \in Seq(Cells) /\ Len(q) = n /\ Ends(q) = {i \in Ends(s) : i < n}
      /\ \A b : b \in Starts(q) <=> b \in Starts(s) /\ b <= n + 1
      /\ \A b \in Starts(q), i \in Ends(q) : b <= i => Whole(q, b) = Whole(s, b)
  BY PrefixFacts, ZenonT(60)
<1>2. /\ \A b \in Before(s, p) : p - 1 \in Ends(s) /\ b <= p - 1
      /\ IsFiniteSet(Before(s, p)) /\ Before(s, p) \in SUBSET Nat
      /\ p \in Nat /\ n \in Nat /\ p <= n
  BY BeforeFacts, LenProperties DEF Lines
<1>3. ASSUME NEW b \in Before(s, p)
      PROVE  b \in Starts(q) /\ p - 1 \in Ends(q) /\ b <= p - 1 /\ b \in Nat /\ b <= p
  BY <1>1, <1>2, <1>3 DEF Before
<1>4. Before(s, p) \subseteq Complete(q)
  BY <1>3 DEF Complete
<1>5. ASSUME NEW b \in Blanks(q)
      PROVE  b \in Nat /\ p < b
  <2>1. b \in Nat /\ b \in Ends(s) /\ b \in Starts(s) /\ b # 1
    BY <1>1, EndsFacts DEF Blanks
  <2>2. b \notin Before(s, p)
    BY <2>1 DEF Lines, GoodLine
  <2> QED
    BY <1>2, <2>1, <2>2 DEF Before
<1>6. ASSUME NEW b \in Before(s, p)
      PROVE  b \notin BadLines(q)
  <2>1. Whole(q, b) = Whole(s, b) /\ GoodLine(s, b)
    BY <1>1, <1>3, <1>6 DEF Lines
  <2> DEFINE C == {c \in Headed(q) : c < b}
  <2>2. C \subseteq Before(s, p) \ {b}
    <3>1. \A c \in C : c \in Starts(s) /\ c \in Nat /\ c < b
      BY <1>1, EndsFacts DEF Headed, Complete
    <3> QED
      BY <1>2, <1>3, <1>6, <3>1 DEF Before
  <2>3. /\ IsFiniteSet(Before(s, p) \ {b})
        /\ Cardinality(Before(s, p) \ {b}) = Cardinality(Before(s, p)) - 1
    BY <1>2, <1>6, FS_RemoveElement
  <2>4. Cardinality(C) <= Cardinality(Before(s, p)) - 1 /\ Cardinality(C) \in Nat
    BY <2>2, <2>3, FS_Subset, FS_CardinalityType
  <2>5. p # 0
    BY <1>6, EndsFacts DEF Before
  <2>6. Cardinality(Before(s, p)) = Len(h) + 1 /\ Len(h) \in Nat
    BY <2>5, LenProperties DEF Lines
  <2>7. ~(Cardinality(C) > HeaderMax)
    BY <2>4, <2>6
  <2> QED
    BY <2>1, <2>7 DEF BadLines, GoodLine
<1> QED
  BY <1>3, <1>4, <1>5, <1>6

\* In front of a line, with no end of a line in sight.
LEMMA VerdictHead ==
  ASSUME TypeOK, InHead, Lines(data, pos, headers), Eols = {}
  PROVE  [st |-> st, pos |-> pos] = Verdict(SubSeq(data, 1, avail))
<1> DEFINE q == SubSeq(data, 1, avail)
<1>1. /\ data \in Seq(Cells) /\ avail \in 0 .. Len(data) /\ pos \in 0 .. avail
      /\ headers \in Seq(Seq(Cells)) /\ Len(headers) <= HeaderMax /\ avail \in Nat /\ pos \in Nat
  BY LenProperties DEF TypeOK
<1>2. /\ q \in Seq(Cells) /\ Len(q) = avail /\ Ends(q) = {i \in Ends(data) : i < avail}
      /\ \A b : b \in Starts(q) <=> b \in Starts(data) /\ b <= avail + 1
  BY <1>1, PrefixFacts
<1>3. /\ Before(data, pos) \subseteq Complete(q)
      /\ \A b \in Blanks(q) : b \in Nat /\ pos < b
      /\ \A b \in Before(data, pos) : b \in Nat /\ b <= pos /\ b \notin BadLines(q)
  BY <1>1, ConsumedFine
<1> HIDE DEF q
<1>4. pos # 0 => pos - 1 \in Ends(data) /\ pos \notin Ends(data)
  BY <1>1, BeforeFacts DEF Lines
<1>5. \A i \in Ends(q) : i \in Nat /\ 0 < i /\ i < pos
  <2> SUFFICES ASSUME NEW i \in Ends(q) PROVE i \in Nat /\ 0 < i /\ i < pos
    OBVIOUS
  <2>1. i \in Ends(data) /\ i < avail /\ i \in Nat /\ 0 < i
    BY <1>1, <1>2, EndsFacts
  <2>2. data[i] = "CR" /\ data[i + 1] = "LF"
    BY <2>1 DEF Ends
  <2>3. i \notin pos + 1 .. avail - 1
    BY <2>1, <2>2 DEF Eols
  <2> QED
    BY <1>1, <1>4, <2>1, <2>3
<1>6. Blanks(q) = {}
  BY <1>1, <1>3, <1>5 DEF Blanks
<1>7. BadLines(q) = {}
  <2>1. \A b \in Complete(q) : b \in Before(data, pos)
    BY <1>1, <1>2, <1>5, EndsFacts DEF Complete, Before
  <2> QED
    BY <1>3, <2>1 DEF BadLines, Headed
<1>8. Last(Starts(q)) = pos + 1
  <2>1. pos + 1 \in Starts(q) /\ Starts(q) \in SUBSET Nat
    BY <1>1, <1>2, EndsFacts DEF Lines
  <2>2. \A b \in Starts(q) : b <= pos + 1
    <3> SUFFICES ASSUME NEW b \in Starts(q) PROVE b <= pos + 1
      OBVIOUS
    <3>1. b \in Nat /\ (b = 1 \/ b - 2 \in Ends(q))
      BY <1>2, EndsFacts
    <3> QED
      BY <1>1, <1>5, <3>1
  <2> QED
    BY <2>1, <2>2, LastIs
<1>9. Ends(q) = {} <=> pos = 0
  BY <1>1, <1>2, <1>4, <1>5
<1>10. Verdict(q) = [st |-> IF Ends(q) = {} THEN "REQ_LINE" ELSE "HEADER", pos |-> Last(Starts(q)) - 1]
  BY <1>6, <1>7, VerdictIs
<1>11. Last(Starts(q)) - 1 = pos
  BY <1>1, <1>8
<1>12. st = IF Ends(q) = {} THEN "REQ_LINE" ELSE "HEADER"
  BY <1>1, <1>9 DEF InHead
<1> QED
  BY <1>10, <1>11, <1>12 DEF q

\* Past the blank line.
LEMMA VerdictBody ==
  ASSUME TypeOK, st \in {"BODY", "DONE"}, st = "BODY" => pos = avail, NEW p \in Nat, InBody(p)
  PROVE  [st |-> st, pos |-> pos] = Verdict(SubSeq(data, 1, avail))
<1> DEFINE q == SubSeq(data, 1, avail)
<1>1. /\ data \in Seq(Cells) /\ avail \in 0 .. Len(data) /\ pos \in 0 .. avail
      /\ headers \in Seq(Seq(Cells)) /\ Len(headers) <= HeaderMax /\ avail \in Nat /\ pos \in Nat
      /\ remaining \in Nat
  BY LenProperties DEF TypeOK
<1>2. /\ p \in 0 .. avail /\ Lines(data, p, headers) /\ p + 1 \in Ends(data) /\ p # 0
      /\ p + 2 <= pos /\ pos + remaining = p + 2 + Announced(headers)
      /\ Announced(headers) = BodySize(data, p)
  BY <1>1 DEF InBody, Lines
<1>3. /\ q \in Seq(Cells) /\ Len(q) = avail /\ Ends(q) = {i \in Ends(data) : i < avail}
      /\ \A i \in 1 .. avail : q[i] = data[i]
      /\ \A b : b \in Starts(q) <=> b \in Starts(data) /\ b <= avail + 1
  BY <1>1, PrefixFacts, ZenonT(60)
<1>4. /\ Before(data, p) \subseteq Complete(q)
      /\ \A b \in Blanks(q) : b \in Nat /\ p < b
      /\ \A b \in Before(data, p) : b \in Nat /\ b <= p /\ b \notin BadLines(q)
  BY <1>1, <1>2, ConsumedFine
<1> HIDE DEF q
<1>5. Blanks(q) # {} /\ First(Blanks(q)) = p + 1
  <2>1. p + 1 \in Blanks(q)
    BY <1>1, <1>2, <1>3 DEF Blanks, Lines
  <2>2. Blanks(q) \in SUBSET Nat /\ \A b \in Blanks(q) : p + 1 <= b
    BY <1>4
  <2> QED
    BY <2>1, <2>2, FirstIs
<1>6. Headed(q) = Before(data, p)
  <2>1. \A b \in Headed(q) : b \in Starts(data) /\ b \in Nat /\ b < p + 1
    BY <1>1, <1>3, <1>5, EndsFacts DEF Headed, Complete
  <2>2. \A b \in Before(data, p) : b \in Complete(q) /\ b < p + 1
    BY <1>4
  <2> QED
    BY <1>2, <1>5, <2>1, <2>2 DEF Headed, Before
<1>7. BadLines(q) = {}
  BY <1>4, <1>6 DEF BadLines
<1>8. BodyOf(q) = Announced(headers)
  <2>1. \A b \in Before(data, p) : q[b] = data[b]
    BY <1>1, <1>2, <1>3, <1>4, EndsFacts DEF Before
  <2>2. SizeLines(q) = Sizes(data, p)
    BY <1>6, <2>1 DEF SizeLines, Sizes
  <2>3. Sizes(data, p) # {} => First(Sizes(data, p)) \in Sizes(data, p)
    <3>1. Sizes(data, p) \in SUBSET Nat
      BY <1>4 DEF Sizes
    <3> QED
      BY <3>1, FirstFacts
  <2> QED
    BY <1>2, <2>1, <2>2, <2>3 DEF BodyOf, BodySize, Sizes
<1>9. Come(q) = avail - p - 2
  BY <1>1, <1>2, <1>3, <1>5 DEF Come
<1>10. Announced(headers) \in Nat
  BY AnnouncedType
<1>11. CASE st = "BODY"
  <2>1. remaining # 0 /\ pos = avail
    BY <1>11 DEF InBody
  <2>2. Come(q) < BodyOf(q) /\ p + 2 + SmallerOf(Come(q), BodyOf(q)) = pos
    BY <1>1, <1>2, <1>8, <1>9, <1>10, <2>1 DEF SmallerOf
  <2> QED
    BY <1>5, <1>7, <1>11, <2>2, VerdictIs DEF q
<1>12. CASE st = "DONE"
  <2>1. remaining = 0
    BY <1>12 DEF InBody
  <2>2. ~(Come(q) < BodyOf(q)) /\ p + 2 + SmallerOf(Come(q), BodyOf(q)) = pos
    BY <1>1, <1>2, <1>8, <1>9, <1>10, <2>1 DEF SmallerOf
  <2> QED
    BY <1>5, <1>7, <1>12, <2>2, VerdictIs DEF q
<1> QED
  BY <1>11, <1>12

\* In front of the line that was refused.
LEMMA VerdictRefused ==
  ASSUME TypeOK, st = "INVALID", Refused
  PROVE  [st |-> st, pos |-> pos] = Verdict(SubSeq(data, 1, avail))
<1> DEFINE q == SubSeq(data, 1, avail)
           b == pos + 1
<1>1. /\ data \in Seq(Cells) /\ avail \in 0 .. Len(data) /\ pos \in 0 .. avail
      /\ headers \in Seq(Seq(Cells)) /\ Len(headers) <= HeaderMax /\ avail \in Nat /\ pos \in Nat
      /\ Len(headers) \in Nat
  BY LenProperties DEF TypeOK
<1>2. /\ q \in Seq(Cells) /\ Len(q) = avail /\ Ends(q) = {i \in Ends(data) : i < avail}
      /\ \A c : c \in Starts(q) <=> c \in Starts(data) /\ c <= avail + 1
      /\ \A c \in Starts(q), i \in Ends(q) : c <= i => Whole(q, c) = Whole(data, c)
  BY <1>1, PrefixFacts
<1>3. /\ Before(data, pos) \subseteq Complete(q)
      /\ \A c \in Blanks(q) : c \in Nat /\ pos < c
      /\ \A c \in Before(data, pos) : c \in Nat /\ c <= pos /\ c \notin BadLines(q)
  BY <1>1, ConsumedFine DEF Refused
<1> HIDE DEF q
<1>4. PICK i \in Ends(data) : b <= i /\ i < avail
  BY DEF Refused
<1>5. b \in Starts(q) /\ i \in Ends(q) /\ b \in Complete(q) /\ Whole(q, b) = Whole(data, b)
  <2>1. b \in Starts(q) /\ i \in Ends(q)
    BY <1>1, <1>2, <1>4 DEF Refused, Lines
  <2> QED
    BY <1>2, <1>4, <2>1 DEF Complete
<1>6. \A c \in Blanks(q) : c \in Nat /\ b < c
  <2>1. b \notin Blanks(q)
    BY <1>2 DEF Blanks, Refused, Wrong
  <2> QED
    BY <1>1, <1>3, <2>1
<1>7. Blanks(q) = {} \/ b < First(Blanks(q))
  <2>1. Blanks(q) \in SUBSET Nat
    BY <1>6
  <2> QED
    BY <1>6, <2>1, FirstFacts
<1>8. b \in Headed(q)
  BY <1>5, <1>7 DEF Headed
<1>9. {c \in Headed(q) : c < b} = Before(data, pos)
  <2>1. \A c \in Headed(q) : c \in Starts(data) /\ c \in Nat
    BY <1>1, <1>2, EndsFacts DEF Headed, Complete
  <2>2. \A c \in Before(data, pos) : c \in Headed(q) /\ c < b
    <3>1. Blanks(q) # {} => First(Blanks(q)) \in Nat
      BY <1>6, FirstFacts
    <3> QED
      BY <1>1, <1>3, <1>7, <3>1 DEF Headed
  <2> QED
    BY <1>1, <2>1, <2>2 DEF Before
<1>10. b \in BadLines(q)
  <2>1. CASE b = 1
    BY <1>5, <1>8, <2>1 DEF BadLines, Refused, Wrong
  <2>2. CASE b # 1
    <3>1. Cardinality({c \in Headed(q) : c < b}) = Len(headers) + 1
      <4>1. pos # 0
        BY <1>1, <2>2
      <4>2. Cardinality(Before(data, pos)) = Len(headers) + 1
        BY <4>1 DEF Refused, Lines
      <4> QED
        BY <1>9, <4>2
    <3>2. ~HasColon(Whole(q, b)) \/ Len(headers) >= HeaderMax
      BY <1>5, <2>2 DEF Refused, Wrong
    <3>3. ~HasColon(Whole(q, b)) \/ Cardinality({c \in Headed(q) : c < b}) > HeaderMax
      BY <1>1, <3>1, <3>2
    <3> QED
      BY <1>8, <2>2, <3>3 DEF BadLines
  <2> QED
    BY <2>1, <2>2
<1>11. First(BadLines(q)) = b
  <2>1. \A c \in BadLines(q) : c \in Nat /\ b <= c
    <3> SUFFICES ASSUME NEW c \in BadLines(q) PROVE c \in Nat /\ b <= c
      OBVIOUS
    <3>1. c \in Starts(data) /\ c \in Nat
      BY <1>1, <1>2, EndsFacts DEF BadLines, Headed, Complete
    <3>2. c \notin Before(data, pos)
      BY <1>3
    <3> QED
      BY <1>1, <3>1, <3>2 DEF Before
  <2>2. BadLines(q) \in SUBSET Nat
    BY <2>1
  <2> QED
    BY <1>10, <2>1, <2>2, FirstIs
<1>12. Verdict(q) = [st |-> "INVALID", pos |-> First(BadLines(q)) - 1]
  BY <1>10, VerdictIs
<1>13. First(BadLines(q)) - 1 = pos
  BY <1>1, <1>11
<1> QED
  BY <1>12, <1>13 DEF q

-----------------------------------------------------------------------------
(* The steps.                                                               *)

\* The line found at pos is the line of data that starts there, and fits.
LEMMA FoundLine ==
  ASSUME TypeOK, LinesFit, Lines(data, pos, headers), NEW e, FoundEol(e)
  PROVE  /\ e \in Ends(data) /\ e \in Nat /\ pos + 1 <= e /\ e < avail
         /\ LineLength(e) = e - pos - 1
         /\ Line(e) = Whole(data, pos + 1)
<1>1. /\ data \in Seq(Cells) /\ avail \in Nat /\ pos \in Nat /\ avail <= Len(data)
      /\ Len(data) \in Nat /\ pos + 1 \in Starts(data)
  BY LenProperties DEF TypeOK, Lines
<1>2. e \in Ends(data) /\ e \in Nat /\ pos + 1 <= e /\ e < avail
  BY <1>1 DEF FoundEol, Eols, Ends
<1> DEFINE T == {i \in Ends(data) : pos + 1 <= i}
<1>3. First(T) = e
  <2>1. e \in T /\ T \in SUBSET Nat
    BY <1>1, <1>2, EndsFacts
  <2>2. ASSUME NEW i \in T
        PROVE  e <= i
    <3>1. i \in Nat /\ data[i] = "CR" /\ data[i + 1] = "LF" /\ pos + 1 <= i
      BY <2>1, <2>2 DEF Ends
    <3>2. CASE i < avail
      <4>1. i \in Eols
        BY <1>1, <3>1, <3>2 DEF Eols
      <4> QED
        BY <4>1 DEF FoundEol
    <3>3. CASE ~(i < avail)
      BY <1>1, <1>2, <3>1, <3>3
    <3> QED
      BY <3>2, <3>3
  <2> QED
    BY <2>1, <2>2, FirstIs
<1>4. Whole(data, pos + 1) = SubSeq(data, pos + 1, e - 1)
  BY <1>3 DEF Whole
<1>5. Len(SubSeq(data, pos + 1, e - 1)) = e - pos - 1
  BY <1>1, <1>2, LenProperties
<1>6. e - pos - 1 <= LineMax
  BY <1>1, <1>2, <1>4, <1>5 DEF LinesFit
<1>7. LineLength(e) = e - pos - 1
  BY <1>1, <1>2, <1>6 DEF LineLength, SmallerOf
<1>8. pos + LineLength(e) = e - 1
  BY <1>1, <1>2, <1>7
<1> QED
  BY <1>2, <1>4, <1>7, <1>8 DEF Line

\* A line more.
LEMMA NextLine ==
  ASSUME NEW s \in Seq(Cells), NEW p \in Nat, p + 1 \in Starts(s),
         NEW e \in Ends(s), p + 1 <= e, \A i \in Ends(s) : p + 1 <= i => e <= i
  PROVE  /\ e \in Nat /\ (e + 1) + 1 \in Starts(s)
         /\ Before(s, e + 1) = Before(s, p) \cup {p + 1} /\ p + 1 \notin Before(s, p)
<1>1. e \in Nat /\ (e + 1) + 1 \in Starts(s)
  <2>1. e \in Nat /\ e + 2 \in Starts(s)
    BY EndsFacts
  <2> QED
    BY <2>1
<1>2. ASSUME NEW b \in Starts(s), b <= e + 1, ~(b <= p)
      PROVE  b = p + 1
  <2>1. b \in Nat /\ (b = 1 \/ b - 2 \in Ends(s)) /\ b - 1 \notin Ends(s)
    BY EndsFacts
  <2>2. CASE b = 1
    BY <1>2, <2>2
  <2>3. CASE b - 2 \in Ends(s)
    <3>1. p # 0 => p \notin Ends(s)
      BY BeforeFacts
    <3>2. b - 2 # p /\ b - 2 \in Nat
      BY <2>3, <3>1, EndsFacts
    <3>3. ~(p + 1 <= b - 2)
      BY <1>1, <1>2, <2>1, <2>3
    <3> QED
      BY <1>2, <2>1, <3>2, <3>3
  <2> QED
    BY <2>1, <2>2, <2>3
<1>3. \A b \in Before(s, p) : b \in Starts(s) /\ b \in Nat /\ b <= p
  BY EndsFacts DEF Before
<1> QED
  BY <1>1, <1>2, <1>3 DEF Before

\* What a header more announces.
LEMMA AppendSize ==
  ASSUME NEW h \in Seq(Seq(Cells) \ {<<>>}), NEW l \in Seq(Cells) \ {<<>>}
  PROVE  /\ HasSize(Append(h, l)) <=> HasSize(h) \/ l[1] \in {"C", "Z"}
         /\ HasSize(h) => Announced(Append(h, l)) = Announced(h)
         /\ ~HasSize(h) => Announced(Append(h, l)) = IF l[1] = "C" THEN BodyLen ELSE 0
<1> DEFINE g == Append(h, l)
           n == Len(h)
<1>1. /\ n \in Nat /\ Len(g) = n + 1 /\ g[n + 1] = l
      /\ \A i \in 1 .. n : g[i] = h[i]
  BY AppendProperties, LenProperties
<1> HIDE DEF g, n
<1>2. \A i \in 1 .. n + 1 : i \in 1 .. n \/ i = n + 1
  BY <1>1
<1>3. HasSize(g) <=> HasSize(h) \/ l[1] \in {"C", "Z"}
  <2>1. ASSUME HasSize(g) PROVE HasSize(h) \/ l[1] \in {"C", "Z"}
    <3>1. PICK i \in 1 .. n + 1 : g[i][1] \in {"C", "Z"}
      BY <1>1, <2>1 DEF HasSize
    <3>2. CASE i \in 1 .. n
      BY <1>1, <3>1, <3>2 DEF HasSize, n
    <3>3. CASE i = n + 1
      BY <1>1, <3>1, <3>3
    <3> QED
      BY <1>2, <3>2, <3>3
  <2>2. ASSUME HasSize(h) PROVE HasSize(g)
    <3>1. PICK i \in 1 .. n : h[i][1] \in {"C", "Z"}
      BY <2>2 DEF HasSize, n
    <3>2. i \in 1 .. n + 1 /\ g[i] = h[i]
      BY <1>1, <3>1
    <3>3. i \in 1 .. Len(g) /\ g[i][1] \in {"C", "Z"}
      BY <1>1, <3>1, <3>2
    <3> QED
      BY <3>3 DEF HasSize
  <2>3. ASSUME l[1] \in {"C", "Z"} PROVE HasSize(g)
    <3>1. n + 1 \in 1 .. Len(g) /\ g[n + 1][1] \in {"C", "Z"}
      BY <1>1, <2>3
    <3> QED
      BY <3>1 DEF HasSize
  <2> QED
    BY <2>1, <2>2, <2>3
<1> DEFINE P(k, m) == \E i \in 1 .. m : /\ k[i][1] = "C"
                                        /\ \A j \in 1 .. m : k[j][1] \in {"C", "Z"} => i <= j
<1>4. /\ Announced(g) = IF P(g, n + 1) THEN BodyLen ELSE 0
      /\ Announced(h) = IF P(h, n) THEN BodyLen ELSE 0
  BY <1>1 DEF Announced, n
<1>5. HasSize(h) => (P(g, n + 1) <=> P(h, n))
  <2> SUFFICES ASSUME HasSize(h) PROVE P(g, n + 1) <=> P(h, n)
    OBVIOUS
  <2>1. PICK k \in 1 .. n : h[k][1] \in {"C", "Z"}
    BY DEF HasSize, n
  <2>2. ASSUME P(g, n + 1) PROVE P(h, n)
    <3>1. PICK i \in 1 .. n + 1 : /\ g[i][1] = "C"
                                  /\ \A j \in 1 .. n + 1 : g[j][1] \in {"C", "Z"} => i <= j
      BY <2>2
    <3>2. i <= k /\ i \in 1 .. n
      BY <1>1, <2>1, <3>1
    <3>3. h[i][1] = "C"
      BY <1>1, <3>1, <3>2
    <3>4. ASSUME NEW j \in 1 .. n, h[j][1] \in {"C", "Z"} PROVE i <= j
      <4>1. j \in 1 .. n + 1 /\ g[j] = h[j]
        BY <1>1
      <4> QED
        BY <3>1, <3>4, <4>1
    <3> QED
      BY <3>2, <3>3, <3>4
  <2>3. ASSUME P(h, n) PROVE P(g, n + 1)
    <3>1. PICK i \in 1 .. n : h[i][1] = "C" /\ \A j \in 1 .. n : h[j][1] \in {"C", "Z"} => i <= j
      BY <2>3
    <3>2. ASSUME NEW j \in 1 .. n + 1, g[j][1] \in {"C", "Z"} PROVE i <= j
      <4>1. CASE j \in 1 .. n
        <5>1. g[j] = h[j]
          BY <1>1, <4>1
        <5> QED
          BY <3>1, <3>2, <4>1, <5>1
      <4>2. CASE j = n + 1
        BY <1>1, <4>2
      <4> QED
        BY <1>1, <4>1, <4>2
    <3>3. i \in 1 .. n + 1 /\ g[i] = h[i]
      BY <1>1
    <3> QED
      BY <3>1, <3>2, <3>3
  <2> QED
    BY <2>2, <2>3
<1>6. ~HasSize(h) => (P(g, n + 1) <=> l[1] = "C")
  <2> SUFFICES ASSUME ~HasSize(h) PROVE P(g, n + 1) <=> l[1] = "C"
    OBVIOUS
  <2>1. \A j \in 1 .. n : g[j][1] \notin {"C", "Z"}
    BY <1>1 DEF HasSize, n
  <2>2. ASSUME P(g, n + 1) PROVE l[1] = "C"
    BY <1>1, <1>2, <2>1, <2>2
  <2>3. ASSUME l[1] = "C" PROVE P(g, n + 1)
    <3>1. \A j \in 1 .. n + 1 : g[j][1] \in {"C", "Z"} => n + 1 <= j
      BY <1>1, <1>2, <2>1
    <3> QED
      BY <1>1, <2>3, <3>1
  <2> QED
    BY <2>2, <2>3
<1> QED
  BY <1>3, <1>4, <1>5, <1>6 DEF g

LEMMA InitInv == Init => Inv
<1> SUFFICES ASSUME Init PROVE ParserInv
  BY InitTypeOK DEF Inv
<1>1. data \in Seq(Cells) /\ TypeOK
  BY InitTypeOK DEF TypeOK
<1>2. 1 \in Starts(data) /\ Before(data, 0) = {}
  BY <1>1, EndsFacts DEF Before
<1>3. Lines(data, 0, <<>>)
  BY <1>2 DEF Lines
<1>4. Eols = {}
  BY DEF Init, Eols
<1> QED
  BY <1>3, <1>4 DEF Init, ParserInv, InHead

LEMMA FeedInv ==
  ASSUME TypeOK, ParserInv, Feed
  PROVE  ParserInv'
<1>1. /\ data' = data /\ pos' = pos /\ st' = st /\ headers' = headers /\ remaining' = remaining
      /\ calling' = TRUE /\ st \notin Final
  BY DEF Feed
<1>2. \A p \in Nat : InBody(p) => InBody(p)'
  BY <1>1 DEF InBody
<1> QED
  BY <1>1, <1>2 DEF ParserInv, Final, InHead

LEMMA ReturnInv ==
  ASSUME TypeOK, ParserInv, Return
  PROVE  ParserInv'
<1>1. /\ data' = data /\ avail' = avail /\ pos' = pos /\ st' = st /\ headers' = headers
      /\ remaining' = remaining /\ calling' = FALSE
  BY DEF Return
<1>2. \A p \in Nat : InBody(p) => InBody(p)'
  BY <1>1 DEF InBody
<1>3. Eols' = Eols
  BY <1>1 DEF Eols
<1>4. pos = avail => Eols = {}
  BY DEF Eols, TypeOK
<1>5. st # "INVALID"
  BY DEF Return, ParserInv
<1> QED
  BY <1>1, <1>2, <1>3, <1>4, <1>5 DEF ParserInv, Return, Final, InHead

LEMMA TakeBodyInv ==
  ASSUME TypeOK, ParserInv, TakeBody
  PROVE  ParserInv'
<1> DEFINE take == SmallerOf(avail - pos, remaining)
<1>1. /\ data' = data /\ headers' = headers /\ calling' = calling /\ calling
      /\ pos' = pos + take /\ remaining' = remaining - take
      /\ st' = IF remaining = take THEN "DONE" ELSE "BODY"
  BY DEF TakeBody
<1>2. pos \in Nat /\ avail - pos \in Nat /\ remaining \in Nat
  BY DEF TypeOK
<1>3. take \in Nat /\ take <= remaining
  BY <1>2 DEF SmallerOf
<1> HIDE DEF take
<1>4. PICK p \in Nat : InBody(p)
  BY DEF TakeBody, ParserInv
<1>5. Announced(headers) \in Nat
  BY AnnouncedType
<1>6. InBody(p)'
  <2>1. p + 2 <= pos' /\ pos' + remaining' = p + 2 + Announced(headers)
    BY <1>1, <1>2, <1>3, <1>4, <1>5 DEF InBody
  <2>2. st' = "DONE" <=> remaining' = 0
    BY <1>1, <1>2, <1>3
  <2> QED
    BY <1>1, <1>4, <2>1, <2>2 DEF InBody
<1> QED
  BY <1>1, <1>6 DEF ParserInv

\* What a line found adds to the lines consumed.
LEMMA LineTaken ==
  ASSUME TypeOK, LinesFit, Lines(data, pos, headers), NEW e, FoundEol(e)
  PROVE  /\ e + 1 \in Nat /\ (e + 1) + 1 \in Starts(data)
         /\ pos + LineLength(e) + 2 = e + 1
         /\ Before(data, e + 1) = Before(data, pos) \cup {pos + 1} /\ pos + 1 \notin Before(data, pos)
         /\ Cardinality(Before(data, e + 1)) = Cardinality(Before(data, pos)) + 1
         /\ LineLength(e) > 0 <=> pos + 1 \notin Ends(data)
<1>1. data \in Seq(Cells) /\ pos \in Nat /\ pos + 1 \in Starts(data)
  BY DEF TypeOK, Lines
<1>2. /\ e \in Ends(data) /\ e \in Nat /\ pos + 1 <= e /\ e < avail
      /\ LineLength(e) = e - pos - 1
  BY FoundLine
<1>3. \A i \in Ends(data) : pos + 1 <= i => e <= i
  <2> SUFFICES ASSUME NEW i \in Ends(data), pos + 1 <= i PROVE e <= i
    OBVIOUS
  <2>1. i \in Nat /\ data[i] = "CR" /\ data[i + 1] = "LF"
    BY <1>1, EndsFacts DEF Ends
  <2>2. avail \in Nat
    BY LenProperties DEF TypeOK
  <2>3. i < avail => i \in Eols
    BY <1>1, <2>1, <2>2 DEF Eols
  <2> QED
    BY <1>2, <2>1, <2>2, <2>3 DEF FoundEol
<1>4. /\ (e + 1) + 1 \in Starts(data)
      /\ Before(data, e + 1) = Before(data, pos) \cup {pos + 1} /\ pos + 1 \notin Before(data, pos)
  BY <1>1, <1>2, <1>3, NextLine
<1>5. Cardinality(Before(data, e + 1)) = Cardinality(Before(data, pos)) + 1
  <2>1. IsFiniteSet(Before(data, pos))
    BY <1>1, BeforeFacts
  <2> QED
    BY <1>4, <2>1, FS_AddElement
<1>6. LineLength(e) > 0 <=> pos + 1 \notin Ends(data)
  <2>1. ASSUME pos + 1 \in Ends(data) PROVE e = pos + 1
    BY <1>1, <1>2, <1>3, <2>1
  <2> QED
    BY <1>1, <1>2, <2>1
<1> QED
  BY <1>1, <1>2, <1>4, <1>5, <1>6

LEMMA RequestLineInv ==
  ASSUME TypeOK, LinesFit, ParserInv, calling, NEW e, FoundEol(e), RequestLine(e),
         UNCHANGED <<data, avail>>
  PROVE  ParserInv'
<1>1. /\ st = "REQ_LINE" /\ pos = 0 /\ Lines(data, pos, headers) /\ headers = <<>>
      /\ data \in Seq(Cells) /\ data' = data /\ avail' = avail
  BY DEF RequestLine, ParserInv, InHead, Lines, TypeOK
<1>2. /\ e + 1 \in Nat /\ (e + 1) + 1 \in Starts(data)
      /\ pos + LineLength(e) + 2 = e + 1
      /\ Before(data, e + 1) = Before(data, pos) \cup {pos + 1}
      /\ Cardinality(Before(data, e + 1)) = Cardinality(Before(data, pos)) + 1
  BY <1>1, LineTaken
<1>3. Line(e) = Whole(data, 1) /\ e \in Ends(data) /\ e \in Nat /\ 1 <= e /\ e < avail
  BY <1>1, FoundLine
<1>4. CASE RequestLineOK(Line(e))
  <2>1. st' = "HEADER" /\ pos' = e + 1 /\ calling' = calling /\ headers' = <<>>
    BY <1>1, <1>2, <1>4 DEF RequestLine, Consume
  <2>2. Before(data, 0) = {}
    BY <1>1, EndsFacts DEF Before
  <2>3. Before(data, e + 1) = {1} /\ Cardinality(Before(data, e + 1)) = 1
    <3>1. Before(data, pos) = {} /\ pos + 1 = 1
      BY <1>1, <2>2
    <3>2. Cardinality(Before(data, pos)) = 0
      BY <3>1, FS_EmptySet
    <3> QED
      BY <1>2, <3>1, <3>2
  <2>4. Sizes(data, e + 1) = {} /\ ~HasSize(<<>>) /\ Announced(<<>>) = 0
    BY <2>3 DEF Sizes, HasSize, Announced
  <2>5. GoodLine(data, 1)
    BY <1>3, <1>4 DEF GoodLine, RequestLineOK
  <2>6. Len(<<>>) = 0 /\ e + 1 # 0
    BY <1>3
  <2>7. Lines(data, e + 1, <<>>)
    BY <1>2, <2>3, <2>4, <2>5, <2>6 DEF Lines, BodySize
  <2> QED
    BY <1>1, <1>3, <2>1, <2>7 DEF ParserInv, InHead
<1>5. CASE ~RequestLineOK(Line(e))
  <2>1. st' = "INVALID" /\ calling' = FALSE /\ pos' = pos /\ headers' = headers
    BY <1>5 DEF RequestLine, Reject
  <2>2. Wrong(data, pos + 1, headers)
    BY <1>1, <1>3, <1>5 DEF Wrong, RequestLineOK
  <2>3. \E i \in Ends(data) : pos + 1 <= i /\ i < avail
    BY <1>1, <1>3
  <2> QED
    BY <1>1, <2>1, <2>2, <2>3 DEF ParserInv, Refused
<1> QED
  BY <1>4, <1>5

LEMMA HeaderLineInv ==
  ASSUME TypeOK, LinesFit, ParserInv, calling, NEW e, FoundEol(e), HeaderLine(e),
         UNCHANGED <<data, avail>>
  PROVE  ParserInv'
<1> DEFINE b == pos + 1
<1>1. /\ st = "HEADER" /\ pos > 0 /\ Lines(data, pos, headers) /\ pos \in Nat
      /\ data \in Seq(Cells) /\ data' = data /\ avail' = avail
      /\ headers \in Seq(Seq(Cells) \ {<<>>}) /\ Len(headers) \in Nat
  BY LenProperties DEF HeaderLine, ParserInv, InHead, Lines, TypeOK
<1>2. /\ e + 1 \in Nat /\ (e + 1) + 1 \in Starts(data)
      /\ pos + LineLength(e) + 2 = e + 1
      /\ Before(data, e + 1) = Before(data, pos) \cup {b} /\ b \notin Before(data, pos)
      /\ Cardinality(Before(data, e + 1)) = Cardinality(Before(data, pos)) + 1
      /\ LineLength(e) > 0 <=> b \notin Ends(data)
  BY <1>1, LineTaken
<1>3. Line(e) = Whole(data, b) /\ e \in Ends(data) /\ e \in Nat /\ b <= e /\ e < avail
  BY <1>1, FoundLine
<1>4. b \notin Ends(data) /\ LineLength(e) > 0 /\ b # 1
  BY <1>1, <1>2 DEF HeaderLine
<1>5. CASE HasColon(Line(e)) /\ Len(headers) < HeaderMax
  <2>1. st' = "HEADER" /\ pos' = e + 1 /\ calling' = calling /\ headers' = Append(headers, Line(e))
    BY <1>1, <1>2, <1>5 DEF HeaderLine, Consume
  <2>2. Line(e) \in Seq(Cells) \ {<<>>} /\ Line(e)[1] = data[b]
    <3>1. Line(e) \in Seq(Cells) /\ Len(Line(e)) = LineLength(e) /\ LineLength(e) \in Nat
      BY LineInside
    <3>2. Line(e)[1] = data[b]
      BY <1>1, <1>4, <3>1, LenProperties DEF Line
    <3> QED
      BY <1>4, <3>1, <3>2, EmptySeq
  <2>3. Len(Append(headers, Line(e))) = Len(headers) + 1
    BY <1>1, <2>2, AppendProperties
  <2>4. /\ HasSize(Append(headers, Line(e))) <=> HasSize(headers) \/ data[b] \in {"C", "Z"}
        /\ HasSize(headers) => Announced(Append(headers, Line(e))) = Announced(headers)
        /\ ~HasSize(headers) => Announced(Append(headers, Line(e))) = IF data[b] = "C" THEN BodyLen ELSE 0
    BY <1>1, <2>2, AppendSize
  <2>5. /\ Cardinality(Before(data, pos)) = Len(headers) + 1
        /\ HasSize(headers) <=> Sizes(data, pos) # {}
        /\ Announced(headers) = BodySize(data, pos)
    BY <1>1 DEF Lines
  <2>6. Sizes(data, e + 1) = Sizes(data, pos) \cup (IF data[b] \in {"C", "Z"} THEN {b} ELSE {})
    BY <1>1, <1>2 DEF Sizes
  <2>7. Sizes(data, pos) \in SUBSET Nat /\ \A c \in Sizes(data, pos) : c < b
    BY <1>1, EndsFacts DEF Sizes, Before
  <2>8. /\ HasSize(Append(headers, Line(e))) <=> Sizes(data, e + 1) # {}
        /\ Announced(Append(headers, Line(e))) = BodySize(data, e + 1)
    <3>1. CASE Sizes(data, pos) # {}
      <4>1. First(Sizes(data, pos)) \in Sizes(data, pos)
            /\ \A c \in Sizes(data, pos) : First(Sizes(data, pos)) <= c
        BY <2>7, <3>1, FirstFacts
      <4>2. First(Sizes(data, e + 1)) = First(Sizes(data, pos))
        <5>1. Sizes(data, e + 1) \in SUBSET Nat
          BY <1>1, <2>6, <2>7
        <5>2. /\ First(Sizes(data, pos)) \in Sizes(data, e + 1)
              /\ \A c \in Sizes(data, e + 1) : First(Sizes(data, pos)) <= c
          BY <1>1, <2>6, <2>7, <4>1
        <5> QED
          BY <5>1, <5>2, FirstIs
      <4>3. Sizes(data, e + 1) # {}
        BY <2>6, <3>1
      <4>4. BodySize(data, e + 1) = BodySize(data, pos)
        BY <3>1, <4>2, <4>3 DEF BodySize
      <4> QED
        BY <2>4, <2>5, <3>1, <4>3, <4>4
    <3>2. CASE Sizes(data, pos) = {} /\ data[b] \in {"C", "Z"}
      <4>1. Sizes(data, e + 1) = {b}
        BY <2>6, <3>2
      <4>2. First({b}) = b
        <5>1. {b} \in SUBSET Nat
          BY <1>1
        <5> QED
          BY <5>1, FirstIs
      <4>3. BodySize(data, e + 1) = IF data[b] = "C" THEN BodyLen ELSE 0
        BY <4>1, <4>2 DEF BodySize
      <4> QED
        BY <2>4, <2>5, <3>2, <4>1, <4>3
    <3>3. CASE Sizes(data, pos) = {} /\ data[b] \notin {"C", "Z"}
      <4>1. Sizes(data, e + 1) = {}
        BY <2>6, <3>3
      <4>2. BodySize(data, e + 1) = 0
        BY <4>1 DEF BodySize
      <4> QED
        BY <2>4, <2>5, <3>3, <4>1, <4>2
    <3> QED
      BY <3>1, <3>2, <3>3
  <2>9. GoodLine(data, b)
    BY <1>3, <1>4, <1>5 DEF GoodLine
  <2>10. \A c \in Before(data, e + 1) : GoodLine(data, c)
    BY <1>1, <1>2, <2>9 DEF Lines
  <2>11. Lines(data, e + 1, Append(headers, Line(e)))
    <3>1. e + 1 # 0
      BY <1>3
    <3>2. Cardinality(Before(data, e + 1)) = Len(Append(headers, Line(e))) + 1
      BY <1>2, <2>3, <2>5
    <3> QED
      BY <1>2, <2>8, <2>10, <3>1, <3>2 DEF Lines
  <2> QED
    BY <1>1, <1>3, <2>1, <2>11 DEF ParserInv, InHead
<1>6. CASE ~(HasColon(Line(e)) /\ Len(headers) < HeaderMax)
  <2>1. st' = "INVALID" /\ calling' = FALSE /\ pos' = pos /\ headers' = headers
    BY <1>6 DEF HeaderLine, Reject
  <2>2. Wrong(data, b, headers)
    BY <1>1, <1>3, <1>4, <1>6 DEF Wrong
  <2> QED
    BY <1>1, <1>3, <2>1, <2>2 DEF ParserInv, Refused
<1> QED
  BY <1>5, <1>6

LEMMA BlankLineInv ==
  ASSUME TypeOK, LinesFit, ParserInv, calling, NEW e, FoundEol(e), BlankLine(e),
         UNCHANGED <<data, avail>>
  PROVE  ParserInv'
<1>1. /\ st = "HEADER" /\ pos > 0 /\ Lines(data, pos, headers) /\ pos \in Nat
      /\ data' = data /\ headers' = headers /\ calling' = calling
      /\ remaining' = Announced(headers) /\ Announced(headers) \in Nat
      /\ st' = IF Announced(headers) > 0 THEN "BODY" ELSE "DONE"
  BY AnnouncedType DEF BlankLine, ParserInv, InHead, Lines
<1>2. pos + 1 \in Ends(data) /\ pos' = pos + 2
  <2>1. LineLength(e) = 0
    BY DEF BlankLine
  <2> QED
    BY <1>1, <2>1, LineTaken DEF BlankLine, Consume
<1>3. PICK p \in Nat : p = pos
  BY <1>1
<1>4. InBody(p)'
  <2>1. Lines(data, p, headers)' /\ (p + 1 \in Ends(data))' /\ p # 0
    BY <1>1, <1>2, <1>3
  <2>2. p + 2 <= pos' /\ pos' + remaining' = p + 2 + Announced(headers')
    BY <1>1, <1>2, <1>3
  <2>3. st' = "DONE" <=> remaining' = 0
    BY <1>1
  <2> QED
    BY <2>1, <2>2, <2>3 DEF InBody
<1>5. st' \in {"BODY", "DONE"} /\ calling'
  BY <1>1
<1> QED
  BY <1>4, <1>5 DEF ParserInv

LEMMA InvStep == Inv /\ [Next]_vars => Inv'
<1> SUFFICES ASSUME Inv, [Next]_vars PROVE Inv'
  OBVIOUS
<1>1. TypeOK /\ TypeOK'
  BY NextTypeOK DEF Inv
<1>2. data' = data
  BY DEF Next, Feed, Return, TakeBody, TakeLine, vars
<1>3. LinesFit' <=> LinesFit
  BY <1>2 DEF LinesFit
<1>4. ASSUME LinesFit PROVE ParserInv'
  <2>1. ParserInv
    BY <1>4 DEF Inv
  <2>2. CASE Feed
    BY <1>1, <2>1, <2>2, FeedInv
  <2>3. CASE Return
    BY <1>1, <2>1, <2>3, ReturnInv
  <2>4. CASE TakeBody
    BY <1>1, <2>1, <2>4, TakeBodyInv
  <2>5. CASE TakeLine
    <3>1. PICK e \in 1 .. avail : FoundEol(e) /\ (RequestLine(e) \/ HeaderLine(e) \/ BlankLine(e))
      BY <2>5 DEF TakeLine
    <3>2. calling /\ UNCHANGED <<data, avail>>
      BY <2>5 DEF TakeLine
    <3> QED
      BY <1>1, <1>4, <2>1, <3>1, <3>2, RequestLineInv, HeaderLineInv, BlankLineInv
  <2>6. CASE UNCHANGED vars
    <3>1. /\ data' = data /\ avail' = avail /\ pos' = pos /\ st' = st /\ headers' = headers
          /\ remaining' = remaining /\ calling' = calling
      BY <2>6 DEF vars
    <3>2. \A p \in Nat : InBody(p) => InBody(p)'
      BY <3>1 DEF InBody
    <3>3. Eols' = Eols
      BY <3>1 DEF Eols
    <3> QED
      BY <2>1, <3>1, <3>2, <3>3 DEF ParserInv, InHead, Refused
  <2> QED
    BY <2>2, <2>3, <2>4, <2>5, <2>6 DEF Next
<1> QED
  BY <1>1, <1>3, <1>4 DEF Inv

LEMMA Invariant == Spec => []Inv
BY InitInv, InvStep, PTL DEF Spec

\* However a request is split over calls of nexus_http_req_feed (http_parser.c 46-104), as
\* long as its lines fit into line_buf: between calls the parser is in the state, and has
\* consumed as much, as one look at all that has arrived says.
THEOREM SplitsHarmless == Spec => []SplitsDoNotMatter
<1>1. Inv => SplitsDoNotMatter
  <2> SUFFICES ASSUME Inv, ~calling, LinesFit
               PROVE  [st |-> st, pos |-> pos] = Verdict(SubSeq(data, 1, avail))
    BY DEF SplitsDoNotMatter
  <2>1. TypeOK /\ ParserInv
    BY DEF Inv
  <2>2. CASE st \in {"REQ_LINE", "HEADER"}
    BY <2>1, <2>2, VerdictHead DEF ParserInv
  <2>3. CASE st \in {"BODY", "DONE"}
    BY <2>1, <2>3, VerdictBody DEF ParserInv
  <2>4. CASE st = "INVALID"
    BY <2>1, <2>4, VerdictRefused DEF ParserInv
  <2> QED
    BY <2>1, <2>2, <2>3, <2>4 DEF TypeOK, Final
<1> QED
  BY <1>1, Invariant, PTL
=============================================================================
