------------------------- MODULE StaticFile_proofs -------------------------
(***************************************************************************)
(* Proofs about StaticFile, for every size of the file, of a page and of   *)
(* the pipe, every way a client takes or refuses the bytes, and every read *)
(* of the file that fails.                                                 *)
(***************************************************************************)
EXTENDS StaticFile, SequenceTheorems, TLAPS

-----------------------------------------------------------------------------
(* The inductive invariant.                                                 *)

Serving == pc \in {"serve", "read", "write", "return"}

\* What the variables of a call have to do with each other.
Call ==
  /\ InCall => len + total = remaining /\ remaining > 0
  /\ pc = "write" => n > 0 /\ n <= fpos - lo /\ n <= len
  /\ Serving => status = "200"
  /\ pc = "open" => out = <<>> /\ status = "none" /\ lo = 0 /\ fpos = 0

\* The client has got nothing that is still in the pipe.
Behind == \A i \in 1 .. Len(out) : out[i] <= lo

\* The last byte it has got is not more than a pipe behind.
Near ==
  /\ fpos - lo <= Capacity
  /\ Len(out) > 0 /\ pc # "end" =>
       out[Len(out)] >= (IF InCall /\ total = 0 THEN lo - Capacity ELSE lo)

\* With a client that keeps up there is nothing left behind in a pipe.
Fast ==
  ~slow => /\ Len(out) = lo
           /\ \A i \in 1 .. Len(out) : out[i] = i
           /\ pc = "write" => n = fpos - lo
           /\ pc # "write" => lo = fpos
           /\ pc = "return" /\ ~unread => total = remaining
           /\ pc = "end" /\ status = "200" /\ ~unread => Len(out) = size

Inv == TypeOK /\ Call /\ SentCounted /\ Behind /\ InOrder /\ Near /\ HolesBounded /\ Fast

-----------------------------------------------------------------------------
(* Arithmetic.                                                              *)

LEMMA CapacityNat == Capacity \in Nat
BY SizesAssumption DEF Capacity

\* Bytes that take p places are no more than p pages.
LEMMA PagesHold ==
  ASSUME NEW f \in Nat, NEW t \in Nat, f <= t
  PROVE  Pages(f, t) \in Nat /\ t - f <= Page * Pages(f, t)
<1>1. Page \in Nat /\ Page > 0
  BY SizesAssumption
<1>2. CASE t = f
  BY <1>1, <1>2 DEF Pages
<1>3. CASE t > f
  <2>. DEFINE a == f \div Page
              b == (t - 1) \div Page
  <2>1. a \in Nat /\ Page * a <= f /\ f < Page * a + Page
    BY <1>1
  <2>2. b \in Nat /\ Page * b <= t - 1 /\ t - 1 < Page * b + Page
    BY <1>1, <1>3
  <2>. HIDE DEF a, b
  <2>3. a <= b
    <3>1. SUFFICES ASSUME b + 1 <= a PROVE FALSE
      BY <2>1, <2>2
    <3>2. Page * (b + 1) <= Page * a /\ Page * (b + 1) = Page * b + Page
      BY <1>1, <2>1, <2>2, <3>1
    <3>. QED
      BY <1>1, <1>3, <2>1, <2>2, <3>2
  <2>4. Pages(f, t) = b - a + 1 /\ b - a + 1 \in Nat
    BY <1>3, <2>1, <2>2, <2>3 DEF Pages, a, b
  <2>5. Page * (b - a + 1) = Page * b - Page * a + Page
    BY <1>1, <2>1, <2>2
  <2>6. t - f <= Page * b - Page * a + Page /\ Page * a \in Nat /\ Page * b \in Nat
    BY <1>1, <2>1, <2>2
  <2>. QED
    BY <2>4, <2>5, <2>6
<1>. QED
  BY <1>2, <1>3

\* What fits into the places of a pipe is no more than its capacity.
LEMMA PipeHolds ==
  ASSUME NEW f \in Nat, NEW g \in Nat, NEW t \in Nat, f <= g, g <= t,
         Pages(f, g) + Pages(g, t) <= Slots
  PROVE  t - f <= Capacity
<1>. DEFINE p == Pages(f, g)
            q == Pages(g, t)
<1>1. p \in Nat /\ q \in Nat /\ g - f <= Page * p /\ t - g <= Page * q
  BY PagesHold
<1>2. p + q <= Slots
  OBVIOUS
<1>. HIDE DEF p, q
<1>3. Page \in Nat /\ Slots \in Nat
  BY SizesAssumption
<1>4. Page * p + Page * q = Page * (p + q) /\ Page * (p + q) <= Page * Slots
  BY <1>1, <1>2, <1>3
<1>5. Page * Slots = Capacity /\ Page * p \in Nat /\ Page * q \in Nat
  BY <1>1, <1>3 DEF Capacity
<1>. DEFINE x == Page * p
            y == Page * q
<1>6. x \in Nat /\ y \in Nat /\ x + y <= Capacity /\ g - f <= x /\ t - g <= y
  BY <1>1, <1>4, <1>5
<1>. HIDE DEF x, y
<1>. QED
  BY <1>6, CapacityNat

-----------------------------------------------------------------------------
LEMMA InitInv == Init => Inv
<1>. SUFFICES ASSUME Init PROVE Inv
  OBVIOUS
<1>1. out = <<>> /\ Len(out) = 0 /\ out \in Seq(1 .. size)
  BY EmptySeq DEF Init
<1>2. TypeOK
  <2>1. size \in 0 .. MaxSize /\ 0 \in 0 .. size /\ 0 \in 0 .. 0
    BY SizesAssumption DEF Init
  <2>. QED
    BY <1>1, <2>1 DEF Init, TypeOK
<1>3. Call /\ SentCounted /\ Behind /\ InOrder /\ HolesBounded
  BY <1>1 DEF Init, Call, SentCounted, Behind, InOrder, HolesBounded, InCall, Serving
<1>4. Near /\ Fast
  BY <1>1, CapacityNat DEF Init, Near, Fast
<1>. QED
  BY <1>2, <1>3, <1>4 DEF Inv

\* The lengths are numbers.
LEMMA Numbers ==
  ASSUME TypeOK
  PROVE  /\ size \in Nat /\ fpos \in Nat /\ lo \in Nat /\ lo <= fpos /\ fpos <= size
         /\ remaining \in Nat /\ len \in Nat /\ total \in Nat /\ n \in Nat
         /\ Len(out) \in Nat /\ out \in Seq(1 .. size) /\ DOMAIN out = 1 .. Len(out)
         /\ \A i \in 1 .. Len(out) : out[i] \in 1 .. size
<1>1. MaxSize \in Nat
  BY SizesAssumption
<1>2. out \in Seq(1 .. size)
  BY DEF TypeOK
<1>3. Len(out) \in Nat /\ DOMAIN out = 1 .. Len(out) /\ \A i \in 1 .. Len(out) : out[i] \in 1 .. size
  BY <1>2, LenProperties, ElementOfSeq
<1>. QED
  BY <1>1, <1>2, <1>3 DEF TypeOK

\* Steps that send nothing.
LEMMA QuietKeepsOut ==
  ASSUME Inv, UNCHANGED <<out, size>>, lo' \in Nat, lo <= lo'
  PROVE  Behind' /\ InOrder' /\ HolesBounded'
<1>1. TypeOK
  BY DEF Inv
<1>2. \A i \in 1 .. Len(out) : out[i] <= lo'
  BY <1>1, Numbers DEF Inv, Behind
<1>3. Behind'
  BY <1>2 DEF Behind
<1>4. InOrder' /\ HolesBounded'
  BY DEF Inv, InOrder, HolesBounded, Capacity
<1>. QED
  BY <1>3, <1>4

LEMMA OuterKeepsInv == Inv /\ (Open \/ CallSplice \/ NoPipe \/ ServeDone \/ Return) => Inv'
<1>. SUFFICES ASSUME Inv, Open \/ CallSplice \/ NoPipe \/ ServeDone \/ Return PROVE Inv'
  OBVIOUS
<1>. USE CapacityNat
<1>1. /\ TypeOK /\ Call /\ SentCounted /\ Near /\ Fast
      /\ UNCHANGED <<asked, size, fpos, out>>
  BY DEF Inv, Open, CallSplice, NoPipe, ServeDone, Return
<1>2. /\ size \in Nat /\ fpos \in Nat /\ lo \in Nat /\ lo <= fpos /\ fpos <= size
      /\ remaining \in Nat /\ len \in Nat /\ total \in Nat /\ n \in Nat /\ Len(out) \in Nat
      /\ \A i \in 1 .. Len(out) : out[i] \in 1 .. size
  BY <1>1, Numbers
<1>3. CASE Open
  <2>1. TypeOK'
    BY <1>1, <1>2, <1>3 DEF Open, TypeOK
  <2>2. Len(out) = 0 /\ lo = 0 /\ fpos = 0
    BY <1>1, <1>3, EmptySeq DEF Open, Call
  <2>3. Call' /\ SentCounted'
    BY <1>1, <1>2, <1>3, <2>2 DEF Open, Call, SentCounted, InCall, Serving
  <2>4. Behind' /\ InOrder' /\ HolesBounded'
    BY <1>2, <1>3, QuietKeepsOut DEF Open
  <2>5. Near' /\ Fast'
    BY <1>1, <1>2, <1>3, <2>2 DEF Open, Near, Fast, Capacity, Call
  <2>. QED
    BY <2>1, <2>3, <2>4, <2>5 DEF Inv
<1>4. CASE CallSplice
  <2>1. TypeOK'
    BY <1>1, <1>2, <1>4 DEF CallSplice, TypeOK
  <2>2. Call' /\ SentCounted'
    BY <1>1, <1>2, <1>4 DEF CallSplice, Call, SentCounted, InCall, Serving
  <2>3. Behind' /\ InOrder' /\ HolesBounded'
    BY <1>2, <1>4, QuietKeepsOut DEF CallSplice
  <2>4. Near'
    <3>1. Len(out) > 0 => out[Len(out)] >= lo /\ out[Len(out)] \in Nat
      BY <1>1, <1>2, <1>4 DEF CallSplice, Near, InCall
    <3>2. fpos - lo <= Capacity /\ Capacity' = Capacity
      BY <1>1 DEF Near, Capacity
    <3>3. Len(out) > 0 => out[Len(out)] >= fpos - Capacity
      BY <1>2, <3>1, <3>2
    <3>. QED
      BY <1>2, <1>4, <3>2, <3>3 DEF CallSplice, Near, InCall
  <2>5. Fast'
    BY <1>1, <1>2, <1>4 DEF CallSplice, Fast
  <2>. QED
    BY <2>1, <2>2, <2>3, <2>4, <2>5 DEF Inv
<1>5. CASE NoPipe \/ ServeDone
  <2>1. TypeOK'
    BY <1>1, <1>2, <1>5 DEF NoPipe, ServeDone, TypeOK
  <2>2. Call' /\ SentCounted'
    BY <1>1, <1>2, <1>5 DEF NoPipe, ServeDone, Call, SentCounted, InCall, Serving
  <2>3. Behind' /\ InOrder' /\ HolesBounded'
    BY <1>2, <1>5, QuietKeepsOut DEF NoPipe, ServeDone
  <2>4. Near'
    BY <1>1, <1>5 DEF NoPipe, ServeDone, Near, Capacity
  <2>5. Fast'
    BY <1>1, <1>2, <1>5 DEF NoPipe, ServeDone, Fast, SentCounted, InCall
  <2>. QED
    BY <2>1, <2>2, <2>3, <2>4, <2>5 DEF Inv
<1>6. CASE Return
  <2>1. TypeOK'
    BY <1>1, <1>2, <1>6 DEF Return, TypeOK, Call, InCall
  <2>2. Call' /\ SentCounted'
    BY <1>1, <1>2, <1>6 DEF Return, Call, SentCounted, InCall, Serving
  <2>3. Behind' /\ InOrder' /\ HolesBounded'
    BY <1>2, <1>6, QuietKeepsOut DEF Return
  <2>4. Near'
    BY <1>1, <1>6 DEF Return, Near, InCall, Capacity
  <2>5. Fast'
    BY <1>1, <1>2, <1>6 DEF Return, Fast, Call, InCall, SentCounted
  <2>. QED
    BY <2>1, <2>2, <2>3, <2>4, <2>5 DEF Inv
<1>. QED
  BY <1>3, <1>4, <1>5, <1>6

LEMMA LoopKeepsInv == Inv /\ (ReadFile \/ ReadFails \/ WriteFails \/ SpliceDone) => Inv'
<1>. SUFFICES ASSUME Inv, ReadFile \/ ReadFails \/ WriteFails \/ SpliceDone PROVE Inv'
  OBVIOUS
<1>. USE CapacityNat
<1>1. /\ TypeOK /\ Call /\ SentCounted /\ Near /\ Fast
      /\ UNCHANGED <<asked, size, status, lo, remaining, len, total, out>>
  BY DEF Inv, ReadFile, ReadFails, WriteFails, SpliceDone
<1>2. /\ size \in Nat /\ fpos \in Nat /\ lo \in Nat /\ lo <= fpos /\ fpos <= size
      /\ remaining \in Nat /\ len \in Nat /\ total \in Nat /\ n \in Nat /\ Len(out) \in Nat
      /\ \A i \in 1 .. Len(out) : out[i] \in 1 .. size
  BY <1>1, Numbers
<1>3. Behind' /\ InOrder' /\ HolesBounded'
  BY <1>1, <1>2, QuietKeepsOut
<1>4. CASE ReadFile
  <2>1. PICK t \in fpos + 1 .. Smaller(size, fpos + len) :
          Pages(lo, fpos) + Pages(fpos, t) <= Slots /\ fpos' = t /\ n' = t - fpos
    BY <1>4 DEF ReadFile
  <2>2. t \in Nat /\ t > fpos /\ t <= size /\ t <= fpos + len
    BY <1>2, <2>1 DEF Smaller
  <2>3. t - lo <= Capacity
    BY <1>2, <2>1, <2>2, PipeHolds
  <2>4. TypeOK'
    BY <1>1, <1>2, <1>4, <2>1, <2>2 DEF ReadFile, TypeOK
  <2>5. Call' /\ SentCounted'
    BY <1>1, <1>2, <1>4, <2>1, <2>2 DEF ReadFile, Call, SentCounted, InCall, Serving
  <2>6. Near'
    BY <1>1, <1>4, <2>1, <2>3 DEF ReadFile, Near, InCall, Capacity
  <2>7. Fast'
    BY <1>1, <1>2, <1>4, <2>1 DEF ReadFile, Fast
  <2>. QED
    BY <1>3, <2>4, <2>5, <2>6, <2>7 DEF Inv
<1>5. CASE ReadFails \/ WriteFails \/ SpliceDone
  <2>1. TypeOK'
    BY <1>1, <1>2, <1>5 DEF ReadFails, WriteFails, SpliceDone, TypeOK
  <2>2. Call' /\ SentCounted'
    BY <1>1, <1>2, <1>5 DEF ReadFails, WriteFails, SpliceDone, Call, SentCounted, InCall, Serving
  <2>3. Near'
    BY <1>1, <1>5 DEF ReadFails, WriteFails, SpliceDone, Near, InCall, Capacity
  <2>4. Fast'
    BY <1>1, <1>2, <1>5 DEF ReadFails, WriteFails, SpliceDone, Fast, Call, SentCounted, InCall, Serving
  <2>. QED
    BY <1>3, <2>1, <2>2, <2>3, <2>4 DEF Inv
<1>. QED
  BY <1>4, <1>5

\* Bytes come out of the pipe.
LEMMA WriteKeepsInv == Inv /\ WriteSocket => Inv'
<1>. SUFFICES ASSUME Inv, WriteSocket PROVE Inv'
  OBVIOUS
<1>. USE CapacityNat
<1>1. /\ TypeOK /\ Call /\ SentCounted /\ Near /\ Fast /\ Behind /\ InOrder /\ HolesBounded
      /\ UNCHANGED <<asked, size, status, fpos, remaining, n>> /\ pc = "write" /\ pc' = "read"
  BY DEF Inv, WriteSocket
<1>2. /\ size \in Nat /\ fpos \in Nat /\ lo \in Nat /\ lo <= fpos /\ fpos <= size
      /\ remaining \in Nat /\ len \in Nat /\ total \in Nat /\ n \in Nat /\ Len(out) \in Nat
      /\ out \in Seq(1 .. size) /\ \A i \in 1 .. Len(out) : out[i] \in 1 .. size
  BY <1>1, Numbers
<1>3. PICK m \in 1 .. n : /\ out' = out \o [i \in 1 .. m |-> lo + i]
                          /\ lo' = lo + m /\ len' = len - m /\ total' = total + m
                          /\ slow' = (slow \/ m < n)
  BY DEF WriteSocket
<1>4. m \in Nat /\ m > 0 /\ m <= n /\ n <= fpos - lo /\ n <= len /\ len + total = remaining
  BY <1>1, <1>2, <1>3 DEF Call, InCall
<1>5. [i \in 1 .. m |-> lo + i] \in Seq(1 .. size) /\ Len([i \in 1 .. m |-> lo + i]) = m
  <2>1. \A i \in 1 .. m : lo + i \in 1 .. size
    BY <1>2, <1>4
  <2>. QED
    BY <1>4, <2>1
<1>6. /\ out' \in Seq(1 .. size) /\ Len(out') = Len(out) + m
      /\ \A i \in 1 .. Len(out) : out'[i] = out[i]
      /\ \A i \in Len(out) + 1 .. Len(out) + m : out'[i] = lo + (i - Len(out))
  BY <1>2, <1>3, <1>4, <1>5, ConcatProperties
<1>7. TypeOK'
  BY <1>1, <1>2, <1>3, <1>4, <1>6 DEF TypeOK, WriteSocket
<1>8. Call' /\ SentCounted'
  <2>1. len' + total' = remaining' /\ remaining' > 0 /\ status' = "200"
    BY <1>1, <1>2, <1>3, <1>4 DEF Call, InCall, Serving
  <2>2. Len(out) = size - remaining + total
    BY <1>1 DEF Call, SentCounted, InCall, Serving
  <2>3. Len(out') = size' - remaining' + total'
    BY <1>1, <1>2, <1>3, <1>4, <1>6, <2>2
  <2>4. Call'
    BY <1>1, <2>1 DEF Call, InCall, Serving
  <2>5. SentCounted'
    BY <1>1, <2>3 DEF SentCounted, InCall
  <2>. QED
    BY <2>4, <2>5
<1>. DEFINE L == Len(out)
<1>9. /\ L \in Nat /\ Len(out') = L + m
      /\ \A i \in 1 .. L : out'[i] = out[i] /\ out[i] \in Nat /\ out[i] <= lo
      /\ \A i \in L + 1 .. L + m : out'[i] = lo + (i - L)
  BY <1>1, <1>2, <1>6 DEF Behind
<1>. HIDE DEF L
<1>10. Behind'
  <2>1. ASSUME NEW i \in 1 .. L + m PROVE out'[i] <= lo + m
    <3>1. CASE i <= L
      BY <1>2, <1>4, <1>9, <3>1
    <3>2. CASE i > L
      BY <1>2, <1>4, <1>9, <3>2
    <3>. QED
      BY <1>9, <3>1, <3>2
  <2>. QED
    BY <1>3, <1>9, <2>1 DEF Behind
<1>11. InOrder'
  <2>1. ASSUME NEW i \in 1 .. L + m, NEW j \in 1 .. L + m, i < j PROVE out'[i] < out'[j]
    <3>1. CASE j <= L
      <4>1. i \in 1 .. L /\ j \in 1 .. L
        BY <1>4, <1>9, <2>1, <3>1
      <4>2. out[i] < out[j]
        BY <1>1, <2>1, <4>1 DEF InOrder, L
      <4>. QED
        BY <1>9, <4>1, <4>2
    <3>2. CASE i <= L /\ j > L
      <4>1. i \in 1 .. L /\ j \in L + 1 .. L + m /\ j - L > 0
        BY <1>4, <1>9, <2>1, <3>2
      <4>2. out'[i] <= lo /\ out'[j] = lo + (j - L) /\ out'[i] \in Nat
        BY <1>9, <4>1
      <4>. QED
        BY <1>2, <1>9, <4>1, <4>2
    <3>3. CASE i > L
      <4>1. i \in L + 1 .. L + m /\ j \in L + 1 .. L + m
        BY <1>4, <1>9, <2>1, <3>3
      <4>2. out'[i] = lo + (i - L) /\ out'[j] = lo + (j - L)
        BY <1>9, <4>1
      <4>. QED
        BY <1>2, <1>9, <2>1, <4>1, <4>2
    <3>. QED
      BY <1>9, <2>1, <3>1, <3>2, <3>3
  <2>. QED
    BY <1>9, <2>1 DEF InOrder
<1>12. HolesBounded'
  <2>1. ASSUME NEW i \in 1 .. (L + m) - 1 PROVE out'[i + 1] <= out'[i] + Capacity + 1
    <3>1. CASE i < L
      <4>1. i \in 1 .. L - 1 /\ i \in 1 .. L /\ i + 1 \in 1 .. L
        BY <1>9, <2>1, <3>1
      <4>2. out[i + 1] <= out[i] + Capacity + 1
        BY <1>1, <4>1 DEF HolesBounded, L
      <4>. QED
        BY <1>9, <4>1, <4>2
    <3>2. CASE i = L
      <4>1. L \in 1 .. L /\ L + 1 \in L + 1 .. L + m
        BY <1>4, <1>9, <2>1, <3>2
      <4>2. out[L] >= lo - Capacity
        BY <1>1, <1>2, <4>1 DEF Near, L
      <4>3. out'[i] = out[L] /\ out[L] \in Nat /\ out'[i + 1] = lo + 1
        BY <1>2, <1>9, <3>2, <4>1
      <4>. QED
        BY <1>2, <4>2, <4>3, SMTT(30)
    <3>3. CASE i > L
      <4>1. i \in L + 1 .. L + m /\ i + 1 \in L + 1 .. L + m
        BY <1>4, <1>9, <2>1, <3>3
      <4>2. out'[i] = lo + (i - L) /\ out'[i + 1] = lo + (i + 1 - L)
        BY <1>9, <4>1
      <4>. QED
        BY <1>2, <1>9, <4>1, <4>2
    <3>. QED
      BY <1>9, <2>1, <3>1, <3>2, <3>3
  <2>. QED
    BY <1>9, <2>1 DEF HolesBounded, Capacity
<1>13. Near'
  <2>1. L + m \in L + 1 .. L + m /\ out'[L + m] = lo + m
    BY <1>2, <1>4, <1>9
  <2>2. fpos - (lo + m) <= Capacity /\ total' > 0
    BY <1>1, <1>2, <1>3, <1>4 DEF Near
  <2>. QED
    BY <1>1, <1>2, <1>3, <1>4, <1>9, <2>1, <2>2 DEF Near, InCall, Capacity
<1>14. Fast'
  <2>1. ASSUME ~slow'
         PROVE  Len(out') = lo' /\ lo' = fpos' /\ \A i \in 1 .. Len(out') : out'[i] = i
    <3>1. ~slow /\ ~(m < n)
      BY <1>3, <2>1
    <3>2. Len(out) = lo /\ n = fpos - lo /\ \A i \in 1 .. Len(out) : out[i] = i
      BY <1>1, <3>1 DEF Fast
    <3>3. m = n
      BY <1>2, <1>4, <3>1
    <3>4. lo' = lo + m /\ Len(out') = Len(out) + m /\ fpos' = fpos
      BY <1>1, <1>3, <1>6
    <3>5. ASSUME NEW i \in 1 .. Len(out) + m PROVE out'[i] = i
      BY <1>2, <1>4, <1>6, <3>2
    <3>. QED
      BY <1>2, <3>2, <3>3, <3>4, <3>5
  <2>. QED
    BY <1>1, <2>1 DEF Fast
<1>. QED
  BY <1>7, <1>8, <1>10, <1>11, <1>12, <1>13, <1>14 DEF Inv

LEMMA StutterKeepsInv == Inv /\ UNCHANGED vars => Inv'
<1>. SUFFICES ASSUME Inv, UNCHANGED vars PROVE Inv'
  OBVIOUS
<1>1. /\ UNCHANGED <<asked, size, pc, status, fpos, lo, remaining, len, total, n, out, slow, unread>>
      /\ Capacity' = Capacity
  BY DEF vars, Capacity
<1>2. TypeOK' /\ Call' /\ SentCounted'
  BY <1>1 DEF Inv, TypeOK, Call, SentCounted, InCall, Serving
<1>3. Behind' /\ InOrder' /\ HolesBounded'
  BY <1>1 DEF Inv, Behind, InOrder, HolesBounded
<1>4. Near' /\ Fast'
  BY <1>1 DEF Inv, Near, Fast, InCall
<1>. QED
  BY <1>2, <1>3, <1>4 DEF Inv

LEMMA NextInv == Inv /\ [Next]_vars => Inv'
BY OuterKeepsInv, LoopKeepsInv, WriteKeepsInv, StutterKeepsInv DEF Next

LEMMA Invariance == Spec => []Inv
BY InitInv, NextInv, PTL DEF Spec

-----------------------------------------------------------------------------
\* No call asks for more than is left, and nothing is counted below zero.
THEOREM TypeCorrect == Spec => []TypeOK
<1>1. Inv => TypeOK
  BY DEF Inv
<1>. QED
  BY <1>1, Invariance, PTL

\* The client gets the bytes in order and none of them twice.
THEOREM BytesInOrder == Spec => []InOrder
<1>1. Inv => InOrder
  BY DEF Inv
<1>. QED
  BY <1>1, Invariance, PTL

\* What the code has left to send is what the client has not got.
THEOREM Accounted == Spec => []SentCounted
<1>1. Inv => SentCounted
  BY DEF Inv
<1>. QED
  BY <1>1, Invariance, PTL

\* A hole is never longer than the pipe that was lost.
THEOREM HolesNoLongerThanPipe == Spec => []HolesBounded
<1>1. Inv => HolesBounded
  BY DEF Inv
<1>. QED
  BY <1>1, Invariance, PTL

\* A client that keeps up gets the file without a hole, and the whole of it unless a read of
\* the file failed.
THEOREM FastClientServed == Spec => []WholeIfFast
<1>1. Inv => WholeIfFast
  BY DEF Inv, Fast, WholeIfFast
<1>. QED
  BY <1>1, Invariance, PTL
=============================================================================
