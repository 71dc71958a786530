-------------------------- MODULE Admission_proofs --------------------------
(***************************************************************************)
(* Proofs about Admission, for every rate, length of a second, size of the *)
(* table and of the list, and every spacing of the requests.               *)
(***************************************************************************)
EXTENDS Admission, TLAPS

\* What a stretch from s to now may hold, in units of 1/Second.
Allowance(s) == Cap + Rate * (now - s)
Used(a, s)   == Second * since[a][s]

\* What a check would find in the bucket of a.
Level(a) == Refilled(entries[a])

-----------------------------------------------------------------------------
(* The inductive invariant: the level of a bucket is the smallest of what   *)
(* the stretches that end now have left.                                    *)

Bounded == \A a \in Addrs : Known(a) => \A s \in 0 .. now : Level(a) <= Allowance(s) - Used(a, s)

Tight == \A a \in Addrs : Known(a) => \/ Level(a) = Cap
                                      \/ \E s \in 0 .. now : Level(a) = Allowance(s) - Used(a, s)

Clocked == \A a \in Addrs : /\ Known(a) => entries[a].last <= now
                            /\ \A s \in Times : s > now => since[a][s] = 0

Fresh == \A a \in Addrs : ~Known(a) /\ count < TableSize => \A s \in Times : since[a][s] = 0

BucketInv == TypeOK /\ Bounded /\ Tight /\ Clocked /\ Fresh

-----------------------------------------------------------------------------
(* Arithmetic.                                                              *)

LEMMA RateTimes ==
  /\ Cap \in Nat
  /\ \A x \in Nat : Rate * x \in Nat /\ Rate * (x + 1) = Rate * x + Rate
  /\ Rate * 0 = 0
BY SizesAssumption DEF Cap

LEMMA SecondTimes ==
  /\ \A x \in Nat : Second * x \in Nat /\ Second * (x + 1) = Second * x + Second
                    /\ (x > 0 => Second * x >= Second)
  /\ Second * 0 = 0
<1>1. Second \in Nat /\ Second > 0
  BY SizesAssumption
<1>2. \A x \in Nat : Second * x \in Nat /\ Second * (x + 1) = Second * x + Second
  BY <1>1
<1>3. ASSUME NEW x \in Nat, x > 0 PROVE Second * x >= Second
  <2>1. x - 1 \in Nat /\ Second * ((x - 1) + 1) = Second * (x - 1) + Second
    BY <1>2, <1>3
  <2>2. (x - 1) + 1 = x /\ Second * (x - 1) \in Nat
    BY <2>1, <1>2
  <2> QED
    BY <2>1, <2>2, <1>1
<1> QED
  BY <1>1, <1>2, <1>3

\* What is allowed and what is used are numbers; an allowance grows by Rate a step.
LEMMA Amounts ==
  ASSUME TypeOK, NEW a \in Addrs, NEW s \in 0 .. now
  PROVE  /\ Allowance(s) \in Nat /\ Allowance(s) >= Cap
         /\ Cap + Rate * (now + 1 - s) = Allowance(s) + Rate
         /\ since[a][s] \in Nat /\ Used(a, s) \in Nat
         /\ Second * (since[a][s] + 1) = Used(a, s) + Second
<1>1. now \in Nat /\ now \in Times /\ s \in Times /\ now - s \in Nat
  BY SizesAssumption DEF TypeOK, Times
<1>2. now + 1 - s = (now - s) + 1
  BY <1>1
<1>3. Rate * (now - s) \in Nat /\ Rate * (now + 1 - s) = Rate * (now - s) + Rate /\ Cap \in Nat
  BY <1>1, <1>2, RateTimes
<1>4. since[a][s] \in Nat
  BY <1>1 DEF TypeOK
<1> QED
  BY <1>3, <1>4, SecondTimes, SizesAssumption DEF Allowance, Used

\* The level of a bucket is between nothing and Cap.
LEMMA Levels ==
  ASSUME TypeOK, Clocked, NEW a \in Addrs, Known(a)
  PROVE  /\ Level(a) \in 0 .. Cap
         /\ entries[a].tokens + Rate * (now - entries[a].last) \in Nat
<1>1. entries[a].tokens \in 0 .. Cap /\ now - entries[a].last \in Nat
  BY SizesAssumption DEF TypeOK, EntryType, Clocked, Times
<1>2. Rate * (now - entries[a].last) \in Nat /\ Cap \in Nat
  BY <1>1, RateTimes
<1> QED
  BY <1>1, <1>2 DEF Level, Refilled

-----------------------------------------------------------------------------
(* The steps.                                                               *)

LEMMA BucketInit == Init => BucketInv
<1> SUFFICES ASSUME Init PROVE BucketInv
  OBVIOUS
<1>1. \A a \in Addrs : ~Known(a)
  BY DEF Init, Known, NoEntry
<1>2. 0 \in Times /\ Cap \in Nat
  BY SizesAssumption, RateTimes DEF Times
<1>3. TypeOK
  BY <1>2, SizesAssumption DEF Init, TypeOK, EntryType, ReplyType, NoEntry
<1> QED
  BY <1>1, <1>3 DEF Init, BucketInv, Bounded, Tight, Clocked, Fresh

\* Time goes on: every allowance grows by Rate, and so does a level that is not at Cap.
LEMMA TickKeeps ==
  ASSUME BucketInv, Tick
  PROVE  BucketInv'
<1>n. now \in Nat /\ now' = now + 1 /\ now' \in Times /\ UNCHANGED <<entries, count, since>>
  BY SizesAssumption DEF Tick, BucketInv, TypeOK, Times
<1>k. \A a \in Addrs : Known(a)' <=> Known(a)
  BY <1>n DEF Known
<1>1. TypeOK'
  BY <1>n DEF Tick, BucketInv, TypeOK, ReplyType
<1>2. Clocked' /\ Fresh'
  BY <1>n, <1>k, SizesAssumption DEF BucketInv, TypeOK, EntryType, Times, Clocked, Fresh
<1>3. ASSUME NEW a \in Addrs, Known(a)
      PROVE  /\ Level(a)' = IF Level(a) + Rate > Cap THEN Cap ELSE Level(a) + Rate
             /\ Level(a) = Cap => Level(a)' = Cap
  <2>1. entries[a].last \in 0 .. now /\ entries[a].tokens \in Nat
    BY <1>3, <1>n, RateTimes DEF BucketInv, TypeOK, EntryType, Times, Clocked
  <2>2. PICK x \in Nat : x = now - entries[a].last
    BY <2>1, <1>n
  <2>3. now' - entries'[a].last = x + 1 /\ entries'[a] = entries[a]
    BY <2>1, <2>2, <1>n
  <2>4. PICK y \in Nat : y = Rate * x
    BY RateTimes
  <2>5. Rate * (x + 1) = y + Rate /\ Cap \in Nat /\ Rate \in Nat
    BY <2>4, RateTimes, SizesAssumption
  <2>6. Level(a) = IF entries[a].tokens + y > Cap THEN Cap ELSE entries[a].tokens + y
    BY <2>2, <2>4 DEF Level, Refilled
  <2>7. Level(a)' = IF entries[a].tokens + (y + Rate) > Cap THEN Cap
                    ELSE entries[a].tokens + (y + Rate)
    BY <2>3, <2>5 DEF Level, Refilled, Cap
  <2> QED
    BY <2>1, <2>4, <2>5, <2>6, <2>7
<1>4. ASSUME NEW a \in Addrs, NEW s \in 0 .. now
      PROVE  /\ Allowance(s)' = Allowance(s) + Rate /\ Used(a, s)' = Used(a, s)
             /\ Allowance(s) \in Nat /\ Used(a, s) \in Nat
  BY <1>n, Amounts DEF BucketInv, Allowance, Used
<1>5. PICK t \in Times : t = now'
  BY <1>n
<1>t. ASSUME NEW a \in Addrs
      PROVE  Allowance(t)' = Cap /\ Used(a, t)' = 0
  <2>1. since'[a][t] = 0
    BY <1>n, <1>5 DEF BucketInv, Clocked
  <2>2. now' - t = 0
    BY <1>n, <1>5
  <2> QED
    BY <2>1, <2>2, RateTimes, SecondTimes DEF Allowance, Used, Cap
<1>6. Bounded'
  <2> SUFFICES ASSUME NEW a \in Addrs, Known(a), NEW s \in 0 .. now + 1
               PROVE  Level(a)' <= Allowance(s)' - Used(a, s)'
    BY <1>n, <1>k DEF Bounded
  <2>1. Level(a) \in 0 .. Cap /\ Cap \in Nat /\ Rate \in Nat
    BY Levels, RateTimes, SizesAssumption DEF BucketInv
  <2>2. CASE s \in 0 .. now
    BY <2>1, <2>2, <1>3, <1>4 DEF BucketInv, Bounded
  <2>3. CASE s = t
    <3>1. Level(a)' \in Nat /\ Level(a)' <= Cap
      BY <2>1, <1>3
    <3>2. Allowance(s)' = Cap /\ Used(a, s)' = 0
      BY <2>3, <1>t
    <3> QED
      BY <3>1, <3>2, <2>1
  <2> QED
    BY <2>2, <2>3, <1>n, <1>5
<1>7. Tight'
  <2> SUFFICES ASSUME NEW a \in Addrs, Known(a), Level(a)' # Cap
               PROVE  \E s \in 0 .. now + 1 : Level(a)' = Allowance(s)' - Used(a, s)'
    BY <1>n, <1>k DEF Tight, Cap
  <2>1. Level(a) \in 0 .. Cap /\ Cap \in Nat /\ Rate \in Nat
    BY Levels, RateTimes, SizesAssumption DEF BucketInv
  <2>2. Level(a)' = Level(a) + Rate /\ Level(a) # Cap
    BY <1>3
  <2>3. PICK s \in 0 .. now : Level(a) = Allowance(s) - Used(a, s)
    BY <2>2 DEF BucketInv, Tight
  <2>4. s \in 0 .. now + 1
    BY <1>n
  <2> QED
    BY <2>1, <2>2, <2>3, <2>4, <1>4
<1> QED
  BY <1>1, <1>2, <1>6, <1>7 DEF BucketInv

\* The bucket a check works on, found or new: its level is the smallest of what the
\* stretches that end now have left, or Cap.
LEMMA FoundLevel ==
  ASSUME BucketInv, NEW a \in Addrs, Known(a) \/ count < TableSize
  PROVE  LET L == Refilled(Found(a))
         IN  /\ L \in 0 .. Cap
             /\ \A s \in 0 .. now : L <= Allowance(s) - Used(a, s)
             /\ L = Cap \/ \E s \in 0 .. now : L = Allowance(s) - Used(a, s)
<1>1. CASE Known(a)
  <2>1. Refilled(Found(a)) = Level(a)
    BY <1>1 DEF Found, Level
  <2> QED
    BY <2>1, <1>1, Levels DEF BucketInv, Bounded, Tight
<1>2. CASE ~Known(a)
  <2>1. Found(a).tokens = Cap /\ Found(a).last = now
    BY <1>2 DEF Found, Entry
  <2>2. now - now = 0 /\ Cap \in Nat
    BY RateTimes, SizesAssumption DEF BucketInv, TypeOK, Times
  <2>3. Refilled(Found(a)) = Cap
    BY <2>1, <2>2, RateTimes DEF Refilled
  <2>4. \A s \in 0 .. now : Allowance(s) >= Cap /\ Allowance(s) \in Nat /\ Used(a, s) = 0
    <3> SUFFICES ASSUME NEW s \in 0 .. now
                 PROVE  Allowance(s) >= Cap /\ Allowance(s) \in Nat /\ Used(a, s) = 0
      OBVIOUS
    <3>1. s \in Times
      BY SizesAssumption DEF BucketInv, TypeOK, Times
    <3>2. since[a][s] = 0
      BY <1>2, <3>1 DEF BucketInv, Fresh
    <3> QED
      BY <3>2, Amounts, SecondTimes DEF BucketInv, Used
  <2> QED
    BY <2>2, <2>3, <2>4
<1> QED
  BY <1>1, <1>2

\* What letting a request pass does to the history.
LEMMA PassesEffect ==
  ASSUME BucketInv, NEW a \in Addrs, Passes(a), now' = now
  PROVE  /\ since' \in [Addrs -> [Times -> Nat]]
         /\ \A s \in 0 .. now : since'[a][s] = since[a][s] + 1
         /\ \A s \in Times : s > now => since'[a][s] = since[a][s]
         /\ \A b \in Addrs \ {a} : since'[b] = since[b]
<1>1. since \in [Addrs -> [Times -> Nat]] /\ now \in Times /\ 0 .. now \subseteq Times
  BY SizesAssumption DEF BucketInv, TypeOK, Times
<1>2. /\ since'[a] = [s \in Times |-> IF s <= now THEN since[a][s] + 1 ELSE since[a][s]]
      /\ \A b \in Addrs \ {a} : since'[b] = since[b]
      /\ since' = [b \in Addrs |-> since'[b]]
  BY <1>1 DEF Passes
<1>3. since'[a] \in [Times -> Nat]
  BY <1>1, <1>2
<1>4. since' \in [Addrs -> [Times -> Nat]]
  <2>1. \A b \in Addrs : since'[b] \in [Times -> Nat]
    BY <1>1, <1>2, <1>3
  <2> QED
    BY <2>1, <1>2
<1>5. \A s \in 0 .. now : s \in Times /\ s <= now
  BY <1>1
<1>6. \A s \in Times : s > now => ~(s <= now)
  BY <1>1 DEF Times
<1> QED
  BY <1>2, <1>4, <1>5, <1>6

\* The bucket of a is found or made, refilled and asked for a token.
LEMMA SpendKeeps ==
  ASSUME BucketInv, NEW a \in Addrs, Known(a) \/ count < TableSize, Spend(a),
         count' = IF Known(a) THEN count ELSE count + 1, now' = now
  PROVE  BucketInv' /\ RefusedOverLimit'
<1> DEFINE found == Refilled(Found(a))
<1>0. PICK L \in 0 .. Cap : L = found
  BY FoundLevel
<1>1. /\ \A s \in 0 .. now : L <= Allowance(s) - Used(a, s)
      /\ L = Cap \/ \E s \in 0 .. now : L = Allowance(s) - Used(a, s)
  BY <1>0, FoundLevel
<1>t. /\ Cap \in Nat /\ Second \in Nat /\ Second > 0
      /\ now \in Nat /\ now \in Times /\ now - now = 0 /\ now \in 0 .. now
      /\ entries \in [Addrs -> EntryType] /\ count \in 0 .. TableSize /\ TableSize \in Nat
      /\ since \in [Addrs -> [Times -> Nat]]
  BY RateTimes, SizesAssumption DEF BucketInv, TypeOK, Times
<1>2. PICK T \in 0 .. Cap :
        /\ entries' = [entries EXCEPT ![a] = Entry(T, now)]
        /\ \/ L >= Second /\ T = L - Second /\ Passes(a)
           \/ L < Second /\ T = L /\ Answer(a, "429") /\ since' = since
  BY <1>0, <1>t DEF Spend
<1>3. /\ Entry(T, now) \in EntryType /\ Known(a)'
      /\ entries'[a].tokens = T /\ entries'[a].last = now
      /\ \A b \in Addrs \ {a} : entries'[b] = entries[b] /\ (Known(b)' <=> Known(b))
  BY <1>2, <1>t DEF Entry, EntryType, Known
<1>4. Level(a)' = T
  BY <1>3, <1>t, RateTimes DEF Level, Refilled, Cap
<1>5. \A b \in Addrs \ {a} : Level(b)' = Level(b)
  BY <1>3 DEF Level, Refilled, Cap
<1>6. since' \in [Addrs -> [Times -> Nat]] /\ \A b \in Addrs \ {a} : since'[b] = since[b]
  BY <1>2, <1>t, PassesEffect
<1>7. \A s \in Times : s > now => since'[a][s] = 0
  BY <1>2, PassesEffect DEF BucketInv, Clocked
<1>8. \A s \in 0 .. now : Allowance(s)' = Allowance(s)
  BY DEF Allowance, Cap
<1>9. \A s \in 0 .. now : T <= Allowance(s) - Used(a, s)'
  <2> SUFFICES ASSUME NEW s \in 0 .. now PROVE T <= Allowance(s) - Used(a, s)'
    OBVIOUS
  <2>1. /\ Allowance(s) \in Nat /\ Used(a, s) \in Nat
        /\ Second * (since[a][s] + 1) = Used(a, s) + Second
    BY Amounts DEF BucketInv
  <2>2. CASE L >= Second /\ T = L - Second /\ Passes(a)
    <3>1. Used(a, s)' = Used(a, s) + Second
      BY <2>1, <2>2, PassesEffect DEF Used
    <3> QED
      BY <2>1, <2>2, <3>1, <1>1, <1>t
  <2>3. CASE L < Second /\ T = L /\ since' = since
    BY <2>1, <2>3, <1>1, <1>t DEF Used
  <2> QED
    BY <2>2, <2>3, <1>2
<1>10. T = Cap \/ \E s \in 0 .. now : T = Allowance(s) - Used(a, s)'
  <2>1. CASE L >= Second /\ T = L - Second /\ Passes(a)
    <3>1. \A s \in 0 .. now : /\ Used(a, s)' = Used(a, s) + Second
                              /\ Allowance(s) \in Nat /\ Used(a, s) \in Nat
      <4> SUFFICES ASSUME NEW s \in 0 .. now
                   PROVE  /\ Used(a, s)' = Used(a, s) + Second
                          /\ Allowance(s) \in Nat /\ Used(a, s) \in Nat
        OBVIOUS
      <4>1. /\ Second * (since[a][s] + 1) = Used(a, s) + Second
            /\ Allowance(s) \in Nat /\ Used(a, s) \in Nat
        BY Amounts DEF BucketInv
      <4> QED
        BY <4>1, <2>1, PassesEffect DEF Used
    <3>2. \E s \in 0 .. now : L = Allowance(s) - Used(a, s)
      <4>1. CASE L = Cap
        <5>1. Allowance(now) = Cap
          BY <1>t, RateTimes DEF Allowance
        <5>2. L <= Allowance(now) - Used(a, now) /\ Used(a, now) \in Nat
          BY <1>1, <1>t, <3>1
        <5> QED
          BY <4>1, <5>1, <5>2, <1>t
      <4> QED
        BY <4>1, <1>1
    <3> QED
      BY <2>1, <3>1, <3>2, <1>t
  <2>2. CASE T = L /\ since' = since
    BY <2>2, <1>1 DEF Used
  <2> QED
    BY <2>1, <2>2, <1>2
<1>11. TypeOK'
  <2>1. reply' \in ReplyType
    BY <1>2 DEF Passes, Answer, ReplyType
  <2>2. count' \in 0 .. TableSize
    BY <1>t
  <2>3. entries' \in [Addrs -> EntryType]
    BY <1>2, <1>3, <1>t
  <2> QED
    BY <2>1, <2>2, <2>3, <1>6, <1>t DEF TypeOK
<1>12. Bounded'
  <2>1. \A b \in Addrs \ {a} : \A s \in 0 .. now : Used(b, s)' = Used(b, s)
    BY <1>6 DEF Used
  <2> QED
    BY <2>1, <1>3, <1>4, <1>5, <1>8, <1>9 DEF BucketInv, Bounded
<1>13. Tight'
  <2>1. \A b \in Addrs \ {a} : \A s \in 0 .. now : Used(b, s)' = Used(b, s)
    BY <1>6 DEF Used
  <2>2. Cap' = Cap
    BY DEF Cap
  <2> QED
    BY <2>1, <2>2, <1>3, <1>4, <1>5, <1>8, <1>10 DEF BucketInv, Tight
<1>14. Clocked' /\ Fresh'
  BY <1>3, <1>6, <1>7, <1>t DEF BucketInv, Clocked, Fresh
<1>15. RefusedOverLimit'
  <2> SUFFICES ASSUME reply'.code = "429"
               PROVE  \E s \in 0 .. now : Second * (since'[a][s] + 1) > Allowance(s)
    BY <1>2 DEF RefusedOverLimit, Exceeds, Allowance, Passes, Answer, Cap
  <2>1. L < Second /\ since' = since
    BY <1>2 DEF Passes, Answer
  <2>2. PICK s \in 0 .. now : L >= Allowance(s) - Used(a, s)
    <3>1. Allowance(now) = Cap /\ Used(a, now) \in Nat
      BY <1>t, RateTimes, Amounts DEF Allowance, BucketInv
    <3> QED
      BY <3>1, <1>1, <1>t
  <2>3. /\ Second * (since[a][s] + 1) = Used(a, s) + Second
        /\ Allowance(s) \in Nat /\ Used(a, s) \in Nat
    BY Amounts DEF BucketInv
  <2> QED
    BY <2>1, <2>2, <2>3, <1>t
<1> QED
  BY <1>11, <1>12, <1>13, <1>14, <1>15 DEF BucketInv

\* A request changes nothing of the buckets but its own.
LEMMA CheckKeeps ==
  ASSUME BucketInv, RefusedOverLimit, NEW a \in Addrs, Check(a)
  PROVE  BucketInv' /\ RefusedOverLimit'
<1>1. CASE Blocked(a) /\ Block(a)
  <2>1. UNCHANGED <<entries, count, since, now>> /\ reply' \in ReplyType /\ reply'.code = "403"
    BY <1>1 DEF Check, Block, Answer, ReplyType
  <2> QED
    BY <2>1 DEF BucketInv, TypeOK, Bounded, Tight, Clocked, Fresh, Level, Refilled, Known,
                Allowance, Used, Cap, RefusedOverLimit
<1>2. CASE ~Known(a) /\ count >= TableSize /\ FailOpen(a)
  <2>1. /\ UNCHANGED <<entries, count, now>> /\ Passes(a)
        /\ reply' \in ReplyType /\ reply'.code = "pass"
    BY <1>2 DEF Check, FailOpen, Passes, Answer, ReplyType
  <2>2. /\ since' \in [Addrs -> [Times -> Nat]]
        /\ \A s \in Times : s > now => since'[a][s] = since[a][s]
        /\ \A b \in Addrs \ {a} : since'[b] = since[b]
    BY <2>1, PassesEffect
  <2>3. \A b \in Addrs : /\ Known(b)' <=> Known(b)
                         /\ Known(b) => b # a /\ Level(b)' = Level(b)
    BY <1>2, <2>1 DEF Known, Level, Refilled, Cap
  <2>4. \A s \in 0 .. now : Allowance(s)' = Allowance(s)
    BY <2>1 DEF Allowance, Cap
  <2>5. \A b \in Addrs \ {a} : \A s \in 0 .. now : Used(b, s)' = Used(b, s)
    BY <2>2 DEF Used
  <2>6. TypeOK' /\ Clocked'
    BY <2>1, <2>2, <2>3 DEF BucketInv, TypeOK, Clocked
  <2>7. Bounded' /\ Tight'
    BY <2>1, <2>3, <2>4, <2>5 DEF BucketInv, Bounded, Tight, Cap
  <2>8. Fresh'
    BY <1>2, <2>1, <2>2, <2>3, SizesAssumption DEF BucketInv, TypeOK, Fresh
  <2> QED
    BY <2>1, <2>6, <2>7, <2>8 DEF BucketInv, RefusedOverLimit
<1>3. CASE /\ Known(a) \/ count < TableSize
           /\ Spend(a)
           /\ count' = IF Known(a) THEN count ELSE count + 1
  BY <1>3, SpendKeeps DEF Check
<1> QED
  BY <1>1, <1>2, <1>3 DEF Check, RateCheck

LEMMA BucketInvariant == Spec => [](BucketInv /\ RefusedOverLimit)
<1>1. Init => BucketInv /\ RefusedOverLimit
  BY BucketInit DEF Init, RefusedOverLimit
<1>2. BucketInv /\ RefusedOverLimit /\ [Next]_vars => BucketInv' /\ RefusedOverLimit'
  <2> SUFFICES ASSUME BucketInv, RefusedOverLimit, [Next]_vars
               PROVE  BucketInv' /\ RefusedOverLimit'
    OBVIOUS
  <2>1. CASE Tick
    BY <2>1, TickKeeps DEF Tick, RefusedOverLimit
  <2>2. CASE UNCHANGED vars
    BY <2>2 DEF vars, BucketInv, TypeOK, Bounded, Tight, Clocked, Fresh, Level, Refilled, Known,
                Allowance, Used, Cap, RefusedOverLimit, Exceeds
  <2> QED
    BY <2>1, <2>2, CheckKeeps DEF Next
<1> QED
  BY <1>1, <1>2, PTL DEF Spec

\* Tokens stay between nothing and a second's worth, the table within its size.
THEOREM TypeCorrect == Spec => []TypeOK
<1>1. BucketInv => TypeOK
  BY DEF BucketInv
<1> QED
  BY <1>1, BucketInvariant, PTL

\* An address that has a bucket is never let pass more, over any stretch of time, than
\* a second's worth and what the time brings.
THEOREM LimitKept == Spec => []WithinLimit
<1>1. BucketInv => WithinLimit
  <2> SUFFICES ASSUME BucketInv, NEW a \in Addrs, NEW s \in 0 .. now, Exceeds(s, since[a][s])
               PROVE  ~Known(a) /\ count = TableSize
    BY DEF WithinLimit
  <2>1. /\ Allowance(s) \in Nat /\ Used(a, s) \in Nat /\ Used(a, s) > Allowance(s)
    BY Amounts DEF BucketInv, Exceeds, Allowance, Used
  <2>2. ~Known(a)
    <3>1. Known(a) => Level(a) \in 0 .. Cap /\ Level(a) <= Allowance(s) - Used(a, s) /\ Cap \in Nat
      BY Levels, RateTimes DEF BucketInv, Bounded
    <3> QED
      BY <2>1, <3>1
  <2>3. s \in Times
    BY SizesAssumption DEF BucketInv, TypeOK, Times
  <2>4. ~(count < TableSize)
    <3>1. since[a][s] = 0 => Used(a, s) = 0
      BY SecondTimes DEF Used
    <3> QED
      BY <2>1, <2>2, <2>3, <3>1 DEF BucketInv, Fresh
  <2> QED
    BY <2>2, <2>4, SizesAssumption DEF BucketInv, TypeOK
<1> QED
  BY <1>1, BucketInvariant, PTL

\* And no request is refused that would have kept to it.
THEOREM NoNeedlessRefusal == Spec => []RefusedOverLimit
BY BucketInvariant, PTL

\* An address the list has room for is not let pass and takes no place in the table of
\* buckets, and only addresses of the list are answered 403.
THEOREM BlockedStayOut == Spec => []BlockedAside
<1>1. Init => BlockedAside
  <2> SUFFICES ASSUME Init
               PROVE  BlockedAside
    OBVIOUS
  <2>1. ASSUME NEW i \in 1 .. Len(Blacklist)
        PROVE  ~Known(Blacklist[i]) /\ since[Blacklist[i]][0] = 0
    <3>1. Blacklist[i] \in Addrs /\ 0 \in Times
      BY AddrsAssumption, SizesAssumption DEF Times
    <3> QED
      BY <3>1 DEF Init, Known, NoEntry
  <2> QED
    BY <2>1 DEF BlockedAside, Init
<1>2. BucketInv /\ BlockedAside /\ [Next]_vars => BlockedAside'
  <2> SUFFICES ASSUME BucketInv, BlockedAside, [Next]_vars
               PROVE  BlockedAside'
    OBVIOUS
  <2>1. CASE UNCHANGED vars
    BY <2>1 DEF vars, BlockedAside, Known
  <2>2. CASE Tick
    BY <2>2 DEF Tick, BlockedAside, Known
  <2>3. ASSUME NEW a \in Addrs, Check(a), Blocked(a)
        PROVE  BlockedAside'
    BY <2>3 DEF Check, Block, Answer, Blocked, BlockedAside, Known
  <2>4. ASSUME NEW a \in Addrs, Check(a), ~Blocked(a)
        PROVE  BlockedAside'
    <3>1. RateCheck(a)
      BY <2>4 DEF Check
    <3>2. reply'.code # "403"
      BY <3>1 DEF RateCheck, FailOpen, Spend, Passes, Answer
    <3>3. ASSUME NEW i \in 1 .. Len(Blacklist), i <= ListSize
          PROVE  entries'[Blacklist[i]] = entries[Blacklist[i]] /\ since'[Blacklist[i]] = since[Blacklist[i]]
      <4>1. Blacklist[i] # a
        BY <2>4, <3>3 DEF Blocked
      <4>2. \A b \in Addrs : b # a => entries'[b] = entries[b] /\ since'[b] = since[b]
        <5>1. CASE FailOpen(a)
          BY <5>1 DEF FailOpen, Passes, BucketInv, TypeOK
        <5>2. CASE Spend(a)
          BY <5>2 DEF Spend, Passes, BucketInv, TypeOK
        <5> QED
          BY <3>1, <5>1, <5>2 DEF RateCheck
      <4> QED
        BY <4>1, <4>2, AddrsAssumption
    <3>4. ListSize \in Nat
      BY SizesAssumption
    <3> QED
      BY <3>2, <3>3, <3>4 DEF BlockedAside, Known
  <2> QED
    BY <2>1, <2>2, <2>3, <2>4 DEF Next
<1> QED
  BY <1>1, <1>2, BucketInvariant, PTL DEF Spec
=============================================================================
