-------------------------- MODULE Rewrite_proofs --------------------------
(***************************************************************************)
(* Proofs about Rewrite, for every request the parser lets through, every  *)
(* add_header, every hash function and every size of the tables.           *)
(***************************************************************************)
EXTENDS Rewrite, SequenceTheorems, FiniteSetTheorems, WellFoundedInduction, TLAPS

-----------------------------------------------------------------------------
(* The inductive invariant.                                                 *)

\* The header of that name, if there is one, is the only one and not the client's.
Settled(n) ==
  /\ \A j \in DOMAIN table : table[j].name = n => table[j].by # "client"
  /\ \A j, m \in DOMAIN table : table[j].name = n /\ table[m].name = n => j = m

\* The operations that are done have settled their headers.
DoneSettled == \A j \in 1 .. k - 1 : Settled(Op(j).name)

\* What the removal loop has passed does not have the name.
Passed == pc = "remove" => \A j \in 1 .. at - 1 : table[j].name # Op(k).name

\* Lines of other names, up to a NUL, are in the table.
Kept == \A p \in DOMAIN request :
          pc = "config" \/ CStr[request[p]] \notin SetNames =>
            \E j \in DOMAIN table : table[j] = Entry(request[p], "client", p)

\* The client's entries come first, in its order.
Ordered == \A j, m \in DOMAIN table :
             j < m /\ table[m].by = "client" => table[j].by = "client" /\ table[j].val < table[m].val

Inv == TypeOK /\ DoneSettled /\ Passed /\ Kept /\ Ordered

-----------------------------------------------------------------------------
(* The operations.                                                          *)

OpType == [kind : {"remove", "set", "host"}, name : CNames, by : {"gateway", "operator"}]

\* Every operation is one on a name; the one on the host comes after the third, which
\* removes X-Forwarded-Host.
LEMMA OpFacts ==
  ASSUME custom \in Seq(CNames)
  PROVE  /\ OpCount \in Nat /\ OpCount >= 10
         /\ \A j \in 1 .. OpCount : Op(j) \in OpType /\ (Op(j).kind = "host" => j = 7 /\ Op(j).name = FwdHost)
         /\ Op(3).name = FwdHost
<1>1. Len(custom) \in Nat
  BY LenProperties
<1>2. \A j \in 1 .. 10 : Fixed[j] \in OpType /\ (Fixed[j].kind = "host" => j = 7 /\ Fixed[j].name = FwdHost)
  <2>1. {RealIp, FwdFor, FwdHost, FwdProto, Via, ReqId} \subseteq CNames
    BY NamesAssumption DEF Standard, Cleaned
  <2>2. ASSUME NEW j \in 1 .. 10
        PROVE  Fixed[j] \in OpType /\ (Fixed[j].kind = "host" => j = 7 /\ Fixed[j].name = FwdHost)
    <3>1. j \in {1, 2, 3, 4, 5, 6, 7, 8, 9, 10}
      BY <2>2
    <3>. QED
      BY <2>1, <3>1 DEF Fixed, Remove, Set, SetHost, OpType
  <2>. QED
    BY <2>2
<1>3. ASSUME NEW j \in 1 .. OpCount
      PROVE  Op(j) \in OpType /\ (Op(j).kind = "host" => j = 7 /\ Op(j).name = FwdHost)
  <2>1. CASE j <= 10
    BY <1>2, <2>1 DEF Op
  <2>2. CASE j > 10
    <3>1. j - 10 \in 1 .. Len(custom)
      BY <1>1, <2>2 DEF OpCount
    <3>2. custom[j - 10] \in CNames
      BY <3>1, ElementOfSeq
    <3>. QED
      BY <2>2, <3>2 DEF Op, Set, OpType
  <2>. QED
    BY <2>1, <2>2
<1>4. Op(3).name = FwdHost
  BY DEF Op, Fixed, Remove
<1>. QED
  BY <1>1, <1>3, <1>4 DEF OpCount

\* Once the configuration is loaded the operations stay as they are.
LEMMA OpSame ==
  ASSUME UNCHANGED custom
  PROVE  /\ OpCount' = OpCount /\ SetNames' = SetNames
         /\ \A j : Op(j)' = Op(j)
<1>1. \A j : Op(j)' = Op(j)
  BY DEF Op
<1>2. OpCount' = OpCount
  BY DEF OpCount
<1>. QED
  BY <1>1, <1>2 DEF SetNames

-----------------------------------------------------------------------------
(* The table with an entry taken out or put in.                             *)

Up(i, m) == IF m < i THEN m ELSE m + 1

LEMMA SameInterval == ASSUME NEW a \in Nat, NEW b \in Nat, 1 .. a = 1 .. b PROVE a = b
<1>1. a \in 1 .. a \/ a = 0
  OBVIOUS
<1>2. b \in 1 .. b \/ b = 0
  OBVIOUS
<1>. QED
  BY <1>1, <1>2

\* Taking out the entry i moves every other one, in order, to its place.
LEMMA WithoutFacts ==
  ASSUME table \in Seq(EntryType), NEW i \in 1 .. Len(table), table' = Without(i)
  PROVE  /\ table' \in Seq(EntryType) /\ Len(table') = Len(table) - 1
         /\ DOMAIN table' = 1 .. Len(table) - 1 /\ DOMAIN table = 1 .. Len(table)
         /\ \A m \in DOMAIN table' : Up(i, m) \in DOMAIN table \ {i} /\ table'[m] = table[Up(i, m)]
         /\ \A j \in DOMAIN table \ {i} : \E m \in DOMAIN table' : Up(i, m) = j
<1>1. Len(table) \in Nat /\ DOMAIN table = 1 .. Len(table) /\ Len(table) - 1 \in Nat
  BY LenProperties
<1>2. \A m \in 1 .. Len(table) - 1 : Up(i, m) \in DOMAIN table \ {i} /\ Without(i)[m] = table[Up(i, m)]
  BY <1>1 DEF Up, Without
<1>3. \A m \in 1 .. Len(table) - 1 : table[Up(i, m)] \in EntryType
  BY <1>1, <1>2, ElementOfSeq
<1>4. Without(i) \in [1 .. Len(table) - 1 -> EntryType]
  BY <1>2, <1>3 DEF Without
<1>5. table' \in Seq(EntryType) /\ DOMAIN table' = 1 .. Len(table) - 1
  BY <1>1, <1>4, SeqDef
<1>6. Len(table') = Len(table) - 1
  <2>1. Len(table') \in Nat /\ DOMAIN table' = 1 .. Len(table')
    BY <1>5, LenProperties
  <2>. QED
    BY <1>1, <1>5, <2>1, SameInterval
<1>7. ASSUME NEW j \in DOMAIN table \ {i} PROVE \E m \in DOMAIN table' : Up(i, m) = j
  <2>1. j \in 1 .. Len(table) /\ j # i
    BY <1>1
  <2>2. CASE j < i
    BY <1>1, <1>5, <2>1, <2>2 DEF Up
  <2>3. CASE j > i
    <3>1. j - 1 \in 1 .. Len(table) - 1 /\ Up(i, j - 1) = j
      BY <1>1, <2>1, <2>3 DEF Up
    <3>. QED
      BY <1>5, <3>1
  <2>. QED
    BY <2>1, <2>2, <2>3
<1>. QED
  BY <1>1, <1>2, <1>5, <1>6, <1>7

LEMMA AppendFacts ==
  ASSUME table \in Seq(EntryType), NEW e \in EntryType, table' = Append(table, e)
  PROVE  /\ table' \in Seq(EntryType) /\ Len(table') = Len(table) + 1
         /\ DOMAIN table = 1 .. Len(table) /\ DOMAIN table' = 1 .. Len(table) + 1
         /\ \A m \in DOMAIN table : table'[m] = table[m]
         /\ table'[Len(table) + 1] = e
BY AppendProperties, LenProperties

-----------------------------------------------------------------------------
LEMMA InitInv == Init => Inv
<1>. SUFFICES ASSUME Init PROVE Inv
  OBVIOUS
<1>1. request \in Seq(Names) /\ Len(request) \in Nat /\ Len(request) <= HeaderMax
      /\ DOMAIN request = 1 .. Len(request) /\ HeaderMax \in Nat
  BY InputsAssumption, SizesAssumption, LenProperties DEF Init
<1>2. table = [p \in 1 .. Len(request) |-> Entry(request[p], "client", p)]
  BY DEF Init
<1>3. ASSUME NEW p \in 1 .. Len(request) PROVE Entry(request[p], "client", p) \in EntryType
  BY <1>1, ElementOfSeq DEF Entry, EntryType
<1>4. table \in [1 .. Len(request) -> EntryType]
  BY <1>2, <1>3
<1>5. table \in Seq(EntryType) /\ Len(table) = Len(request) /\ DOMAIN table = 1 .. Len(request)
  <2>1. table \in Seq(EntryType) /\ DOMAIN table = 1 .. Len(request)
    BY <1>1, <1>4, SeqDef
  <2>. QED
    BY <2>1, <1>1, LenProperties
<1>6. custom \in Seq(CNames) /\ tokens \in Seq(Token)
  BY InputsAssumption, EmptySeq DEF Init
<1>7. OpCount \in Nat /\ OpCount >= 10
  BY <1>6, OpFacts
<1>8. TypeOK
  BY <1>1, <1>5, <1>6, <1>7 DEF Init, TypeOK
<1>9. DoneSettled /\ Passed
  BY DEF Init, DoneSettled, Passed
<1>10. Kept /\ Ordered
  BY <1>1, <1>2, <1>5 DEF Kept, Ordered, Entry
<1>. QED
  BY <1>8, <1>9, <1>10 DEF Inv

\* Steps that leave the table and the operations alone.
LEMMA TableSame ==
  ASSUME Inv, UNCHANGED <<custom, request, table>>, pc # "config", pc' # "config"
  PROVE  /\ Kept' /\ Ordered'
         /\ \A n : Settled(n) => Settled(n)'
<1>1. SetNames' = SetNames
  BY OpSame
<1>2. Kept'
  BY <1>1 DEF Inv, Kept
<1>3. Ordered'
  BY DEF Inv, Ordered
<1>4. \A n : Settled(n) => Settled(n)'
  BY DEF Settled
<1>. QED
  BY <1>2, <1>3, <1>4

\* While the configuration is read the table is the client's.
LEMMA ConfigKeepsInv == Inv /\ (TakeToken \/ ConfigLoaded) => Inv'
<1>. SUFFICES ASSUME Inv, TakeToken \/ ConfigLoaded PROVE Inv'
  OBVIOUS
<1>1. /\ UNCHANGED <<request, table, k, at, host, sent>> /\ pc = "config" /\ pc' \in {"config", "op"}
      /\ k = 1 /\ TypeOK
  BY DEF TakeToken, ConfigLoaded, Inv, TypeOK
<1>2. custom' \in Seq(CNames) /\ tokens' \in Seq(Token)
  <2>1. CASE TakeToken
    <3>1. custom \in Seq(CNames) /\ tokens \in Seq(Token) /\ tokens # <<>>
      BY <1>1, <2>1 DEF TakeToken, TypeOK
    <3>2. Head(tokens) \in Token /\ Tail(tokens) \in Seq(Token)
      BY <3>1, HeadTailProperties
    <3>3. Append(custom, Head(tokens).name) \in Seq(CNames)
      BY <3>1, <3>2, AppendProperties DEF Token
    <3>. QED
      BY <2>1, <3>1, <3>2, <3>3 DEF TakeToken
  <2>2. CASE ConfigLoaded
    BY <1>1, <2>2 DEF ConfigLoaded, TypeOK
  <2>. QED
    BY <2>1, <2>2
<1>3. OpCount' \in Nat /\ OpCount' >= 10
  BY <1>2, LenProperties DEF OpCount
<1>4. TypeOK'
  <2>1. k' \in 1 .. OpCount' + 1
    <3>1. k' = 1
      BY <1>1
    <3>2. Len(custom') \in Nat
      BY <1>2, LenProperties
    <3>. QED
      BY <3>1, <3>2 DEF OpCount
  <2>2. request' \in Seq(Names) /\ Len(request') <= HeaderMax /\ host' \in 0 .. HeaderMax
    BY <1>1 DEF TypeOK
  <2>3. table' \in Seq(EntryType) /\ Len(table') <= HeaderMax /\ at' \in 0 .. Len(table') + 1
    BY <1>1 DEF TypeOK
  <2>. QED
    BY <1>1, <1>2, <2>1, <2>2, <2>3 DEF TypeOK
<1>5. DoneSettled' /\ Passed'
  BY <1>1 DEF DoneSettled, Passed
<1>6. Kept' /\ Ordered'
  BY <1>1 DEF Inv, Kept, Ordered
<1>. QED
  BY <1>4, <1>5, <1>6 DEF Inv

\* A skipped operation is the one on the host, whose header has been removed before.
LEMMA SkipKeepsInv == Inv /\ SkipOp => Inv'
<1>. SUFFICES ASSUME Inv, SkipOp PROVE Inv'
  OBVIOUS
<1>1. /\ UNCHANGED <<tokens, custom, request, table, pc, at, host, sent>> /\ k' = k + 1
      /\ pc = "op" /\ k <= OpCount /\ Op(k).kind = "host" /\ TypeOK /\ k \in Nat \ {0}
  BY DEF SkipOp, Inv, TypeOK
<1>2. /\ OpCount \in Nat /\ k = 7 /\ Op(k).name = FwdHost /\ Op(3).name = FwdHost
  BY <1>1, OpFacts DEF TypeOK
<1>3. OpCount' = OpCount /\ \A j : Op(j)' = Op(j)
  BY <1>1, OpSame
<1>4. TypeOK'
  BY <1>1, <1>2, <1>3 DEF TypeOK
<1>5. Kept' /\ Ordered' /\ \A n : Settled(n) => Settled(n)'
  BY <1>1, TableSame
<1>6. \A j \in 1 .. k - 1 : Settled(Op(j).name)
  BY DEF Inv, DoneSettled
<1>7. \A j \in 1 .. k' - 1 : Settled(Op(j).name)
  <2>1. Settled(Op(k).name)
    BY <1>2, <1>6
  <2>. QED
    BY <1>1, <1>6, <2>1
<1>8. DoneSettled'
  BY <1>3, <1>5, <1>7 DEF DoneSettled
<1>9. Passed'
  BY <1>1 DEF Passed
<1>. QED
  BY <1>4, <1>5, <1>8, <1>9 DEF Inv

\* The beginning of an operation and a step over an entry.
LEMMA LoopKeepsInv == Inv /\ (BeginOp \/ StepOver) => Inv'
<1>. SUFFICES ASSUME Inv, BeginOp \/ StepOver PROVE Inv'
  OBVIOUS
<1>1. /\ UNCHANGED <<tokens, custom, request, table, k, sent>> /\ pc' = "remove" /\ pc # "config"
      /\ TypeOK
  BY DEF BeginOp, StepOver, Inv
<1>2. OpCount' = OpCount /\ (\A j : Op(j)' = Op(j)) /\ Len(table) \in Nat /\ k <= OpCount
  BY <1>1, OpSame, LenProperties DEF TypeOK, BeginOp, StepOver
<1>3. Kept' /\ Ordered' /\ \A n : Settled(n) => Settled(n)'
  BY <1>1, TableSame
<1>4. DoneSettled'
  BY <1>1, <1>2, <1>3 DEF Inv, DoneSettled
<1>5. host' \in 0 .. HeaderMax
  <2>1. ASSUME NEW j \in Got(Host) PROVE table[j].val \in 0 .. HeaderMax
    <3>1. j \in DOMAIN table
      BY DEF Got
    <3>2. table[j] \in EntryType
      BY <1>1, <3>1, ElementOfSeq, LenProperties DEF TypeOK
    <3>. QED
      BY <3>2 DEF EntryType
  <2>2. 0 \in 0 .. HeaderMax
    BY SizesAssumption
  <2>. QED
    BY <1>1, <2>1, <2>2 DEF BeginOp, StepOver, TypeOK
<1>6. at' \in 1 .. Len(table) + 1 /\ \A j \in 1 .. at' - 1 : table[j].name # Op(k).name
  <2>1. CASE BeginOp
    BY <1>2, <2>1 DEF BeginOp
  <2>2. CASE StepOver
    <3>1. at \in 1 .. Len(table) /\ at' = at + 1 /\ \A j \in 1 .. at - 1 : table[j].name # Op(k).name
      BY <1>1, <1>2, <2>2 DEF StepOver, TypeOK, Inv, Passed
    <3>2. Op(k).name \in CNames
      BY <1>1, <1>2, OpFacts DEF TypeOK, OpType
    <3>3. table[at].name # Op(k).name
      BY <2>2, <3>2 DEF StepOver, Matches, CNames
    <3>. QED
      BY <3>1, <3>3
  <2>. QED
    BY <2>1, <2>2
<1>7. TypeOK'
  BY <1>1, <1>2, <1>5, <1>6 DEF TypeOK
<1>8. Passed'
  BY <1>1, <1>2, <1>6 DEF Passed
<1>. QED
  BY <1>3, <1>4, <1>7, <1>8 DEF Inv

\* An entry with the operation's name is taken out.
LEMMA RemoveKeepsInv == Inv /\ RemoveOne => Inv'
<1>. SUFFICES ASSUME Inv, RemoveOne PROVE Inv'
  OBVIOUS
<1>1. /\ UNCHANGED <<tokens, custom, request, k, pc, at, host, sent>> /\ table' = Without(at)
      /\ pc = "remove" /\ CStr[table[at].name] = Op(k).name /\ at <= Len(table) /\ TypeOK
  BY DEF RemoveOne, Matches, Inv
<1>2. at \in 1 .. Len(table) /\ table \in Seq(EntryType) /\ Len(table) \in Nat /\ k \in 1 .. OpCount
  BY <1>1, LenProperties, OpFacts DEF TypeOK
<1>3. /\ table' \in Seq(EntryType) /\ Len(table') = Len(table) - 1
      /\ DOMAIN table' = 1 .. Len(table) - 1 /\ DOMAIN table = 1 .. Len(table)
      /\ \A m \in DOMAIN table' : Up(at, m) \in DOMAIN table \ {at} /\ table'[m] = table[Up(at, m)]
      /\ \A j \in DOMAIN table \ {at} : \E m \in DOMAIN table' : Up(at, m) = j
  BY <1>1, <1>2, WithoutFacts
<1>4. OpCount' = OpCount /\ SetNames' = SetNames /\ \A j : Op(j)' = Op(j)
  BY <1>1, OpSame
<1>5. TypeOK'
  <2>1. Len(table') <= HeaderMax /\ at' \in 1 .. Len(table') + 1
    BY <1>1, <1>2, <1>3, SizesAssumption DEF TypeOK
  <2>. QED
    BY <1>1, <1>2, <1>3, <1>4, <2>1 DEF TypeOK
<1>6. \A m, q \in DOMAIN table' : /\ (Up(at, m) = Up(at, q) => m = q)
                                  /\ (m < q => Up(at, m) < Up(at, q))
  BY <1>2, <1>3 DEF Up
<1>7. \A n : Settled(n) => Settled(n)'
  BY <1>3, <1>6 DEF Settled
<1>8. DoneSettled'
  BY <1>1, <1>4, <1>7 DEF Inv, DoneSettled
<1>9. Passed'
  <2>1. ASSUME NEW j \in 1 .. at - 1 PROVE table'[j].name # Op(k).name
    <3>1. j \in DOMAIN table' /\ Up(at, j) = j
      BY <1>2, <1>3 DEF Up
    <3>. QED
      BY <1>1, <1>3, <3>1 DEF Inv, Passed
  <2>. QED
    BY <1>1, <1>4, <2>1 DEF Passed
<1>10. Kept'
  <2>1. Op(k).name \in SetNames
    BY <1>2 DEF SetNames
  <2>2. ASSUME NEW p \in DOMAIN request, CStr[request[p]] \notin SetNames
        PROVE  \E m \in DOMAIN table' : table'[m] = Entry(request[p], "client", p)
    <3>1. PICK j \in DOMAIN table : table[j] = Entry(request[p], "client", p)
      BY <2>2 DEF Inv, Kept
    <3>2. j # at
      BY <1>1, <2>1, <2>2, <3>1 DEF Entry
    <3>. QED
      BY <1>3, <3>1, <3>2
  <2>. QED
    BY <1>1, <1>4, <2>2 DEF Kept
<1>11. Ordered'
  BY <1>3, <1>6 DEF Inv, Ordered
<1>. QED
  BY <1>5, <1>8, <1>9, <1>10, <1>11 DEF Inv

\* The loop has seen every entry: none has the name, and the header is added, or not.
LEMMA EndKeepsInv == Inv /\ EndOp => Inv'
<1>. SUFFICES ASSUME Inv, EndOp PROVE Inv'
  OBVIOUS
<1>. DEFINE e == Entry(Op(k).name, Op(k).by, host)
<1>1. /\ UNCHANGED <<tokens, custom, request, host, sent>>
      /\ pc = "remove" /\ pc' = "op" /\ k' = k + 1 /\ at' = 0 /\ at > Len(table) /\ TypeOK
      /\ UNCHANGED table \/ (Len(table) < HeaderMax /\ table' = Append(table, e))
  BY DEF EndOp, Add, Inv
<1>2. /\ table \in Seq(EntryType) /\ Len(table) \in Nat /\ DOMAIN table = 1 .. Len(table)
      /\ at = Len(table) + 1 /\ OpCount \in Nat /\ k \in 1 .. OpCount /\ HeaderMax \in Nat
      /\ Op(k) \in OpType
  <2>1. custom \in Seq(CNames) /\ table \in Seq(EntryType)
    BY <1>1 DEF TypeOK
  <2>2. Len(table) \in Nat /\ DOMAIN table = 1 .. Len(table) /\ OpCount \in Nat
    BY <2>1, LenProperties, OpFacts
  <2>3. at = Len(table) + 1 /\ k \in 1 .. OpCount
    BY <1>1, <2>2 DEF TypeOK
  <2>. QED
    BY <2>1, <2>2, <2>3, OpFacts, SizesAssumption
<1>3. OpCount' = OpCount /\ SetNames' = SetNames /\ \A j : Op(j)' = Op(j)
  BY <1>1, OpSame
<1>4. \A j \in DOMAIN table : table[j].name # Op(k).name
  BY <1>1, <1>2 DEF Inv, Passed
<1>5. e \in EntryType /\ e.name = Op(k).name /\ e.by # "client"
  BY <1>1, <1>2 DEF Entry, EntryType, OpType, TypeOK, CNames
<1>. HIDE DEF e
<1>6. /\ table' \in Seq(EntryType) /\ Len(table') <= HeaderMax /\ Len(table') \in Nat
      /\ \A m \in DOMAIN table : m \in DOMAIN table' /\ table'[m] = table[m]
      /\ \A m \in DOMAIN table' : m \in DOMAIN table \/ (m = Len(table) + 1 /\ table'[m] = e)
  <2>1. CASE UNCHANGED table
    BY <1>1, <1>2, <2>1 DEF TypeOK
  <2>2. CASE Len(table) < HeaderMax /\ table' = Append(table, e)
    BY <1>2, <1>5, <2>2, AppendFacts
  <2>. QED
    BY <1>1, <2>1, <2>2
<1>7. TypeOK'
  BY <1>1, <1>2, <1>3, <1>6 DEF TypeOK
<1>8. \A n : Settled(n) \/ n = Op(k).name => Settled(n)'
  <2>1. ASSUME NEW n, n = Op(k).name PROVE Settled(n)'
    BY <1>4, <1>5, <1>6, <2>1 DEF Settled
  <2>2. ASSUME NEW n, Settled(n), n # Op(k).name PROVE Settled(n)'
    BY <1>4, <1>5, <1>6, <2>2 DEF Settled
  <2>. QED
    BY <2>1, <2>2
<1>9. DoneSettled'
  <2>1. \A j \in 1 .. k' - 1 : j \in 1 .. k - 1 \/ j = k
    BY <1>1, <1>2
  <2>. QED
    BY <1>3, <1>8, <2>1 DEF Inv, DoneSettled
<1>10. Passed'
  BY <1>1 DEF Passed
<1>11. Kept'
  BY <1>1, <1>3, <1>6 DEF Inv, Kept
<1>12. Ordered'
  <2>1. ASSUME NEW j \in DOMAIN table', NEW m \in DOMAIN table', j < m, table'[m].by = "client"
        PROVE  table'[j].by = "client" /\ table'[j].val < table'[m].val
    <3>1. m \in DOMAIN table
      BY <1>5, <1>6, <2>1
    <3>2. j \in DOMAIN table
      BY <1>2, <1>6, <2>1, <3>1
    <3>. QED
      BY <1>6, <2>1, <3>1, <3>2 DEF Inv, Ordered
  <2>. QED
    BY <2>1 DEF Ordered
<1>. QED
  BY <1>7, <1>9, <1>10, <1>11, <1>12 DEF Inv

LEMMA PrintedType == ASSUME NEW e \in EntryType PROVE Printed(e) \in EntryType
BY NamesAssumption DEF Printed, Entry, EntryType, CNames

\* Sending changes nothing more.
LEMMA SerializeKeepsInv == Inv /\ (Serialize \/ SendHeader \/ SendDone \/ UNCHANGED vars) => Inv'
<1>. SUFFICES ASSUME Inv, Serialize \/ SendHeader \/ SendDone \/ UNCHANGED vars PROVE Inv'
  OBVIOUS
<1>1. CASE Serialize \/ SendHeader \/ SendDone
  <2>1. /\ UNCHANGED <<tokens, custom, request, table, k, host>> /\ pc \in {"op", "send"}
        /\ pc' \in {"send", "sent", "closed"} /\ TypeOK /\ Len(table) \in Nat /\ k > OpCount
    BY <1>1, LenProperties DEF Serialize, SendHeader, SendDone, Inv, TypeOK
  <2>2. OpCount' = OpCount /\ \A j : Op(j)' = Op(j)
    BY <2>1, OpSame
  <2>3. Kept' /\ Ordered' /\ \A n : Settled(n) => Settled(n)'
    BY <2>1, TableSame
  <2>4. DoneSettled' /\ Passed'
    BY <2>1, <2>2, <2>3 DEF Inv, DoneSettled, Passed
  <2>5. at' \in 1 .. Len(table) + 1
    BY <1>1, <2>1 DEF Serialize, SendHeader, SendDone, TypeOK
  <2>6. sent' \in Seq(EntryType)
    <3>1. CASE SendHeader
      <4>1. at \in 1 .. Len(table)
        BY <2>1, <3>1 DEF SendHeader, TypeOK
      <4>2. Printed(table[at]) \in EntryType
        BY <2>1, <4>1, PrintedType, ElementOfSeq DEF TypeOK
      <4>. QED
        BY <2>1, <3>1, <4>2, AppendProperties DEF SendHeader, TypeOK
    <3>2. CASE Serialize \/ SendDone
      BY <2>1, <3>2 DEF Serialize, SendDone, TypeOK
    <3>. QED
      BY <1>1, <3>1, <3>2
  <2>7. TypeOK'
    BY <2>1, <2>2, <2>5, <2>6 DEF TypeOK
  <2>. QED
    BY <2>3, <2>4, <2>7 DEF Inv
<1>2. CASE UNCHANGED vars
  <2>1. /\ UNCHANGED <<tokens, custom, request, table, k, pc, at, host, sent>> /\ TypeOK
    BY <1>2 DEF vars, Inv
  <2>2. OpCount' = OpCount /\ SetNames' = SetNames /\ \A j : Op(j)' = Op(j)
    BY <2>1, OpSame
  <2>3. TypeOK'
    BY <2>1, <2>2 DEF TypeOK
  <2>4. DoneSettled' /\ Passed'
    BY <2>1, <2>2 DEF Inv, DoneSettled, Passed, Settled
  <2>5. Kept' /\ Ordered'
    BY <2>1, <2>2 DEF Inv, Kept, Ordered
  <2>. QED
    BY <2>3, <2>4, <2>5 DEF Inv
<1>. QED
  BY <1>1, <1>2

LEMMA NextInv == Inv /\ [Next]_vars => Inv'
BY ConfigKeepsInv, SkipKeepsInv, LoopKeepsInv, RemoveKeepsInv, EndKeepsInv, SerializeKeepsInv
   DEF Next

-----------------------------------------------------------------------------
LEMMA Invariance == Spec => []Inv
BY InitInv, NextInv, PTL DEF Spec

\* The table stays within its size, and the removal loop, which does not step on after a
\* removal, inside the table.
THEOREM TypeCorrect == Spec => []TypeOK
<1>1. Inv => TypeOK
  BY DEF Inv
<1>. QED
  BY <1>1, Invariance, PTL

-----------------------------------------------------------------------------
(* What the gateway puts in, if there is room for it: the table holds lines *)
(* of the client that are not cleaned, and one entry at most for each       *)
(* header that is wanted.                                                   *)

Passing == {p \in DOMAIN request : request[p] \notin Cleaned}
Room    == Cardinality(Passing) + Cardinality(Wanted) <= HeaderMax

ClientEntries ==
  \A j \in DOMAIN table : table[j].by = "client" =>
    table[j].val \in DOMAIN request /\ table[j].name = request[table[j].val]

\* The others are of operations that are done.
Injections ==
  \A j \in DOMAIN table : table[j].by # "client" =>
    table[j].name \in Wanted /\ \E i \in 5 .. k - 1 : Op(i).name = table[j].name

\* Until Host is read only names that are cleaned are removed.
PassingKept ==
  k <= 7 => \A p \in DOMAIN request :
    (\A n \in Cleaned : ~Matches(Entry(request[p], "client", p), n)) =>
      \E j \in DOMAIN table : table[j] = Entry(request[p], "client", p)

HostFound == k = 7 /\ pc = "remove" => HostNamed

Sets(i) == Op(i).kind = "set" \/ (i = 7 /\ HostNamed)

\* What was set is there, unless the loop is about to replace it.
Injected ==
  \A i \in 1 .. k - 1 : Sets(i) =>
    \/ \E j \in DOMAIN table : table[j].name = Op(i).name
    \/ pc = "remove" /\ Op(i).name = Op(k).name

RoomInv == ClientEntries /\ Injections /\ PassingKept /\ HostFound /\ (Room => Injected)

\* The first four operations clean, the next four and more set, each a wanted header.
LEMMA SetFacts ==
  ASSUME custom \in Seq(CNames)
  PROVE  /\ \A i \in 1 .. 4 : Op(i).kind = "remove"
         /\ Cleaned = {Op(i).name : i \in 1 .. 4}
         /\ \A i \in 1 .. 7 : Op(i).name \in Cleaned
         /\ \A i \in 5 .. OpCount : i # 7 => Op(i).kind = "set"
         /\ Op(7).kind = "host" /\ Op(7).name = FwdHost
         /\ \A i \in 1 .. OpCount : Sets(i) => Op(i).name \in Wanted
<1>1. \A i \in 1 .. 10 : Op(i) = Fixed[i]
  BY DEF Op
<1>2. \A i \in 1 .. 4 : i \in {1, 2, 3, 4}
  OBVIOUS
<1>3. \A i \in 1 .. 4 : Op(i).kind = "remove"
  BY <1>1, <1>2 DEF Fixed, Remove
<1>4. Cleaned = {Op(i).name : i \in 1 .. 4}
  <2>1. Op(1).name = RealIp /\ Op(2).name = FwdFor /\ Op(3).name = FwdHost /\ Op(4).name = FwdProto
    BY <1>1 DEF Fixed, Remove
  <2>2. 1 .. 4 = {1, 2, 3, 4}
    OBVIOUS
  <2> QED
    BY <2>1, <2>2 DEF Cleaned
<1>5. \A i \in 1 .. 7 : Op(i).name \in Cleaned
  <2>1. \A i \in 1 .. 7 : i \in {1, 2, 3, 4, 5, 6, 7} /\ i \in 1 .. 10
    OBVIOUS
  <2> QED
    BY <1>1, <2>1 DEF Fixed, Remove, Set, SetHost, Cleaned
<1>6. ASSUME NEW i \in 5 .. OpCount, i # 7
      PROVE  Op(i).kind = "set"
  <2>1. CASE i <= 10
    <3>1. i \in {5, 6, 8, 9, 10} /\ Op(i) = Fixed[i]
      BY <1>1, <1>6, <2>1, LenProperties DEF OpCount
    <3> QED
      BY <3>1 DEF Fixed, Set
  <2>2. CASE ~(i <= 10)
    BY <2>2 DEF Op, Set
  <2> QED
    BY <2>1, <2>2
<1>7. Op(7).kind = "host" /\ Op(7).name = FwdHost
  BY <1>1 DEF Fixed, SetHost
<1>8. \A i \in 1 .. OpCount : Sets(i) => Op(i).name \in Wanted
  BY <1>7 DEF Sets, Wanted
<1> QED
  BY <1>3, <1>4, <1>5, <1>6, <1>7, <1>8

\* Once the configuration is loaded what is wanted stays as it is.
LEMMA WantedSame ==
  ASSUME UNCHANGED <<custom, request>>
  PROVE  /\ Wanted' = Wanted /\ Passing' = Passing /\ (Room' <=> Room) /\ (HostNamed' <=> HostNamed)
         /\ OpCount' = OpCount /\ (\A j : Op(j)' = Op(j)) /\ \A i : Sets(i)' <=> Sets(i)
<1>1. OpCount' = OpCount /\ \A j : Op(j)' = Op(j)
  BY OpSame
<1>2. Passing' = Passing
  BY DEF Passing
<1>3. HostNamed' <=> HostNamed
  BY DEF HostNamed
<1>4. Wanted' = Wanted
  BY <1>1, <1>3 DEF Wanted
<1>5. Room' <=> Room
  BY <1>2, <1>4 DEF Room
<1>6. \A i : Sets(i)' <=> Sets(i)
  BY <1>1, <1>3 DEF Sets
<1> QED
  BY <1>1, <1>2, <1>3, <1>4, <1>5, <1>6

LEMMA WantedFinite ==
  ASSUME TypeOK
  PROVE  IsFiniteSet(Passing) /\ IsFiniteSet(Wanted)
<1>1. OpCount \in Nat /\ Len(request) \in Nat /\ DOMAIN request = 1 .. Len(request)
  BY OpFacts, LenProperties DEF TypeOK
<1>2. IsFiniteSet(Passing)
  <2>1. IsFiniteSet(1 .. Len(request))
    BY <1>1, FS_Interval
  <2> QED
    BY <1>1, <2>1, FS_Subset DEF Passing
<1>3. IsFiniteSet(Wanted)
  <2> DEFINE J == {j \in 1 .. OpCount : Op(j).kind = "set"}
             W == {Op(j).name : j \in J}
  <2>1. IsFiniteSet(1 .. OpCount)
    BY <1>1, FS_Interval
  <2>2. IsFiniteSet(J)
    BY <2>1, FS_Subset
  <2>3. IsFiniteSet(W)
    <3> DEFINE f == [j \in J |-> Op(j).name]
    <3>1. f \in Surjection(J, W)
      BY DEF Surjection
    <3> QED
      BY ONLY <2>2, <3>1, FS_Surjection
  <2>4. Wanted = W \/ Wanted = W \cup {FwdHost}
    BY DEF Wanted
  <2> QED
    BY <2>3, <2>4, FS_AddElement
<1> QED
  BY <1>2, <1>3

\* The client's entries are of different lines that are not cleaned once the first four
\* operations are done, the others of different wanted headers.
LEMMA TableFits ==
  ASSUME Inv, RoomInv, k > 4, NEW n \in Wanted, \A j \in DOMAIN table : table[j].name # n
  PROVE  Len(table) < Cardinality(Passing) + Cardinality(Wanted)
<1> DEFINE C == {j \in DOMAIN table : table[j].by = "client"}
           G == DOMAIN table \ C
<1>1. /\ TypeOK /\ table \in Seq(EntryType) /\ Len(table) \in Nat /\ DOMAIN table = 1 .. Len(table)
      /\ k \in Nat /\ custom \in Seq(CNames)
  BY LenProperties, OpFacts DEF Inv, TypeOK
<1>2. IsFiniteSet(Passing) /\ IsFiniteSet(Wanted)
  BY <1>1, WantedFinite
<1>3. IsFiniteSet(C) /\ IsFiniteSet(G) /\ C \cup G = DOMAIN table /\ C \cap G = {}
  <2>1. IsFiniteSet(DOMAIN table)
    BY <1>1, FS_Interval
  <2> QED
    BY <2>1, FS_Subset
<1>4. Len(table) = Cardinality(C) + Cardinality(G)
  <2>1. Cardinality(DOMAIN table) = Len(table)
    <3>1. PICK c \in Nat : c = Len(table)
      BY <1>1
    <3>2. Cardinality(1 .. c) = IF 1 > c THEN 0 ELSE c - 1 + 1
      BY FS_Interval
    <3> QED
      BY <1>1, <3>1, <3>2
  <2>2. Cardinality(C \cup G) = Cardinality(C) + Cardinality(G) - Cardinality(C \cap G)
    BY <1>3, FS_Union
  <2>3. Cardinality(C) \in Nat /\ Cardinality(G) \in Nat /\ Cardinality(C \cap G) = 0
    BY <1>3, FS_CardinalityType, FS_EmptySet
  <2> HIDE DEF C, G
  <2> QED
    BY <1>3, <2>1, <2>2, <2>3
<1>5. Cardinality(C) <= Cardinality(Passing)
  <2> DEFINE f == [j \in C |-> table[j].val]
  <2>1. \A j \in C : table[j].val \in Passing
    <3> SUFFICES ASSUME NEW j \in C PROVE table[j].val \in Passing
      OBVIOUS
    <3>1. table[j].val \in DOMAIN request /\ table[j].name = request[table[j].val]
      BY DEF RoomInv, ClientEntries
    <3>2. table[j].name \notin Cleaned
      <4>1. \A i \in 1 .. 4 : i \in 1 .. k - 1
        BY <1>1
      <4>2. \A i \in 1 .. 4 : Settled(Op(i).name)
        BY <4>1 DEF Inv, DoneSettled
      <4> QED
        BY <1>1, <4>2, SetFacts DEF Settled
    <3> QED
      BY <3>1, <3>2 DEF Passing
  <2>2. \A j, m \in C : table[j].val = table[m].val => j = m
    <3> SUFFICES ASSUME NEW j \in C, NEW m \in C, table[j].val = table[m].val, j < m PROVE FALSE
      BY <1>1
    <3>1. table[j].val < table[m].val
      BY DEF Inv, Ordered
    <3>2. table[m] \in EntryType
      BY <1>1, ElementOfSeq
    <3>3. table[m].val \in Int
      BY <3>2, SizesAssumption DEF EntryType
    <3> QED
      BY <3>1, <3>3
  <2>3. f \in Injection(C, Passing)
    BY <2>1, <2>2 DEF Injection, IsInjective
  <2> QED
    BY ONLY <1>2, <2>3, FS_Injection
<1>6. Cardinality(G) <= Cardinality(Wanted \ {n})
  <2> DEFINE f == [j \in G |-> table[j].name]
  <2>1. \A j \in G : table[j].name \in Wanted \ {n}
    BY DEF RoomInv, Injections
  <2>2. \A j, m \in G : table[j].name = table[m].name => j = m
    <3> SUFFICES ASSUME NEW j \in G, NEW m \in G, table[j].name = table[m].name PROVE j = m
      OBVIOUS
    <3>1. PICK i \in 5 .. k - 1 : Op(i).name = table[j].name
      BY DEF RoomInv, Injections
    <3>2. i \in 1 .. k - 1
      BY <1>1, <3>1
    <3>3. Settled(Op(i).name)
      BY <3>2 DEF Inv, DoneSettled
    <3> QED
      BY <3>1, <3>3 DEF Settled
  <2>3. f \in Injection(G, Wanted \ {n})
    BY <2>1, <2>2 DEF Injection, IsInjective
  <2>4. IsFiniteSet(Wanted \ {n})
    BY <1>2, FS_RemoveElement
  <2> QED
    BY ONLY <2>3, <2>4, FS_Injection
<1>7. Cardinality(Wanted \ {n}) = Cardinality(Wanted) - 1
  BY <1>2, FS_RemoveElement
<1>8. /\ Cardinality(C) \in Nat /\ Cardinality(G) \in Nat /\ Cardinality(Passing) \in Nat
      /\ Cardinality(Wanted) \in Nat
  BY <1>2, <1>3, FS_CardinalityType
<1> HIDE DEF C, G
<1> QED
  BY <1>4, <1>5, <1>6, <1>7, <1>8

LEMMA InitRoom == Init => RoomInv
<1> SUFFICES ASSUME Init PROVE RoomInv
  OBVIOUS
<1>1. /\ table = [p \in 1 .. Len(request) |-> Entry(request[p], "client", p)]
      /\ k = 1 /\ pc = "config" /\ DOMAIN request = 1 .. Len(request)
  BY InputsAssumption, LenProperties DEF Init
<1>2. ClientEntries /\ Injections
  BY <1>1 DEF ClientEntries, Injections, Entry
<1>3. PassingKept
  BY <1>1 DEF PassingKept
<1>4. HostFound /\ Injected
  BY <1>1 DEF HostFound, Injected
<1> QED
  BY <1>2, <1>3, <1>4 DEF RoomInv

LEMMA ConfigRoom == Inv /\ RoomInv /\ (TakeToken \/ ConfigLoaded) => RoomInv'
<1> SUFFICES ASSUME Inv, RoomInv, TakeToken \/ ConfigLoaded PROVE RoomInv'
  OBVIOUS
<1>1. /\ UNCHANGED <<request, table, k>> /\ pc' \in {"config", "op"} /\ k = 1
  BY DEF TakeToken, ConfigLoaded, Inv, TypeOK
<1>2. \A j \in DOMAIN table : table[j].by = "client"
  BY <1>1 DEF RoomInv, Injections
<1>3. ClientEntries' /\ Injections'
  BY <1>1, <1>2 DEF RoomInv, ClientEntries, Injections
<1>4. PassingKept'
  BY <1>1 DEF RoomInv, PassingKept
<1>5. HostFound' /\ Injected'
  BY <1>1 DEF HostFound, Injected
<1> QED
  BY <1>3, <1>4, <1>5 DEF RoomInv

\* Something in the table has Host's hash when, and only when, the client has sent it:
\* of the gateway's own headers only two are there by then.
LEMMA HostIsNamed ==
  ASSUME Inv, RoomInv, k = 7, pc = "op"
  PROVE  Got(Host) # {} <=> HostNamed
<1>1. /\ TypeOK /\ table \in Seq(EntryType) /\ Len(table) \in Nat /\ DOMAIN table = 1 .. Len(table)
      /\ custom \in Seq(CNames)
  BY LenProperties DEF Inv, TypeOK
<1>2. ASSUME HostNamed PROVE Got(Host) # {}
  <2> DEFINE S == {j \in DOMAIN table : Hash[table[j].name] = Hash[Host]}
  <2>1. PICK p \in DOMAIN request : request[p] \notin Cleaned /\ Hash[request[p]] = Hash[Host]
    BY <1>2 DEF HostNamed
  <2>2. PICK j \in DOMAIN table : table[j] = Entry(request[p], "client", p)
    <3>1. \A n \in Cleaned : ~Matches(Entry(request[p], "client", p), n)
      BY <2>1, HashAssumption DEF Matches, Entry, Standard
    <3> QED
      BY <3>1 DEF RoomInv, PassingKept
  <2>3. j \in S /\ S \in SUBSET Nat
    BY <1>1, <2>1, <2>2 DEF Entry
  <2>4. IsWellFoundedOn(OpToRel(<, Nat), Nat)
    BY NatLessThanWellFounded
  <2>5. PICK m \in S : \A i \in S : <<i, m>> \notin OpToRel(<, Nat)
    BY <2>3, <2>4, WFMin
  <2>6. ASSUME NEW i \in 1 .. m - 1 PROVE Hash[table[i].name] # Hash[Host]
    <3>1. i \in Nat /\ m \in Nat /\ i < m /\ i \in DOMAIN table
      BY <1>1
    <3>2. i \notin S
      BY <2>5, <3>1 DEF OpToRel
    <3> QED
      BY <3>1, <3>2
  <2>7. m \in Got(Host)
    BY <2>5, <2>6 DEF Got
  <2> QED
    BY <2>7
<1>3. ASSUME Got(Host) # {} PROVE HostNamed
  <2>1. PICK j \in DOMAIN table : Hash[table[j].name] = Hash[Host]
    BY <1>3 DEF Got
  <2>2. CASE table[j].by = "client"
    <3>1. table[j].val \in DOMAIN request /\ table[j].name = request[table[j].val]
      BY <2>2 DEF RoomInv, ClientEntries
    <3>2. \A i \in 1 .. 4 : Settled(Op(i).name)
      BY DEF Inv, DoneSettled
    <3>3. table[j].name \notin Cleaned
      BY <1>1, <2>2, <3>2, SetFacts DEF Settled
    <3> QED
      BY <2>1, <3>1, <3>3 DEF HostNamed
  <2>3. CASE table[j].by # "client"
    <3>1. PICK i \in 5 .. 6 : Op(i).name = table[j].name
      BY <2>3 DEF RoomInv, Injections
    <3>2. table[j].name \in Cleaned
      BY <1>1, <3>1, SetFacts
    <3> QED
      BY <2>1, <3>2, HashAssumption DEF Standard
  <2> QED
    BY <2>2, <2>3
<1> QED
  BY <1>2, <1>3

LEMMA SkipRoom == Inv /\ RoomInv /\ SkipOp => RoomInv'
<1> SUFFICES ASSUME Inv, RoomInv, SkipOp PROVE RoomInv'
  OBVIOUS
<1>1. /\ UNCHANGED <<custom, request, table, pc>> /\ k' = k + 1 /\ k \in 1 .. OpCount /\ k \in Nat
      /\ pc = "op" /\ Op(k).kind = "host" /\ Got(Host) = {} /\ custom \in Seq(CNames)
  BY OpFacts DEF SkipOp, Inv, TypeOK
<1>2. k = 7
  BY <1>1, OpFacts
<1>3. ~HostNamed
  BY <1>1, <1>2, HostIsNamed
<1>4. /\ Wanted' = Wanted /\ Passing' = Passing /\ (Room' <=> Room) /\ (HostNamed' <=> HostNamed)
      /\ (\A j : Op(j)' = Op(j)) /\ \A i : Sets(i)' <=> Sets(i)
  BY <1>1, WantedSame
<1>5. ClientEntries' /\ Injections'
  BY <1>1, <1>4 DEF RoomInv, ClientEntries, Injections
<1>6. PassingKept' /\ HostFound'
  BY <1>1, <1>2 DEF PassingKept, HostFound
<1>7. Injected => Injected'
  <2>1. ~Sets(7)
    BY <1>2, <1>1, <1>3 DEF Sets
  <2>2. \A i \in 1 .. k' - 1 : i \in 1 .. k - 1 \/ i = 7
    BY <1>1, <1>2
  <2> QED
    BY <1>1, <1>4, <2>1, <2>2 DEF Injected
<1> QED
  BY <1>4, <1>5, <1>6, <1>7 DEF RoomInv

LEMMA LoopRoom == Inv /\ RoomInv /\ (BeginOp \/ StepOver) => RoomInv'
<1> SUFFICES ASSUME Inv, RoomInv, BeginOp \/ StepOver PROVE RoomInv'
  OBVIOUS
<1>1. /\ UNCHANGED <<custom, request, table, k>> /\ custom \in Seq(CNames)
      /\ pc' = "remove" /\ pc \in {"op", "remove"}
  BY DEF BeginOp, StepOver, Inv, TypeOK
<1>2. /\ Wanted' = Wanted /\ Passing' = Passing /\ (Room' <=> Room) /\ (HostNamed' <=> HostNamed)
      /\ (\A j : Op(j)' = Op(j)) /\ \A i : Sets(i)' <=> Sets(i)
  BY <1>1, WantedSame
<1>3. ClientEntries' /\ Injections' /\ PassingKept'
  BY <1>1, <1>2 DEF RoomInv, ClientEntries, Injections, PassingKept
<1>4. HostFound'
  <2> SUFFICES ASSUME k = 7 PROVE HostNamed
    BY <1>1, <1>2 DEF HostFound
  <2>1. CASE BeginOp
    <3>1. Op(k).kind = "host" /\ pc = "op"
      BY <1>1, <2>1, SetFacts DEF BeginOp
    <3>2. Got(Host) # {}
      BY <2>1, <3>1 DEF BeginOp
    <3> QED
      BY <3>1, <3>2, HostIsNamed
  <2>2. CASE StepOver
    BY <2>2 DEF StepOver, RoomInv, HostFound
  <2> QED
    BY <2>1, <2>2
<1>5. Injected => Injected'
  BY <1>1, <1>2 DEF Injected
<1> QED
  BY <1>2, <1>3, <1>4, <1>5 DEF RoomInv

\* What is taken out has the name of the operation, which, up to the seventh, is one of
\* those cleaned.
LEMMA RemoveRoom == Inv /\ RoomInv /\ RemoveOne => RoomInv'
<1> SUFFICES ASSUME Inv, RoomInv, RemoveOne PROVE RoomInv'
  OBVIOUS
<1>1. /\ UNCHANGED <<custom, request, k, pc>> /\ table' = Without(at) /\ custom \in Seq(CNames)
      /\ pc = "remove" /\ CStr[table[at].name] = Op(k).name /\ at <= Len(table) /\ TypeOK
      /\ Matches(table[at], Op(k).name)
  BY DEF RemoveOne, Matches, Inv, TypeOK
<1>2. at \in 1 .. Len(table) /\ table \in Seq(EntryType) /\ k \in 1 .. OpCount
  BY <1>1, LenProperties, OpFacts DEF TypeOK
<1>3. /\ \A m \in DOMAIN table' : Up(at, m) \in DOMAIN table \ {at} /\ table'[m] = table[Up(at, m)]
      /\ \A j \in DOMAIN table \ {at} : \E m \in DOMAIN table' : Up(at, m) = j
  BY <1>1, <1>2, WithoutFacts
<1>4. /\ Wanted' = Wanted /\ Passing' = Passing /\ (Room' <=> Room) /\ (HostNamed' <=> HostNamed)
      /\ (\A j : Op(j)' = Op(j)) /\ \A i : Sets(i)' <=> Sets(i)
  BY <1>1, WantedSame
<1>5. ClientEntries'
  BY <1>1, <1>3 DEF RoomInv, ClientEntries
<1>6. Injections'
  <2> SUFFICES ASSUME NEW m \in DOMAIN table', table'[m].by # "client"
               PROVE  table'[m].name \in Wanted /\ \E i \in 5 .. k - 1 : Op(i).name = table'[m].name
    BY <1>1, <1>4 DEF Injections
  <2> QED
    BY <1>3 DEF RoomInv, Injections
<1>7. PassingKept'
  <2> SUFFICES ASSUME k <= 7, NEW p \in DOMAIN request,
                      \A n \in Cleaned : ~Matches(Entry(request[p], "client", p), n)
               PROVE  \E m \in DOMAIN table' : table'[m] = Entry(request[p], "client", p)
    BY <1>1, <1>4 DEF PassingKept
  <2>1. PICK j \in DOMAIN table : table[j] = Entry(request[p], "client", p)
    BY DEF RoomInv, PassingKept
  <2>2. Op(k).name \in Cleaned
    <3>1. k \in 1 .. 7
      BY <1>1, <1>2, OpFacts
    <3> QED
      BY <1>1, <3>1, SetFacts
  <2>3. j # at
    BY <1>1, <2>1, <2>2
  <2> QED
    BY <1>3, <2>1, <2>3
<1>8. HostFound'
  BY <1>1, <1>4 DEF RoomInv, HostFound
<1>9. Injected => Injected'
  <2> SUFFICES ASSUME Injected, NEW i \in 1 .. k - 1, Sets(i), Op(i).name # Op(k).name
               PROVE  \E m \in DOMAIN table' : table'[m].name = Op(i).name
    BY <1>1, <1>4 DEF Injected
  <2>1. PICK j \in DOMAIN table : table[j].name = Op(i).name
    BY DEF Injected
  <2>2. Op(i).name \in CNames
    <3>1. OpCount \in Nat /\ \A h \in 1 .. OpCount : Op(h) \in OpType
      BY <1>1, OpFacts
    <3>2. Op(i) \in OpType
      BY <1>2, <3>1
    <3> QED
      BY <3>2 DEF OpType
  <2>3. j # at
    BY <1>1, <2>1, <2>2 DEF CNames
  <2> QED
    BY <1>3, <2>1, <2>3
<1> QED
  BY <1>4, <1>5, <1>6, <1>7, <1>8, <1>9 DEF RoomInv

\* None has the name of the operation now, so there is room for one that has.
LEMMA EndRoom == Inv /\ RoomInv /\ EndOp => RoomInv'
<1> SUFFICES ASSUME Inv, RoomInv, EndOp PROVE RoomInv'
  OBVIOUS
<1> DEFINE e == Entry(Op(k).name, Op(k).by, host)
<1>1. /\ UNCHANGED <<custom, request>> /\ custom \in Seq(CNames) /\ TypeOK
      /\ pc = "remove" /\ pc' = "op" /\ k' = k + 1 /\ at > Len(table)
  BY DEF EndOp, Inv, TypeOK
<1>2. /\ table \in Seq(EntryType) /\ Len(table) \in Nat /\ DOMAIN table = 1 .. Len(table)
      /\ at = Len(table) + 1 /\ OpCount \in Nat /\ k \in 1 .. OpCount /\ HeaderMax \in Nat
      /\ Op(k) \in OpType
  <2>1. custom \in Seq(CNames) /\ table \in Seq(EntryType)
    BY <1>1 DEF TypeOK
  <2>2. Len(table) \in Nat /\ DOMAIN table = 1 .. Len(table) /\ OpCount \in Nat
    BY <2>1, LenProperties, OpFacts
  <2>3. at = Len(table) + 1 /\ k \in 1 .. OpCount
    BY <1>1, <2>2 DEF TypeOK
  <2> QED
    BY <2>1, <2>2, <2>3, OpFacts, SizesAssumption
<1>3. \A j \in DOMAIN table : table[j].name # Op(k).name
  BY <1>1, <1>2 DEF Inv, Passed
<1>4. e \in EntryType /\ e.name = Op(k).name /\ e.by # "client"
  BY <1>1, <1>2 DEF Entry, EntryType, OpType, TypeOK, CNames
<1>5. \/ UNCHANGED table /\ (Op(k).kind = "remove" \/ Len(table) >= HeaderMax)
      \/ Op(k).kind # "remove" /\ table' = Append(table, e)
  BY <1>2 DEF EndOp, Add
<1> HIDE DEF e
<1>6. /\ \A m \in DOMAIN table : m \in DOMAIN table' /\ table'[m] = table[m]
      /\ \A m \in DOMAIN table' : \/ m \in DOMAIN table
                                  \/ Op(k).kind # "remove" /\ table'[m] = e
      /\ \/ Op(k).kind = "remove" \/ Len(table) >= HeaderMax
         \/ \E m \in DOMAIN table' : table'[m] = e
  <2>1. CASE UNCHANGED table /\ (Op(k).kind = "remove" \/ Len(table) >= HeaderMax)
    BY <2>1
  <2>2. CASE Op(k).kind # "remove" /\ table' = Append(table, e)
    <3>1. /\ DOMAIN table' = 1 .. Len(table) + 1
          /\ \A m \in DOMAIN table : table'[m] = table[m]
          /\ table'[Len(table) + 1] = e
      BY <1>2, <1>4, <2>2, AppendFacts
    <3>2. \A m \in 1 .. Len(table) + 1 : m \in 1 .. Len(table) \/ m = Len(table) + 1
      BY <1>2
    <3>3. Len(table) + 1 \in DOMAIN table'
      BY <1>2, <3>1
    <3> QED
      BY <1>2, <2>2, <3>1, <3>2, <3>3
  <2> QED
    BY <1>5, <2>1, <2>2
<1>7. /\ Wanted' = Wanted /\ Passing' = Passing /\ (Room' <=> Room) /\ (HostNamed' <=> HostNamed)
      /\ (\A j : Op(j)' = Op(j)) /\ \A i : Sets(i)' <=> Sets(i)
  BY <1>1, WantedSame
<1>8. Op(k).kind # "remove" => k \in 5 .. OpCount /\ Sets(k) /\ Op(k).name \in Wanted
  <2> SUFFICES ASSUME Op(k).kind # "remove" PROVE k \in 5 .. OpCount /\ Sets(k)
    BY <1>1, <1>2, SetFacts
  <2>1. k \notin 1 .. 4
    BY <1>1, SetFacts
  <2>2. k \in 5 .. OpCount
    BY <1>2, <2>1
  <2>3. CASE k = 7
    BY <1>1, <2>2, <2>3 DEF Sets, RoomInv, HostFound
  <2>4. CASE k # 7
    BY <1>1, <2>2, <2>4, SetFacts DEF Sets
  <2> QED
    BY <2>2, <2>3, <2>4
<1>9. ClientEntries'
  BY <1>1, <1>4, <1>6 DEF RoomInv, ClientEntries
<1>10. Injections'
  <2> SUFFICES ASSUME NEW m \in DOMAIN table', table'[m].by # "client"
               PROVE  table'[m].name \in Wanted /\ \E i \in 5 .. k : Op(i).name = table'[m].name
    BY <1>1, <1>2, <1>7 DEF Injections
  <2>1. CASE m \in DOMAIN table
    <3>1. /\ table'[m] = table[m] /\ table[m].name \in Wanted
          /\ \E i \in 5 .. k - 1 : Op(i).name = table[m].name
      BY <1>6, <2>1 DEF RoomInv, Injections
    <3>2. \A i \in 5 .. k - 1 : i \in 5 .. k
      BY <1>2
    <3> QED
      BY <3>1, <3>2
  <2>2. CASE Op(k).kind # "remove" /\ table'[m] = e
    <3>1. k \in 5 .. k
      BY <1>8, <2>2
    <3> QED
      BY <1>4, <1>8, <2>2, <3>1
  <2> QED
    BY <1>6, <2>1, <2>2
<1>11. PassingKept'
  <2>1. k' <= 7 => k <= 7
    BY <1>1, <1>2
  <2> QED
    BY <1>1, <1>6, <1>7, <2>1 DEF RoomInv, PassingKept
<1>12. HostFound'
  BY <1>1 DEF HostFound
<1>13. Room /\ Injected => Injected'
  <2> SUFFICES ASSUME Room, Injected, NEW i \in 1 .. k' - 1, Sets(i)
               PROVE  \E m \in DOMAIN table' : table'[m].name = Op(i).name
    BY <1>1, <1>7 DEF Injected
  <2>1. CASE Op(i).name # Op(k).name
    <3>1. i \in 1 .. k - 1
      BY <1>1, <1>2, <2>1
    <3>2. PICK j \in DOMAIN table : table[j].name = Op(i).name
      BY <2>1, <3>1 DEF Injected
    <3> QED
      BY <1>6, <3>2
  <2>2. CASE Op(i).name = Op(k).name
    <3>1. Sets(i) => i \notin 1 .. 4 /\ i \in 1 .. OpCount
      BY <1>1, <1>2, SetFacts DEF Sets
    <3>2. k > 4 /\ Op(k).name \in Wanted
      BY <1>1, <1>2, <2>2, <3>1, SetFacts
    <3>3. Op(k).kind # "remove"
      <4>1. k \in 5 .. OpCount
        BY <1>2, <3>2
      <4> QED
        BY <1>1, <4>1, SetFacts
    <3>4. Len(table) < Cardinality(Passing) + Cardinality(Wanted)
      BY <1>3, <3>2, TableFits
    <3>5. Cardinality(Passing) \in Nat /\ Cardinality(Wanted) \in Nat
      BY <1>1, WantedFinite, FS_CardinalityType
    <3>6. Len(table) < HeaderMax
      BY <1>2, <3>4, <3>5 DEF Room
    <3> QED
      BY <1>2, <1>4, <1>6, <2>2, <3>3, <3>6
  <2> QED
    BY <2>1, <2>2
<1> QED
  BY <1>7, <1>9, <1>10, <1>11, <1>12, <1>13 DEF RoomInv

LEMMA SerializeRoom == Inv /\ RoomInv /\ (Serialize \/ SendHeader \/ SendDone \/ UNCHANGED vars) => RoomInv'
<1> SUFFICES ASSUME Inv, RoomInv, Serialize \/ SendHeader \/ SendDone \/ UNCHANGED vars
             PROVE  RoomInv'
  OBVIOUS
<1>1. /\ UNCHANGED <<custom, request, table, k>>
      /\ pc' = pc \/ (pc \in {"op", "send"} /\ pc' \in {"send", "sent", "closed"})
  BY DEF Serialize, SendHeader, SendDone, vars
<1>2. /\ Wanted' = Wanted /\ Passing' = Passing /\ (Room' <=> Room) /\ (HostNamed' <=> HostNamed)
      /\ (\A j : Op(j)' = Op(j)) /\ \A i : Sets(i)' <=> Sets(i)
  BY <1>1, WantedSame
<1>3. ClientEntries' /\ Injections' /\ PassingKept'
  BY <1>1, <1>2 DEF RoomInv, ClientEntries, Injections, PassingKept
<1>4. HostFound' /\ (Injected => Injected')
  BY <1>1, <1>2 DEF RoomInv, HostFound, Injected
<1> QED
  BY <1>2, <1>3, <1>4 DEF RoomInv

-----------------------------------------------------------------------------
(* What is sent.                                                            *)

\* The loop has sent what it has passed, in order.
Out ==
  /\ pc \notin {"send", "sent"} => sent = <<>>
  /\ pc = "sent" => at > Len(table)
  /\ \A j \in DOMAIN sent : \E m \in 1 .. at - 1 : sent[j] = Printed(table[m])
  /\ pc \in {"send", "sent"} =>
       \A m \in 1 .. at - 1 : Serialized(table[m]) => \E j \in DOMAIN sent : sent[j] = Printed(table[m])
  /\ \A j, l \in DOMAIN sent : j < l =>
       \E m, q \in 1 .. at - 1 : m < q /\ sent[j] = Printed(table[m]) /\ sent[l] = Printed(table[q])

\* Before the loop nothing is sent.
LEMMA OutEmpty ==
  ASSUME TypeOK', pc' \notin {"send", "sent"}, sent' = <<>>
  PROVE  Out'
<1>1. DOMAIN sent' = {}
  BY EmptySeq
<1> QED
  BY <1>1 DEF Out

LEMMA OutBefore ==
  Inv /\ Out /\ Inv' /\ (TakeToken \/ ConfigLoaded \/ SkipOp \/ BeginOp \/ RemoveOne \/ StepOver \/ EndOp)
  => Out'
<1> SUFFICES ASSUME Inv, Out, Inv',
                    TakeToken \/ ConfigLoaded \/ SkipOp \/ BeginOp \/ RemoveOne \/ StepOver \/ EndOp
             PROVE  Out'
  OBVIOUS
<1>1. pc \notin {"send", "sent"} /\ pc' \notin {"send", "sent"} /\ UNCHANGED sent
  BY DEF TakeToken, ConfigLoaded, SkipOp, BeginOp, RemoveOne, StepOver, EndOp
<1>2. sent' = <<>> /\ TypeOK'
  BY <1>1 DEF Out, Inv
<1> QED
  BY <1>1, <1>2, OutEmpty

\* One more entry of the table is sent, or has no name.
LEMMA OutSend == Inv /\ Out /\ SendHeader => Out'
<1> SUFFICES ASSUME Inv, Out, SendHeader PROVE Out'
  OBVIOUS
<1>1. /\ pc = "send" /\ pc' = "send" /\ at' = at + 1 /\ UNCHANGED table
      /\ at \in Nat /\ at > 0 /\ sent \in Seq(EntryType) /\ table[at] \in EntryType
  <2>1. Len(table) \in Nat /\ DOMAIN table = 1 .. Len(table)
    BY LenProperties DEF Inv, TypeOK
  <2>2. at \in 1 .. Len(table)
    BY <2>1 DEF SendHeader, Inv, TypeOK
  <2> QED
    BY <2>1, <2>2, ElementOfSeq DEF SendHeader, Inv, TypeOK
<1>2. \A m \in 1 .. at' - 1 : m \in 1 .. at - 1 \/ m = at
  BY <1>1
<1>3. \A m \in 1 .. at - 1 : m \in 1 .. at' - 1 /\ m < at
  BY <1>1
<1>4. at \in 1 .. at' - 1
  BY <1>1
<1>5. \A m : (Serialized(table[m]))' <=> Serialized(table[m])
  BY <1>1 DEF Serialized
<1>6. \A m : Printed(table[m])' = Printed(table[m])
  BY <1>1 DEF Printed, Entry
<1>7. CASE ~Serialized(table[at])
  <2>1. sent' = sent
    BY <1>7 DEF SendHeader
  <2> QED
    BY <1>1, <1>2, <1>3, <1>5, <1>6, <1>7, <2>1 DEF Out
<1>8. CASE Serialized(table[at])
  <2> DEFINE L == Len(sent)
  <2>1. sent' = Append(sent, Printed(table[at])) /\ Printed(table[at]) \in EntryType
    BY <1>1, <1>8, PrintedType DEF SendHeader
  <2>2. /\ L \in Nat /\ DOMAIN sent = 1 .. L /\ DOMAIN sent' = 1 .. L + 1
        /\ \A j \in 1 .. L : sent'[j] = sent[j]
        /\ sent'[L + 1] = Printed(table[at])
    BY <1>1, <2>1, AppendProperties, LenProperties
  <2> HIDE DEF L
  <2>3. /\ \A j \in DOMAIN sent' : j \in DOMAIN sent \/ j = L + 1
        /\ \A j \in DOMAIN sent : j \in DOMAIN sent' /\ j < L + 1 /\ sent'[j] = sent[j]
        /\ L + 1 \in DOMAIN sent'
    BY <2>2
  <2>4. \A j \in DOMAIN sent' : \E m \in 1 .. at' - 1 : sent'[j] = Printed(table[m])
    BY <1>3, <1>4, <2>2, <2>3 DEF Out
  <2>5. \A m \in 1 .. at' - 1 : Serialized(table[m]) =>
          \E j \in DOMAIN sent' : sent'[j] = Printed(table[m])
    BY <1>1, <1>2, <2>2, <2>3 DEF Out
  <2>6. ASSUME NEW j \in DOMAIN sent', NEW l \in DOMAIN sent', j < l
        PROVE  \E m, q \in 1 .. at' - 1 :
                 m < q /\ sent'[j] = Printed(table[m]) /\ sent'[l] = Printed(table[q])
    <3>1. CASE l \in DOMAIN sent
      <4>1. j \in DOMAIN sent
        BY <2>2, <2>6, <3>1
      <4>2. PICK m \in 1 .. at - 1, q \in 1 .. at - 1 :
              m < q /\ sent[j] = Printed(table[m]) /\ sent[l] = Printed(table[q])
        BY <2>6, <3>1, <4>1 DEF Out
      <4> QED
        BY <1>3, <2>3, <3>1, <4>1, <4>2
    <3>2. CASE l = L + 1
      <4>1. j \in DOMAIN sent
        BY <2>2, <2>6, <3>2
      <4>2. PICK m \in 1 .. at - 1 : sent[j] = Printed(table[m])
        BY <4>1 DEF Out
      <4>3. m \in 1 .. at' - 1 /\ m < at /\ sent'[j] = Printed(table[m]) /\ sent'[l] = Printed(table[at])
        BY <1>3, <2>2, <2>3, <3>2, <4>1, <4>2
      <4> QED
        BY <1>4, <4>3
    <3> QED
      BY <2>3, <3>1, <3>2
  <2> QED
    BY <1>1, <1>5, <1>6, <2>4, <2>5, <2>6 DEF Out
<1> QED
  BY <1>7, <1>8

LEMMA OutRest == Inv /\ Out /\ Inv' /\ (Serialize \/ SendDone \/ UNCHANGED vars) => Out'
<1> SUFFICES ASSUME Inv, Out, Inv', Serialize \/ SendDone \/ UNCHANGED vars PROVE Out'
  OBVIOUS
<1>1. CASE Serialize
  <2>1. pc = "op" /\ sent' = sent /\ at' = 1 /\ pc' \in {"send", "closed"}
    BY <1>1 DEF Serialize
  <2>2. sent' = <<>> /\ DOMAIN sent' = {}
    BY <2>1, EmptySeq DEF Out
  <2> QED
    BY <2>1, <2>2 DEF Out
<1>2. CASE SendDone
  BY <1>2 DEF SendDone, Out, Printed, Entry, Serialized
<1>3. CASE UNCHANGED vars
  BY <1>3 DEF vars, Out, Printed, Entry, Serialized
<1> QED
  BY <1>1, <1>2, <1>3

Whole == Inv /\ RoomInv /\ Out

LEMMA WholeInvariance == Spec => []Whole
<1>1. Init => Whole
  <2> SUFFICES ASSUME Init PROVE Whole
    OBVIOUS
  <2>1. sent = <<>> /\ DOMAIN sent = {} /\ pc = "config"
    BY EmptySeq DEF Init
  <2>2. Out
    BY <2>1 DEF Out
  <2> QED
    BY <2>2, InitInv, InitRoom DEF Whole
<1>2. Whole /\ [Next]_vars => Whole'
  <2> SUFFICES ASSUME Whole, [Next]_vars PROVE Whole'
    OBVIOUS
  <2>1. Inv'
    BY NextInv DEF Whole
  <2>2. RoomInv'
    BY ConfigRoom, SkipRoom, LoopRoom, RemoveRoom, EndRoom, SerializeRoom DEF Whole, Next
  <2>3. Out'
    BY <2>1, OutBefore, OutSend, OutRest DEF Whole, Next
  <2> QED
    BY <2>1, <2>2, <2>3 DEF Whole
<1> QED
  BY <1>1, <1>2, PTL DEF Spec

\* While there is something sent all operations are done, and every name that was set is settled.
LEMMA Finished ==
  ASSUME Whole, NEW j \in DOMAIN sent
  PROVE  /\ \A n \in SetNames : Settled(n)
         /\ \E m \in 1 .. at - 1 : m \in DOMAIN table /\ table[m] \in EntryType /\ sent[j] = Printed(table[m])
<1>1. pc \in {"send", "sent"}
  BY EmptySeq DEF Whole, Out
<1>2. k \in Nat /\ OpCount \in Nat /\ k > OpCount
  BY <1>1, OpFacts DEF Whole, Inv, TypeOK
<1>3. \A n \in SetNames : Settled(n)
  BY <1>2 DEF Whole, Inv, DoneSettled, SetNames
<1>4. Len(table) \in Nat /\ DOMAIN table = 1 .. Len(table) /\ at \in 0 .. Len(table) + 1
  BY LenProperties DEF Whole, Inv, TypeOK
<1>5. PICK m \in 1 .. at - 1 : sent[j] = Printed(table[m])
  BY DEF Whole, Out
<1>6. m \in DOMAIN table
  BY <1>4
<1>7. table[m] \in EntryType
  BY <1>4, <1>6, ElementOfSeq DEF Whole, Inv, TypeOK
<1> QED
  BY <1>3, <1>5, <1>6, <1>7

\* An entry sent whole has the same name in the table.
LEMMA SentName ==
  ASSUME Whole, NEW m \in DOMAIN table, table[m] \in EntryType, ~Cut(Printed(table[m])),
         Printed(table[m]).name \in SetNames
  PROVE  table[m].name = Printed(table[m]).name
<1>1. Printed(table[m]).by = table[m].by /\ Printed(table[m]).val = table[m].val
      /\ Printed(table[m]).name = CStr[table[m].name]
  BY DEF Printed, Entry
<1>2. CASE table[m].by = "client"
  <2>1. table[m].name = request[table[m].val]
    BY <1>2 DEF Whole, RoomInv, ClientEntries
  <2>2. table[m].name \in CNames
    BY <1>1, <1>2, <2>1 DEF Cut
  <2> QED
    BY <1>1, <2>2 DEF CNames
<1>3. CASE table[m].by # "client"
  <2>1. PICK i \in 5 .. k - 1 : Op(i).name = table[m].name
    BY <1>3 DEF Whole, RoomInv, Injections
  <2>2. custom \in Seq(CNames) /\ k \in 1 .. OpCount + 1 /\ OpCount \in Nat
    BY OpFacts DEF Whole, Inv, TypeOK
  <2>3. i \in 1 .. OpCount
    BY <2>2
  <2>4. Op(i).name \in CNames
    BY <2>2, <2>3, OpFacts DEF OpType
  <2> QED
    BY <1>1, <2>1, <2>4 DEF CNames
<1> QED
  BY <1>2, <1>3

\* Nothing of the client's goes out under a name that the gateway or the operator sets, but
\* for lines whose name has a NUL after it.
THEOREM ForgeriesRemoved == Spec => []NoForgedHeaders
<1>1. Whole => NoForgedHeaders
  <2> SUFFICES ASSUME Whole, NEW j \in DOMAIN sent, sent[j].by = "client", sent[j].name \in SetNames,
                      ~Cut(sent[j])
               PROVE  FALSE
    BY DEF NoForgedHeaders
  <2>1. PICK m \in DOMAIN table : table[m] \in EntryType /\ sent[j] = Printed(table[m])
    BY Finished
  <2>2. table[m].name = sent[j].name /\ table[m].by = "client"
    BY <2>1, SentName DEF Printed, Entry
  <2>3. Settled(sent[j].name)
    BY Finished
  <2> QED
    BY <2>2, <2>3 DEF Settled
<1> QED
  BY <1>1, WholeInvariance, PTL

\* Nor is a second header of that name sent, but for such lines.
THEOREM NoDuplicates == Spec => []OneOfEach
<1>1. Whole => OneOfEach
  <2> SUFFICES ASSUME Whole PROVE OneOfEach
    OBVIOUS
  <2>0. \A j, l \in DOMAIN sent : j # l => j < l \/ l < j
    <3>1. sent \in Seq(EntryType)
      BY DEF Whole, Inv, TypeOK
    <3> QED
      BY <3>1, LenProperties
  <2> SUFFICES ASSUME NEW j \in DOMAIN sent, NEW l \in DOMAIN sent, j < l,
                      sent[j].name = sent[l].name, sent[j].name \in SetNames,
                      ~Cut(sent[j]), ~Cut(sent[l])
               PROVE  FALSE
    BY <2>0 DEF OneOfEach
  <2>1. PICK m \in 1 .. at - 1, q \in 1 .. at - 1 :
          m < q /\ sent[j] = Printed(table[m]) /\ sent[l] = Printed(table[q])
    BY DEF Whole, Out
  <2>2. /\ m \in DOMAIN table /\ q \in DOMAIN table
        /\ table[m] \in EntryType /\ table[q] \in EntryType /\ m # q
    <3>1. Len(table) \in Nat /\ DOMAIN table = 1 .. Len(table) /\ at \in 0 .. Len(table) + 1
      BY LenProperties DEF Whole, Inv, TypeOK
    <3>2. m \in DOMAIN table /\ q \in DOMAIN table /\ m # q
      BY <2>1, <3>1
    <3> QED
      BY <3>1, <3>2, ElementOfSeq DEF Whole, Inv, TypeOK
  <2>3. table[m].name = sent[j].name /\ table[q].name = sent[j].name
    BY <2>1, <2>2, SentName
  <2>4. Settled(sent[j].name)
    BY Finished
  <2> QED
    BY <2>2, <2>3, <2>4 DEF Settled
<1> QED
  BY <1>1, WholeInvariance, PTL

\* All others that have a name reach the upstream in their order, whatever the hashes are.
THEOREM OthersPassedOn == Spec => []OthersKept
<1>1. Whole => OthersKept
  <2> SUFFICES ASSUME Whole, pc = "sent" PROVE OthersKept
    BY DEF OthersKept
  <2>1. Len(table) \in Nat /\ DOMAIN table = 1 .. Len(table) /\ at = Len(table) + 1
    BY LenProperties DEF Whole, Inv, TypeOK, Out
  <2>2. 1 .. at - 1 = DOMAIN table
    BY <2>1
  <2>3. ASSUME NEW p \in DOMAIN request, CStr[request[p]] \notin SetNames \cup {NoName}
        PROVE  \E j \in DOMAIN sent : sent[j] = Entry(CStr[request[p]], "client", p)
    <3>1. PICK m \in DOMAIN table : table[m] = Entry(request[p], "client", p)
      BY <2>3 DEF Whole, Inv, Kept
    <3>2. Serialized(table[m]) /\ Printed(table[m]) = Entry(CStr[request[p]], "client", p)
      BY <2>3, <3>1 DEF Serialized, Printed, Entry
    <3> QED
      BY <2>2, <3>2 DEF Whole, Out
  <2>4. ASSUME NEW j \in DOMAIN sent, NEW l \in DOMAIN sent, j < l, sent[l].by = "client"
        PROVE  sent[j].by = "client" /\ sent[j].val < sent[l].val
    <3>1. PICK m \in 1 .. at - 1, q \in 1 .. at - 1 :
            m < q /\ sent[j] = Printed(table[m]) /\ sent[l] = Printed(table[q])
      BY <2>4 DEF Whole, Out
    <3>2. \A h : Printed(table[h]).by = table[h].by /\ Printed(table[h]).val = table[h].val
      BY DEF Printed, Entry
    <3>3. table[q].by = "client"
      BY <2>4, <3>1, <3>2
    <3>4. m \in DOMAIN table /\ q \in DOMAIN table
      BY <2>2
    <3>5. table[m].by = "client" /\ table[m].val < table[q].val
      BY <3>1, <3>3, <3>4 DEF Whole, Inv, Ordered
    <3> QED
      BY <3>1, <3>2, <3>5
  <2> QED
    BY <2>3, <2>4 DEF OthersKept
<1> QED
  BY <1>1, WholeInvariance, PTL

\* nexus_http_rewrite_request ignores the result of nexus_headers_set, but a header it wants
\* is missing only if the lines that are passed on and the headers wanted do not all fit
\* into the table, whatever else collides with what in the hash.
THEOREM InjectedWithRoom == Spec => []InjectedIfRoom
<1>1. Whole => InjectedIfRoom
  <2> SUFFICES ASSUME Whole, pc = "sent", NEW n \in Wanted \ {NoName},
                      ~(Cardinality(Passing) + Cardinality(Wanted) > HeaderMax)
               PROVE  \E j \in DOMAIN sent : sent[j].name = n /\ sent[j].by # "client"
    BY DEF InjectedIfRoom, Passing
  <2> USE DEF Whole
  <2>1. TypeOK /\ custom \in Seq(CNames) /\ OpCount \in Nat /\ OpCount >= 10 /\ k \in Nat /\ k > OpCount
    BY OpFacts DEF Inv, TypeOK
  <2>2. Room
    <3>1. Cardinality(Passing) \in Nat /\ Cardinality(Wanted) \in Nat
      BY <2>1, WantedFinite, FS_CardinalityType
    <3> QED
      BY <3>1, SizesAssumption DEF Room
  <2>3. PICK i \in 1 .. OpCount : Sets(i) /\ Op(i).name = n
    <3>1. CASE \E j \in 1 .. OpCount : Op(j).kind = "set" /\ Op(j).name = n
      BY <3>1 DEF Sets
    <3>2. CASE HostNamed /\ n = FwdHost
      <4>1. 7 \in 1 .. OpCount /\ Op(7).name = FwdHost
        BY <2>1, SetFacts
      <4> QED
        BY <3>2, <4>1 DEF Sets
    <3> QED
      BY <3>1, <3>2 DEF Wanted
  <2>4. i \in 1 .. k - 1
    BY <2>1, <2>3
  <2>5. PICK j \in DOMAIN table : table[j].name = n
    BY <2>2, <2>3, <2>4 DEF RoomInv, Injected
  <2>6. Settled(n)
    BY <2>3, <2>4 DEF Inv, DoneSettled
  <2>7. table[j].by # "client"
    BY <2>5, <2>6 DEF Settled
  <2>8. Op(i).name \in CNames
    BY <2>1, <2>3, OpFacts DEF OpType
  <2>9. Serialized(table[j]) /\ Printed(table[j]).name = n /\ Printed(table[j]).by # "client"
    BY <2>3, <2>5, <2>7, <2>8 DEF Serialized, Printed, Entry, CNames
  <2>10. j \in 1 .. at - 1
    <3>1. Len(table) \in Nat /\ DOMAIN table = 1 .. Len(table) /\ at = Len(table) + 1
      BY <2>1, LenProperties DEF Inv, TypeOK, Out
    <3> QED
      BY <3>1
  <2> QED
    BY <2>9, <2>10 DEF Out
<1> QED
  BY <1>1, WholeInvariance, PTL
=============================================================================
