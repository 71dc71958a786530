------------------------- MODULE ProcessFds_proofs -------------------------
(***************************************************************************)
(* Proofs about ProcessFds, for every number of descriptors and slots and  *)
(* every threshold, without a bound on clients or probes that matters.     *)
(***************************************************************************)
EXTENDS ProcessFds, FiniteSetTheorems, SequenceTheorems, TLAPS

-----------------------------------------------------------------------------
(* The inductive invariant.                                                 *)

\* An upstream's socket belongs to a client's, a probe under way has its socket, and
\* only clients are lost.
Shape ==
  /\ \A s \in Slots : slot[s].u # 0 => slot[s].c # 0
  /\ hpc # "sleep" => hfd \in Fds
  /\ lost <= conns

\* What the loop is about to close is its own, and in no slot.
Leaving ==
  \A f \in Range(todo) :
    /\ file[f] \notin {Probe, Dropped}
    /\ \A s \in Slots : slot[s].c # f /\ slot[s].u # f
    /\ hpc # "sleep" => hfd # f

\* Every socket but those lost is in its slot, about to be closed, or the probe's.
Kept ==
  \A f \in Fds :
    /\ \A s \in Slots : /\ file[f] = Client(s) => slot[s].c = f \/ f \in Range(todo)
                        /\ file[f] = UpstreamOf(s) => slot[s].u = f \/ f \in Range(todo)
    /\ file[f] = Probe => hpc # "sleep" /\ hfd = f

Strays == {f \in Fds : file[f] = Dropped}

\* The causes known account for n failures, or for as many as matter.
Caused(n) == why.refused + why.full >= n \/ why.refused + why.full >= Threshold

\* A probe that has failed has its cause before it is counted.
Causes ==
  /\ Caused(fails)
  /\ hpc = "close" /\ ~hok => Caused(fails + 1)
  /\ ~healthy => Caused(Threshold)

Safe == Separate /\ Leaving /\ Kept /\ Cardinality(Strays) = lost /\ Causes

FdsInv == TypeOK /\ Shape /\ (~raced => Safe)

-----------------------------------------------------------------------------
(* Types.                                                                   *)

LEMMA SequenceFacts ==
  ASSUME todo \in Seq(Fds)
  PROVE  /\ Range(todo) \subseteq Fds
         /\ todo # <<>> => /\ Head(todo) \in Fds /\ Head(todo) \in Range(todo)
                           /\ Tail(todo) \in Seq(Fds) /\ Len(Tail(todo)) = Len(todo) - 1
                           /\ Range(Tail(todo)) \subseteq Range(todo)
                           /\ Range(todo) \subseteq {Head(todo)} \cup Range(Tail(todo))
         /\ Range(<<>>) = {}
<1>1. Range(todo) \subseteq Fds
  BY LenProperties DEF Range
<1>2. ASSUME todo # <<>>
      PROVE  /\ Head(todo) \in Fds /\ Head(todo) \in Range(todo)
             /\ Tail(todo) \in Seq(Fds) /\ Len(Tail(todo)) = Len(todo) - 1
             /\ Range(Tail(todo)) \subseteq Range(todo)
             /\ Range(todo) \subseteq {Head(todo)} \cup Range(Tail(todo))
  <2>1. Len(todo) \in Nat \ {0} /\ DOMAIN todo = 1 .. Len(todo)
    BY <1>2, EmptySeq, LenProperties
  <2>2. /\ Head(todo) = todo[1] /\ Head(todo) \in Fds
        /\ Tail(todo) \in Seq(Fds) /\ Len(Tail(todo)) = Len(todo) - 1
        /\ \A j \in 1 .. Len(Tail(todo)) : Tail(todo)[j] = todo[j + 1]
    BY <1>2, <2>1, HeadTailProperties
  <2>3. DOMAIN Tail(todo) = 1 .. Len(Tail(todo))
    BY <2>2, LenProperties
  <2>4. \A j \in DOMAIN Tail(todo) : j + 1 \in DOMAIN todo
    BY <2>1, <2>2, <2>3
  <2>5. ASSUME NEW i \in DOMAIN todo, i # 1
        PROVE  todo[i] \in Range(Tail(todo))
    <3>1. i - 1 \in DOMAIN Tail(todo) /\ Tail(todo)[i - 1] = todo[i]
      BY <2>1, <2>2, <2>3, <2>5
    <3> QED
      BY <3>1 DEF Range
  <2> QED
    BY <2>1, <2>2, <2>3, <2>4, <2>5 DEF Range
<1>3. Range(<<>>) = {}
  BY DEF Range
<1> QED
  BY <1>1, <1>2, <1>3

\* What the numbers to be closed are when a slot is given up.
LEMMA ClosingFacts ==
  ASSUME NEW u \in Fds, NEW c \in Fds
  PROVE  /\ <<c>> \in Seq(Fds) /\ Len(<<c>>) = 1 /\ Range(<<c>>) = {c}
         /\ <<u, c>> \in Seq(Fds) /\ Len(<<u, c>>) = 2 /\ Range(<<u, c>>) = {u, c}
         /\ <<u, c, u>> \in Seq(Fds) /\ Len(<<u, c, u>>) = 3 /\ Range(<<u, c, u>>) = {u, c}
BY DEF Range

\* The five kinds of descriptors are told apart.
LEMMA FilesFacts ==
  /\ Unused \in Files /\ Probe \in Files /\ Dropped \in Files
  /\ Unused # Probe /\ Unused # Dropped /\ Probe # Dropped
  /\ \A s \in Slots : /\ Client(s) \in Files /\ UpstreamOf(s) \in Files
                      /\ Client(s) \notin {Unused, Probe, Dropped}
                      /\ UpstreamOf(s) \notin {Unused, Probe, Dropped}
                      /\ \A r \in Slots : /\ Client(s) # UpstreamOf(r)
                                          /\ Client(s) = Client(r) => s = r
                                          /\ UpstreamOf(s) = UpstreamOf(r) => s = r
  /\ \A v \in Files : v \in {Unused, Probe, Dropped} \/ \E s \in Slots : v = Client(s) \/ v = UpstreamOf(s)
BY DEF Files, Unused, Probe, Dropped, Client, UpstreamOf

\* The ways a connection begins and ends, one at a time.
Watched(s, f) ==
  /\ f \in Fds /\ s \in Slots /\ Next1(f) /\ slot[s].c = 0 /\ slot[s].u = 0
  /\ slot' = [slot EXCEPT ![s].c = f] /\ file' = [file EXCEPT ![f] = Client(s)]
  /\ UNCHANGED lost

Stranded(f) ==
  /\ f \in Fds /\ Next1(f)
  /\ file' = [file EXCEPT ![f] = Dropped] /\ lost' = lost + 1
  /\ UNCHANGED slot

Connected(s, f) ==
  /\ Idle /\ slot[s].c # 0 /\ slot[s].u = 0
  /\ f \in Fds /\ Next1(f)
  /\ slot' = [slot EXCEPT ![s].u = f] /\ file' = [file EXCEPT ![f] = UpstreamOf(s)]
  /\ UNCHANGED <<todo, lost, conns, threadVars>>

GivenUp(s, fds) ==
  /\ Idle /\ slot[s].c \in Fds
  /\ fds \in Seq(Fds) /\ Len(fds) <= 3
  /\ Range(fds) = {slot[s].c, slot[s].u} \ {0}
  /\ Closing(s, fds)

LEMMA LoopSteps ==
  ASSUME TypeOK, Shape, Loop
  PROVE  \/ /\ Idle /\ conns < MaxConns /\ conns' = conns + 1 /\ UNCHANGED <<todo, threadVars>>
            /\ \E f \in Fds : Stranded(f) \/ \E s \in Slots : Watched(s, f)
         \/ CloseNext
         \/ \E s \in Slots : \E f \in Fds : Connected(s, f)
         \/ \E s \in Slots : \E fds \in Seq(Fds) : GivenUp(s, fds)
<1>1. CASE AcceptConn
  <2>1. \A s \in Slots : slot[s].c = 0 => slot[s].u = 0
    BY DEF Shape
  <2> QED
    BY <1>1, <2>1 DEF AcceptConn, Watched, Stranded
<1>2. CASE CloseNext
  BY <1>2
<1>3. ASSUME NEW s \in Slots, slot[s].c # 0, Idle,
             NEW fds, Closing(s, fds),
             \/ slot[s].u = 0 /\ fds = <<slot[s].c>>
             \/ slot[s].u # 0 /\ fds \in {<<slot[s].u, slot[s].c>>, <<slot[s].u, slot[s].c, slot[s].u>>}
      PROVE  fds \in Seq(Fds) /\ GivenUp(s, fds)
  <2>1. slot[s].c \in Fds /\ (slot[s].u \in Fds \/ slot[s].u = 0) /\ 0 \notin Fds
    BY <1>3, FdsAssumption DEF TypeOK
  <2>2. CASE slot[s].u = 0
    <3>1. fds = <<slot[s].c>> /\ {slot[s].c, slot[s].u} \ {0} = {slot[s].c}
      BY <1>3, <2>1, <2>2
    <3>2. <<slot[s].c>> \in Seq(Fds) /\ Len(<<slot[s].c>>) = 1 /\ Range(<<slot[s].c>>) = {slot[s].c}
      BY <2>1, ClosingFacts
    <3> QED
      BY <1>3, <2>1, <3>1, <3>2 DEF GivenUp
  <2>3. CASE slot[s].u # 0
    <3>1. {slot[s].c, slot[s].u} \ {0} = {slot[s].u, slot[s].c} /\ slot[s].u \in Fds
      BY <1>3, <2>1, <2>3
    <3>2. fds \in Seq(Fds) /\ Len(fds) <= 3 /\ Range(fds) = {slot[s].u, slot[s].c}
      <4> DEFINE u == slot[s].u
                 c == slot[s].c
      <4>1. fds \in {<<u, c>>, <<u, c, u>>} /\ u \in Fds /\ c \in Fds
        BY <1>3, <2>1, <2>3
      <4> HIDE DEF u, c
      <4>2. /\ <<u, c>> \in Seq(Fds) /\ Len(<<u, c>>) = 2 /\ Range(<<u, c>>) = {u, c}
            /\ <<u, c, u>> \in Seq(Fds) /\ Len(<<u, c, u>>) = 3 /\ Range(<<u, c, u>>) = {u, c}
        BY <4>1, ClosingFacts
      <4>3. CASE fds = <<u, c>>
        BY <4>2, <4>3 DEF u, c
      <4>4. CASE fds = <<u, c, u>>
        BY <4>2, <4>4 DEF u, c
      <4> QED
        BY <4>1, <4>3, <4>4
    <3> QED
      BY <1>3, <2>1, <3>1, <3>2 DEF GivenUp
  <2> QED
    BY <2>2, <2>3
<1>4. ASSUME NEW s \in Slots, ConnectUpstream(s)
      PROVE  (\E f \in Fds : Connected(s, f)) \/ (\E fds \in Seq(Fds) : GivenUp(s, fds))
  <2>1. CASE \E f \in Fds : Connected(s, f)
    BY <2>1
  <2>2. CASE Closing(s, <<slot[s].c>>)
    BY <1>3, <1>4, <2>2 DEF ConnectUpstream
  <2> QED
    BY <1>4, <2>1, <2>2 DEF ConnectUpstream, Connected
<1>5. ASSUME NEW s \in Slots, EndClient(s) \/ EndUpstream(s) \/ EndError(s)
      PROVE  \E fds \in Seq(Fds) : GivenUp(s, fds)
  <2>1. CASE EndClient(s)
    BY <1>3, <2>1 DEF EndClient
  <2>2. CASE EndUpstream(s)
    BY <1>3, <2>2 DEF EndUpstream, Shape
  <2>3. CASE EndError(s)
    BY <1>3, <2>3 DEF EndError, Shape
  <2> QED
    BY <1>5, <2>1, <2>2, <2>3
<1> QED
  BY <1>1, <1>2, <1>4, <1>5 DEF Loop

\* The two outcomes of the thread's socket().
SocketMade(f) ==
  /\ hpc = "sleep" /\ f \in Fds /\ Next1(f)
  /\ file' = [file EXCEPT ![f] = Probe]
  /\ hfd' = f /\ hpc' = "connect"
  /\ raced' = (raced \/ f \in Range(todo))
  /\ UNCHANGED <<fails, healthy, why, loopVars, hok, refusals>>

NoSocket ==
  /\ hpc = "sleep" /\ Free = {} /\ Stored(FALSE)
  /\ why' = [why EXCEPT !.full = IF @ < Threshold THEN @ + 1 ELSE @]
  /\ UNCHANGED <<file, hfd, hpc, raced, loopVars, hok, refusals>>

\* A cause counted keeps its range, and adds one to the two or has reached Threshold.
LEMMA CountsUp ==
  ASSUME TypeOK, NEW w,
         \/ w = [why EXCEPT !.full = IF @ < Threshold THEN @ + 1 ELSE @]
         \/ w = [why EXCEPT !.refused = IF @ < Threshold THEN @ + 1 ELSE @]
  PROVE  /\ w \in [refused : 0 .. Threshold, full : 0 .. Threshold]
         /\ w.refused + w.full >= why.refused + why.full
         /\ w.refused + w.full = why.refused + why.full + 1 \/ w.refused + w.full >= Threshold
<1>1. why \in [refused : 0 .. Threshold, full : 0 .. Threshold] /\ Threshold \in Nat
  BY SizesAssumption DEF TypeOK
<1>2. why.refused \in 0 .. Threshold /\ why.full \in 0 .. Threshold
  BY <1>1
<1>3. CASE w = [why EXCEPT !.full = IF @ < Threshold THEN @ + 1 ELSE @]
  <2>1. /\ w.refused = why.refused /\ w.full = IF why.full < Threshold THEN why.full + 1 ELSE why.full
        /\ w = [refused |-> w.refused, full |-> w.full]
    BY <1>1, <1>3
  <2>2. w.full \in 0 .. Threshold
    BY <1>1, <1>2, <2>1
  <2> QED
    BY <1>1, <1>2, <2>1, <2>2
<1>4. CASE w = [why EXCEPT !.refused = IF @ < Threshold THEN @ + 1 ELSE @]
  <2>1. /\ w.full = why.full /\ w.refused = IF why.refused < Threshold THEN why.refused + 1 ELSE why.refused
        /\ w = [refused |-> w.refused, full |-> w.full]
    BY <1>1, <1>4
  <2>2. w.refused \in 0 .. Threshold
    BY <1>1, <1>2, <2>1
  <2> QED
    BY <1>1, <1>2, <2>1, <2>2
<1> QED
  BY <1>3, <1>4

LEMMA StoredTypes ==
  ASSUME TypeOK, NEW ok, Stored(ok)
  PROVE  fails' \in 0 .. Threshold /\ healthy' \in BOOLEAN
<1>1. healthy' \in BOOLEAN
  BY Zenon DEF Stored
<1>2. fails' = 0 \/ fails' = IF fails < Threshold THEN fails + 1 ELSE fails
  BY Zenon DEF Stored
<1>3. fails' \in 0 .. Threshold
  BY <1>2, SizesAssumption DEF TypeOK
<1> QED
  BY <1>1, <1>3

LEMMA TypeStep ==
  ASSUME TypeOK, Shape, [Next]_vars
  PROVE  TypeOK' /\ Shape'
<1> USE FdsAssumption, SizesAssumption, BoundsAssumption DEF TypeOK, Shape
<1>1. ASSUME conns < MaxConns, conns' = conns + 1, UNCHANGED <<todo, threadVars>>,
             NEW f \in Fds, Stranded(f)
      PROVE  TypeOK' /\ Shape'
  BY <1>1, FilesFacts DEF Stranded, threadVars
<1>2. ASSUME conns < MaxConns, conns' = conns + 1, UNCHANGED <<todo, threadVars>>,
             NEW f \in Fds, NEW s \in Slots, Watched(s, f)
      PROVE  TypeOK' /\ Shape'
  <2>1. file' \in [Fds -> Files]
    BY <1>2, FilesFacts DEF Watched
  <2> QED
    BY <1>2, <2>1, SMTT(30) DEF Watched, threadVars
<1>3. ASSUME NEW s \in Slots, NEW f \in Fds, Connected(s, f)
      PROVE  TypeOK' /\ Shape'
  <2>1. file' \in [Fds -> Files]
    BY <1>3, FilesFacts DEF Connected
  <2> QED
    BY <1>3, <2>1, ZenonT(60) DEF Connected, threadVars
<1>4. ASSUME NEW s \in Slots, NEW fds \in Seq(Fds), GivenUp(s, fds)
      PROVE  TypeOK' /\ Shape'
  BY <1>4 DEF GivenUp, Closing, threadVars, NoSlot
<1>5. CASE CloseNext
  <2>1. file' \in [Fds -> Files]
    BY <1>5, FilesFacts DEF CloseNext
  <2>2. todo' \in Seq(Fds) /\ Len(todo') <= 3
    BY <1>5, SequenceFacts, LenProperties DEF CloseNext
  <2> QED
    BY <1>5, <2>1, <2>2 DEF CloseNext, threadVars
<1>6. CASE ProbeSocket
  <2>1. ASSUME NEW f \in Fds, SocketMade(f)
        PROVE  TypeOK' /\ Shape'
    <3>1. file' \in [Fds -> Files]
      BY <2>1, FilesFacts DEF SocketMade
    <3>2. raced' \in BOOLEAN
      BY <2>1 DEF SocketMade
    <3> QED
      BY <2>1, <3>1, <3>2 DEF SocketMade, loopVars
  <2>2. CASE NoSocket
    <3>1. why' \in [refused : 0 .. Threshold, full : 0 .. Threshold]
      BY <2>2, CountsUp DEF NoSocket
    <3>2. fails' \in 0 .. Threshold /\ healthy' \in BOOLEAN
      BY <2>2, StoredTypes DEF NoSocket
    <3> QED
      BY <2>2, <3>1, <3>2 DEF NoSocket, loopVars
  <2> QED
    BY <1>6, <2>1, <2>2 DEF ProbeSocket, SocketMade, NoSocket
<1>7. CASE ProbeConnect
  <2>1. why' \in [refused : 0 .. Threshold, full : 0 .. Threshold] /\ refusals' \in 0 .. MaxRefusals
    <3>1. CASE UNCHANGED <<why, refusals>>
      BY <3>1
    <3>2. CASE /\ refusals < MaxRefusals /\ refusals' = refusals + 1
               /\ why' = [why EXCEPT !.refused = IF @ < Threshold THEN @ + 1 ELSE @]
      <4>1. why' \in [refused : 0 .. Threshold, full : 0 .. Threshold]
        BY <3>2, CountsUp
      <4> QED
        BY <3>2, <4>1, SMTT(30)
    <3> QED
      BY <1>7, <3>1, <3>2 DEF ProbeConnect
  <2>2. hok' \in BOOLEAN
    <3>1. \/ hok' = TRUE \/ hok' = FALSE
          \/ hok' = (file[hfd] \in {UpstreamOf(s) : s \in Slots})
      BY <1>7 DEF ProbeConnect
    <3>2. ASSUME NEW S, hok' = (file[hfd] \in S)
          PROVE  hok' \in BOOLEAN
      BY ONLY <3>2
    <3> QED
      BY <3>1, <3>2
  <2> QED
    BY <1>7, <2>1, <2>2 DEF ProbeConnect, loopVars
<1>8. CASE ProbeClose
  <2>1. why' \in [refused : 0 .. Threshold, full : 0 .. Threshold]
    BY <1>8 DEF ProbeClose, NoFails
  <2>2. file' \in [Fds -> Files]
    BY <1>8, FilesFacts DEF ProbeClose
  <2>3. fails' \in 0 .. Threshold /\ healthy' \in BOOLEAN
    BY <1>8, StoredTypes DEF ProbeClose
  <2> QED
    BY <1>8, <2>1, <2>2, <2>3 DEF ProbeClose, loopVars
<1>10. CASE UNCHANGED vars
  BY <1>10 DEF vars, loopVars, threadVars
<1>11. CASE Loop
  BY <1>1, <1>2, <1>3, <1>4, <1>5, <1>11, LoopSteps
<1> QED
  BY <1>6, <1>7, <1>8, <1>10, <1>11 DEF Next, Thread

-----------------------------------------------------------------------------
(* Safe, as long as the threads have not raced: one lemma for each step.     *)

\* A number the kernel gives out is in no slot and not the probe's.
LEMMA FreshFacts ==
  ASSUME TypeOK, Separate, ~raced, NEW f \in Fds, Next1(f)
  PROVE  /\ file[f] = Unused /\ f # 0
         /\ \A s \in Slots : slot[s].c # f /\ slot[s].u # f
         /\ hpc # "sleep" => hfd # f
<1>1. file[f] = Unused /\ f # 0
  BY FdsAssumption DEF Next1, Free
<1> QED
  BY <1>1, FilesFacts DEF Separate

\* The numbers the loop and the thread remember are numbers of the table.
LEMMA Remembered ==
  ASSUME TypeOK, Shape
  PROVE  /\ \A s \in Slots : /\ slot[s].c # 0 => slot[s].c \in Fds
                             /\ slot[s].u # 0 => slot[s].u \in Fds
         /\ hpc # "sleep" => hfd \in Fds
         /\ Range(todo) \subseteq Fds
BY SequenceFacts DEF TypeOK, Shape

\* What is given out and is not lost, or freed and was not, leaves the lost as they are.
LEMMA StraysKept ==
  ASSUME TypeOK, NEW f \in Fds, NEW v, file[f] # Dropped, v # Dropped,
         file' = [file EXCEPT ![f] = v]
  PROVE  Strays' = Strays
BY DEF Strays, TypeOK

LEMMA StraysFinite == IsFiniteSet(Strays)
BY FdsAssumption, FS_Subset DEF Strays

LEMMA StrandedSafe ==
  ASSUME TypeOK, Shape, Safe, ~raced, Idle, UNCHANGED <<todo, threadVars>>, NEW f \in Fds, Stranded(f)
  PROVE  Safe'
<1> USE DEF threadVars
<1>0. Range(todo) = {} /\ ~raced' /\ todo' = todo /\ slot' = slot
  BY SequenceFacts DEF TypeOK, Idle, Stranded
<1>1. /\ file[f] = Unused /\ f # 0
      /\ \A s \in Slots : slot[s].c # f /\ slot[s].u # f
      /\ hpc # "sleep" => hfd # f
  BY FreshFacts DEF Safe, Stranded
<1>2. \A g \in Fds : file'[g] = IF g = f THEN Dropped ELSE file[g]
  BY DEF Stranded, TypeOK
<1>3. Separate'
  BY <1>0, <1>1, <1>2, Remembered DEF Safe, Separate
<1>4. Leaving'
  BY <1>0 DEF Leaving
<1>5. Kept'
  BY <1>0, <1>1, <1>2, FilesFacts DEF Safe, Kept
<1>6. Cardinality(Strays') = lost'
  <2>1. Strays' = Strays \cup {f} /\ f \notin Strays
    BY <1>1, <1>2, FilesFacts DEF Strays
  <2>2. Cardinality(Strays \cup {f}) = Cardinality(Strays) + 1
    BY <2>1, StraysFinite, FS_AddElement
  <2> QED
    BY <2>1, <2>2 DEF Safe, Stranded
<1>7. Causes'
  BY DEF Safe, Causes, Caused
<1> QED
  BY <1>3, <1>4, <1>5, <1>6, <1>7 DEF Safe

LEMMA WatchedSafe ==
  ASSUME TypeOK, Shape, Safe, ~raced, Idle, UNCHANGED <<todo, threadVars>>,
         NEW f \in Fds, NEW s \in Slots, Watched(s, f)
  PROVE  Safe'
<1> USE DEF threadVars
<1>0. Range(todo) = {} /\ ~raced' /\ todo' = todo
  BY SequenceFacts DEF TypeOK, Idle
<1>1. /\ file[f] = Unused /\ f # 0
      /\ \A r \in Slots : slot[r].c # f /\ slot[r].u # f
      /\ hpc # "sleep" => hfd # f
  BY FreshFacts DEF Safe, Watched
<1>2. \A g \in Fds : file'[g] = IF g = f THEN Client(s) ELSE file[g]
  BY DEF Watched, TypeOK
<1>a. \A r \in Slots : /\ slot'[r].c = IF r = s THEN f ELSE slot[r].c
                       /\ slot'[r].u = slot[r].u
  BY DEF Watched, TypeOK
<1>3. Separate'
  BY <1>0, <1>1, <1>2, <1>a, Remembered DEF Safe, Separate
<1>4. Leaving'
  BY <1>0 DEF Leaving
<1>5. Kept'
  <2>1. slot[s].c = 0 /\ slot[s].u = 0 /\ 0 \notin Fds
    BY FdsAssumption DEF Watched
  <2> QED
    BY <1>0, <1>1, <1>2, <1>a, <2>1, FilesFacts DEF Safe, Kept
<1>6. Cardinality(Strays') = lost'
  BY <1>1, FilesFacts, StraysKept DEF Safe, Watched
<1>7. Causes'
  BY DEF Safe, Causes, Caused
<1> QED
  BY <1>3, <1>4, <1>5, <1>6, <1>7 DEF Safe

LEMMA ConnectedSafe ==
  ASSUME TypeOK, Shape, Safe, ~raced, NEW f \in Fds, NEW s \in Slots, Connected(s, f)
  PROVE  Safe'
<1> USE DEF threadVars
<1>0. Range(todo) = {} /\ ~raced' /\ todo' = todo
  BY SequenceFacts DEF TypeOK, Idle, Connected
<1>1. /\ file[f] = Unused /\ f # 0
      /\ \A r \in Slots : slot[r].c # f /\ slot[r].u # f
      /\ hpc # "sleep" => hfd # f
  BY FreshFacts DEF Safe, Connected
<1>2. \A g \in Fds : file'[g] = IF g = f THEN UpstreamOf(s) ELSE file[g]
  BY DEF Connected, TypeOK
<1>a. \A r \in Slots : /\ slot'[r].u = IF r = s THEN f ELSE slot[r].u
                       /\ slot'[r].c = slot[r].c
  BY DEF Connected, TypeOK
<1>b. hpc' = hpc /\ hfd' = hfd /\ lost' = lost
  BY DEF Connected
<1>3. Separate'
  BY <1>0, <1>1, <1>2, <1>a, <1>b, Remembered DEF Safe, Separate
<1>4. Leaving'
  BY <1>0 DEF Leaving
<1>5. Kept'
  <2>1. slot[s].u = 0 /\ 0 \notin Fds
    BY FdsAssumption DEF Connected
  <2> QED
    BY <1>0, <1>1, <1>2, <1>a, <1>b, <2>1, FilesFacts DEF Safe, Kept
<1>6. Cardinality(Strays') = lost'
  BY <1>1, <1>b, FilesFacts, StraysKept DEF Safe, Connected
<1>7. Causes'
  BY DEF Safe, Causes, Caused, Connected
<1> QED
  BY <1>3, <1>4, <1>5, <1>6, <1>7 DEF Safe

LEMMA GivenUpSafe ==
  ASSUME TypeOK, Shape, Safe, ~raced, NEW s \in Slots, NEW fds \in Seq(Fds), GivenUp(s, fds)
  PROVE  Safe'
<1> USE DEF threadVars
<1>0. /\ ~raced' /\ file' = file /\ hpc' = hpc /\ hfd' = hfd /\ lost' = lost
      /\ Range(todo') = {slot[s].c, slot[s].u} \ {0} /\ Range(todo) = {}
  BY SequenceFacts DEF GivenUp, Closing, Idle, TypeOK
<1>a. \A r \in Slots : /\ slot'[r].c = IF r = s THEN 0 ELSE slot[r].c
                       /\ slot'[r].u = IF r = s THEN 0 ELSE slot[r].u
  BY DEF GivenUp, Closing, NoSlot, TypeOK
<1>3. Separate'
  BY <1>0, <1>a, FilesFacts DEF Safe, Separate
<1>4. Leaving'
  BY <1>0, <1>a, FilesFacts DEF Safe, Separate, Leaving
<1>5. Kept'
  <2>1. 0 \notin Fds
    BY FdsAssumption
  <2> QED
    BY <1>0, <1>a, <2>1 DEF Safe, Kept
<1>6. Cardinality(Strays') = lost'
  BY <1>0 DEF Safe, Strays
<1>7. Causes'
  BY DEF Safe, Causes, Caused, GivenUp, Closing
<1> QED
  BY <1>3, <1>4, <1>5, <1>6, <1>7 DEF Safe

LEMMA CloseSafe ==
  ASSUME TypeOK, Shape, Safe, ~raced, CloseNext
  PROVE  Safe'
<1> DEFINE h == Head(todo)
<1>0. /\ ~raced' /\ slot' = slot /\ hpc' = hpc /\ hfd' = hfd /\ lost' = lost
      /\ todo' = Tail(todo)
  BY DEF CloseNext, threadVars
<1>1. /\ h \in Fds /\ h \in Range(todo) /\ Range(todo') \subseteq Range(todo)
      /\ Range(todo) \subseteq {h} \cup Range(todo')
  BY SequenceFacts DEF TypeOK, CloseNext
<1> HIDE DEF h
<1>2. \A g \in Fds : file'[g] = IF g = h THEN Unused ELSE file[g]
  BY DEF CloseNext, TypeOK, h
<1>3. file[h] \notin {Probe, Dropped} /\ (hpc # "sleep" => hfd # h)
      /\ \A s \in Slots : slot[s].c # h /\ slot[s].u # h
  BY <1>1 DEF Safe, Leaving
<1>4. Range(todo) \subseteq Fds
  BY SequenceFacts DEF TypeOK
<1>5. Separate'
  BY <1>0, <1>1, <1>2, <1>3, FilesFacts, Remembered DEF Safe, Separate
<1>6. Leaving'
  BY <1>0, <1>1, <1>2, <1>4, FilesFacts DEF Safe, Leaving
<1>7. Kept'
  BY <1>0, <1>1, <1>2, FilesFacts DEF Safe, Kept
<1>8. Cardinality(Strays') = lost'
  BY <1>0, <1>1, <1>3, FilesFacts, StraysKept DEF Safe, CloseNext, h
<1>9. Causes'
  BY DEF Safe, Causes, Caused, CloseNext, threadVars
<1> QED
  BY <1>5, <1>6, <1>7, <1>8, <1>9 DEF Safe

LEMMA SocketMadeSafe ==
  ASSUME TypeOK, Shape, Safe, ~raced', NEW f \in Fds, SocketMade(f)
  PROVE  Safe'
<1>0. /\ ~raced /\ slot' = slot /\ todo' = todo /\ lost' = lost
      /\ hpc' = "connect" /\ hfd' = f /\ f \notin Range(todo)
  BY DEF SocketMade, loopVars
<1>1. /\ file[f] = Unused /\ f # 0
      /\ \A s \in Slots : slot[s].c # f /\ slot[s].u # f
  BY <1>0, FreshFacts DEF Safe, SocketMade
<1>2. \A g \in Fds : file'[g] = IF g = f THEN Probe ELSE file[g]
  BY DEF SocketMade, TypeOK
<1>3. Range(todo) \subseteq Fds
  BY SequenceFacts DEF TypeOK
<1>4. Separate'
  BY <1>0, <1>1, <1>2, <1>3, FilesFacts, Remembered DEF Safe, Separate
<1>5. Leaving'
  BY <1>0, <1>2, <1>3 DEF Safe, Leaving
<1>6. Kept'
  BY <1>0, <1>1, <1>2, FilesFacts DEF Safe, Kept, SocketMade
<1>7. Cardinality(Strays') = lost'
  BY <1>0, <1>1, FilesFacts, StraysKept DEF Safe, SocketMade
<1>8. Causes'
  BY <1>0 DEF Safe, Causes, Caused, SocketMade
<1> QED
  BY <1>4, <1>5, <1>6, <1>7, <1>8 DEF Safe

\* What a probe's end stores has its causes if the probe had one.
LEMMA StoredCauses ==
  ASSUME TypeOK, Causes, NEW ok \in BOOLEAN, Stored(ok), NEW n \in Nat,
         n = why'.refused + why'.full, hpc' = "sleep",
         ~ok => /\ n >= fails + 1 \/ n >= Threshold
                /\ n >= why.refused + why.full \/ n >= Threshold
  PROVE  Causes'
<1> USE SizesAssumption DEF TypeOK, Causes, Caused
<1>1. CASE ok
  BY <1>1 DEF Stored
<1>2. CASE ~ok
  <2>1. fails' = IF fails < Threshold THEN fails + 1 ELSE fails
    BY <1>2 DEF Stored
  <2>2. ~healthy' => ~healthy \/ fails' >= Threshold
    BY <1>2, <2>1 DEF Stored
  <2>3. n >= fails' \/ n >= Threshold
    BY <1>2, <2>1
  <2>4. ~healthy' => n >= Threshold
    BY <1>2, <2>1, <2>2
  <2> QED
    BY <2>3, <2>4
<1> QED
  BY <1>1, <1>2

LEMMA WhySum ==
  ASSUME NEW w \in [refused : 0 .. Threshold, full : 0 .. Threshold]
  PROVE  w.refused + w.full \in Nat
BY SizesAssumption

LEMMA NoSocketSafe ==
  ASSUME TypeOK, TypeOK', Safe, ~raced, NoSocket
  PROVE  Safe'
<1>1. /\ file' = file /\ hpc' = hpc /\ hfd' = hfd /\ slot' = slot /\ todo' = todo
      /\ lost' = lost /\ ~raced' /\ hpc = "sleep"
  BY DEF NoSocket, loopVars
<1>2. Separate' /\ Leaving' /\ Kept' /\ Cardinality(Strays') = lost'
  BY <1>1 DEF Safe, Separate, Leaving, Kept, Strays
<1>3. why'.refused + why'.full \in Nat /\ why.refused + why.full \in Nat
  BY WhySum DEF TypeOK
<1>4. /\ why'.refused + why'.full >= why.refused + why.full
      /\ \/ why'.refused + why'.full = why.refused + why.full + 1
         \/ why'.refused + why'.full >= Threshold
  BY CountsUp DEF NoSocket
<1>5. why.refused + why.full >= fails \/ why.refused + why.full >= Threshold
  BY DEF Safe, Causes, Caused
<1>6. why'.refused + why'.full >= fails + 1 \/ why'.refused + why'.full >= Threshold
  <2>1. fails \in Nat /\ Threshold \in Nat
    BY SizesAssumption DEF TypeOK
  <2> QED
    BY <1>3, <1>4, <1>5, <2>1
<1>7. Causes'
  <2>1. Stored(FALSE)
    BY Zenon DEF NoSocket
  <2>2. Causes /\ hpc' = "sleep"
    BY <1>1 DEF Safe
  <2> DEFINE n == why'.refused + why'.full
  <2>3. n \in Nat
    BY <1>3
  <2>4. n >= fails + 1 \/ n >= Threshold
    BY <1>6
  <2>5. n >= why.refused + why.full \/ n >= Threshold
    BY <1>4
  <2> QED
    BY <2>1, <2>2, <2>3, <2>4, <2>5, StoredCauses, Zenon
<1> QED
  BY <1>2, <1>7 DEF Safe

LEMMA ProbeConnectSafe ==
  ASSUME TypeOK, TypeOK', Safe, ~raced, ProbeConnect
  PROVE  Safe'
<1>1. /\ file' = file /\ hpc = "connect" /\ hpc' = "close" /\ hfd' = hfd /\ slot' = slot
      /\ todo' = todo /\ lost' = lost /\ ~raced' /\ fails' = fails /\ healthy' = healthy
  BY DEF ProbeConnect, loopVars
<1>2. Separate' /\ Leaving' /\ Kept' /\ Cardinality(Strays') = lost'
  BY <1>1 DEF Safe, Separate, Leaving, Kept, Strays
<1>3. Causes'
  <2>1. file[hfd] = Probe
    BY <1>1 DEF Safe, Separate
  <2>2. CASE hok' = TRUE /\ why' = why
    BY <1>1, <2>2 DEF Safe, Causes, Caused
  <2>3. CASE why' = [why EXCEPT !.refused = IF @ < Threshold THEN @ + 1 ELSE @]
    <3>1. /\ why'.refused + why'.full >= why.refused + why.full
          /\ \/ why'.refused + why'.full = why.refused + why.full + 1
             \/ why'.refused + why'.full >= Threshold
      BY <2>3, CountsUp
    <3>2. /\ why.refused + why.full >= fails \/ why.refused + why.full >= Threshold
          /\ ~healthy => why.refused + why.full >= Threshold
      BY DEF Safe, Causes, Caused
    <3>3. why'.refused + why'.full \in Nat /\ why.refused + why.full \in Nat
      BY WhySum DEF TypeOK
    <3>4. fails \in Nat /\ Threshold \in Nat
      BY SizesAssumption DEF TypeOK
    <3>5. \/ why'.refused + why'.full >= fails + 1
          \/ why'.refused + why'.full >= Threshold
      BY <3>1, <3>2, <3>3, <3>4
    <3>6. ~healthy => why'.refused + why'.full >= Threshold
      BY <3>1, <3>2, <3>3, <3>4
    <3> QED
      BY <1>1, <3>3, <3>4, <3>5, <3>6 DEF Causes, Caused
  <2> QED
    BY <2>1, <2>2, <2>3 DEF ProbeConnect
<1> QED
  BY <1>2, <1>3 DEF Safe

LEMMA ProbeCloseSafe ==
  ASSUME TypeOK, Shape, TypeOK', Safe, ~raced, ProbeClose
  PROVE  Safe'
<1>1. /\ hpc = "close" /\ hpc' = "sleep" /\ slot' = slot /\ todo' = todo /\ lost' = lost
      /\ ~raced' /\ hfd \in Fds /\ file[hfd] = Probe
  BY DEF ProbeClose, loopVars, Shape, Safe, Separate
<1>2. \A g \in Fds : file'[g] = IF g = hfd THEN Unused ELSE file[g]
  BY DEF ProbeClose, TypeOK
<1>3. Separate'
  BY <1>1, <1>2, FilesFacts, Remembered DEF Safe, Separate
<1>4. Leaving'
  BY <1>1, <1>2, Remembered DEF Safe, Leaving
<1>5. Kept'
  BY <1>1, <1>2, FilesFacts DEF Safe, Kept
<1>6. Cardinality(Strays') = lost'
  BY <1>1, FilesFacts, StraysKept DEF Safe, ProbeClose
<1>7. Causes'
  <2>1. why'.refused + why'.full \in Nat
    BY WhySum DEF TypeOK
  <2>2. ~hok => why'.refused + why'.full = why.refused + why.full
    BY DEF ProbeClose
  <2>3. Causes /\ Stored(hok) /\ hok \in BOOLEAN
    BY DEF Safe, ProbeClose, TypeOK
  <2>4. ~hok => \/ why.refused + why.full >= fails + 1
                \/ why.refused + why.full >= Threshold
    BY <1>1, <2>3 DEF Causes, Caused
  <2>5. why.refused + why.full \in Nat
    BY WhySum DEF TypeOK
  <2> QED
    BY <1>1, <2>1, <2>2, <2>3, <2>4, <2>5, StoredCauses
<1> QED
  BY <1>3, <1>4, <1>5, <1>6, <1>7 DEF Safe

-----------------------------------------------------------------------------
(* The invariant.                                                           *)

LEMMA InvInit == ASSUME Init PROVE FdsInv
<1> USE FdsAssumption, SizesAssumption, BoundsAssumption DEF Init
<1>1. TypeOK
  <2>1. <<>> \in Seq(Fds) /\ Len(<<>>) <= 3
    BY EmptySeq
  <2>2. /\ NoSlot \in [c : Fds \cup {0}, u : Fds \cup {0}]
        /\ NoFails \in [refused : 0 .. Threshold, full : 0 .. Threshold]
    BY DEF NoSlot, NoFails
  <2>3. file \in [Fds -> Files]
    BY FilesFacts
  <2>4. slot \in [Slots -> [c : Fds \cup {0}, u : Fds \cup {0}]]
    BY <2>2
  <2>5. fails \in 0 .. Threshold /\ lost \in 0 .. MaxConns /\ conns \in 0 .. MaxConns
        /\ refusals \in 0 .. MaxRefusals
    OBVIOUS
  <2>6. healthy \in BOOLEAN /\ raced \in BOOLEAN /\ hok \in BOOLEAN
    OBVIOUS
  <2> QED
    BY <2>1, <2>2, <2>3, <2>4, <2>5, <2>6 DEF TypeOK
<1>2. Shape
  BY DEF Shape, NoSlot
<1>3. Range(todo) = {} /\ Strays = {}
  BY FilesFacts DEF Range, Strays
<1>4. Separate /\ Leaving /\ Kept
  BY <1>3, FilesFacts DEF Separate, Leaving, Kept, NoSlot
<1>5. Cardinality(Strays) = lost
  BY <1>3, FS_EmptySet
<1>6. Causes
  BY DEF Causes, Caused, NoFails
<1> QED
  BY <1>1, <1>2, <1>4, <1>5, <1>6 DEF FdsInv, Safe

LEMMA InvStep == ASSUME FdsInv, [Next]_vars PROVE FdsInv'
<1>1. TypeOK /\ Shape /\ TypeOK' /\ Shape'
  BY TypeStep DEF FdsInv
<1>2. SUFFICES ASSUME ~raced' PROVE Safe'
  BY <1>1 DEF FdsInv
<1>3. CASE Loop
  <2>1. ~raced /\ Safe
    <3>1. raced' = raced
      BY <1>1, <1>3, LoopSteps DEF CloseNext, Connected, GivenUp, Closing, threadVars
    <3> QED
      BY <1>2, <3>1 DEF FdsInv
  <2> QED
    BY <1>1, <1>3, <2>1, LoopSteps, StrandedSafe, WatchedSafe, CloseSafe, ConnectedSafe, GivenUpSafe
<1>4. CASE ProbeSocket
  <2>1. ASSUME NEW f \in Fds, SocketMade(f)
        PROVE  Safe'
    <3>1. ~raced
      BY <1>2, <2>1 DEF SocketMade
    <3> QED
      BY <1>1, <1>2, <2>1, <3>1, SocketMadeSafe DEF FdsInv
  <2>2. CASE NoSocket
    <3>1. ~raced
      BY <1>2, <2>2 DEF NoSocket
    <3> QED
      BY <1>1, <2>2, <3>1, NoSocketSafe DEF FdsInv
  <2> QED
    BY <1>4, <2>1, <2>2 DEF ProbeSocket, SocketMade, NoSocket
<1>5. CASE ProbeConnect
  BY <1>1, <1>2, <1>5, ProbeConnectSafe DEF ProbeConnect, FdsInv
<1>6. CASE ProbeClose
  BY <1>1, <1>2, <1>6, ProbeCloseSafe DEF ProbeClose, FdsInv
<1>7. CASE UNCHANGED vars
  BY <1>2, <1>7 DEF FdsInv, Safe, Separate, Leaving, Kept, Strays, Causes, Caused, vars,
     loopVars, threadVars
<1> QED
  BY <1>3, <1>4, <1>5, <1>6, <1>7 DEF Next, Thread

LEMMA Invariant == Spec => []FdsInv
BY InvInit, InvStep, PTL DEF Spec

\* What nobody holds any more is what met a full pool.
LEMMA NotHeld ==
  ASSUME FdsInv, ~raced
  PROVE  {f \in Fds : file[f] # Unused} \ Held = Strays
<1> USE DEF FdsInv, Safe
<1>1. ASSUME NEW f \in Fds, file[f] = Dropped
      PROVE  file[f] # Unused /\ f \notin Held
  <2>1. f # 0 /\ f \notin Range(todo)
    BY <1>1, FdsAssumption DEF Leaving
  <2>2. \A s \in Slots : slot[s].c # f /\ slot[s].u # f
    BY <1>1, <2>1, FilesFacts DEF Separate
  <2>3. hpc # "sleep" => hfd # f
    BY <1>1, FilesFacts DEF Separate
  <2> QED
    BY <1>1, <2>1, <2>2, <2>3, FilesFacts DEF Held
<1>2. ASSUME NEW f \in Fds, file[f] # Unused, file[f] # Dropped
      PROVE  f \in Held
  <2>1. file[f] \in Files
    BY DEF TypeOK
  <2>2. CASE file[f] = Probe
    BY <2>2 DEF Kept, Held
  <2>3. ASSUME NEW s \in Slots, file[f] = Client(s) \/ file[f] = UpstreamOf(s)
        PROVE  f \in Held
    BY <2>3 DEF Kept, Held
  <2> QED
    BY <1>2, <2>1, <2>2, <2>3, FilesFacts
<1> QED
  BY <1>1, <1>2 DEF Strays

-----------------------------------------------------------------------------
(* What the runs check.                                                     *)

\* Every number the two threads remember is a number of the table, and the counters stay in
\* their ranges, the races included.
THEOREM TypeCorrect == Spec => []TypeOK
BY Invariant, PTL DEF FdsInv

\* The second close of an upstream's socket never hits a descriptor that the other thread
\* opened in the meantime, unless its socket() fell between the two closes: neither thread
\* ever holds a number of the other's (src/src/worker.c 93-109 and 282-301,
\* src/src/health.c 21-46).
THEOREM ThreadsSeparate == Spec => []Separate
<1>1. FdsInv => Separate
  BY DEF FdsInv, Safe, Separate
<1> QED
  BY <1>1, Invariant, PTL

\* On every path by which a connection or a probe ends its descriptors are closed: what
\* leaks are the sockets accepted while the pool was full, one for each, and nothing else
\* (src/src/worker.c 71-80).
THEOREM NoOtherLeaks == Spec => []LeaksOnlyFromFullPool
<1>1. FdsInv => LeaksOnlyFromFullPool
  BY NotHeld DEF LeaksOnlyFromFullPool, FdsInv, Safe
<1> QED
  BY <1>1, Invariant, PTL

\* Without a race the loop never takes a node down by closing the probe's socket: Threshold
\* probes in a row were refused or found the table full (src/src/health.c 48-68).
THEOREM DownCaused == Spec => []DownHasCause
<1>1. FdsInv => DownHasCause
  BY SizesAssumption DEF FdsInv, Safe, Causes, Caused, DownHasCause
<1> QED
  BY <1>1, Invariant, PTL
=============================================================================
