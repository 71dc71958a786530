--------------------------- MODULE Upstream_proofs ---------------------------
(***************************************************************************)
(* Proofs about module Upstream, for any number of nodes and any weights:  *)
(* its types, what a pick may return while the health thread stores, what  *)
(* the current weights then add up to, and how the picks are shared while  *)
(* no node has been down.                                                  *)
(***************************************************************************)
EXTENDS Upstream, WellFoundedInduction, TLAPS

-----------------------------------------------------------------------------
(* The inductive strengthenings of the properties.                         *)

\* For NullOnlyIfNoneStayedUp and PickedWasUp: what the walks have found so far of the
\* nodes that are up ever since and of those that have been.
WalkedNodes == IF pc = "idle" THEN {} ELSE IF pc = "return" THEN Nodes ELSE 1 .. i - 1

WalkInv ==
  /\ pc = "idle" => i = 1 /\ total = 0 /\ best = None
  /\ steady \subseteq {n \in Nodes : healthy[n]}
  /\ pc # "idle" => {n \in Nodes : healthy[n]} \subseteq seen
  /\ pc = "add" /\ steady \cap WalkedNodes # {} => total > 0
  /\ pc \in {"choose", "return"} /\ steady # {} => total > 0
  /\ pc \in {"choose", "return"} /\ steady \cap WalkedNodes # {} => best # None
  /\ best # None => best \in seen

PickInv == TypeOK /\ WalkInv

\* For SmoothShares: current is what the picks of the round leave of the
\* weights gained, it adds up to the total of the pick, and best is the greatest so far.
Passed(n) == pc \in {"choose", "return"} \/ (pc = "add" /\ n < i)
gained    == [n \in Nodes |-> IF Passed(n) THEN Weight[n] ELSE 0]

BooksKept == \A n \in Nodes : current[n] + hits[n] * Sum(Weight) = Weight[n] * Sum(hits) + gained[n]

SharesBounded == \A n \in Nodes : NearShare(current[n] - gained[n])

BestIsGreatest ==
  \/ best = None /\ (pc \in {"idle", "add"} \/ (pc = "choose" /\ i = 1))
  \/ best \in Nodes /\ pc \in {"choose", "return"} /\ \A n \in WalkedNodes : current[n] <= current[best]

SharesInv ==
  flips = 0 =>
    /\ \A n \in Nodes : healthy[n]
    /\ Sum(current) = total /\ total = Sum(gained)
    /\ BooksKept /\ SharesBounded /\ BestIsGreatest

\* For SumDisplaced: what is unpaid now is paid by the pick under way, or
\* there has been a change since it began.
SumInv ==
  /\ pc # "idle" /\ total > 0 => seen # {}
  /\ total <= Sum(gained)
  /\ \E j \in 0 .. flips : /\ 0 <= Sum(current) - total /\ Sum(current) - total <= j * Sum(Weight)
                           /\ j < flips \/ pc = "idle" \/ seen = steady

USE NodeCountAssumption, WeightAssumption, ThresholdAssumption, MaxFlipsAssumption

\* A walk over the nodes ends after the last one.
LEMMA WalkStep ==
  ASSUME TypeOK, NEW after \in {"choose", "return"}, NextNode(after)
  PROVE  /\ i' \in Nodes
         /\ \/ i < NodeCount /\ i' = i + 1 /\ pc' = pc
            \/ i = NodeCount /\ i' = 1 /\ pc' = after
BY SMTT(30) DEF TypeOK, NextNode, Nodes

-----------------------------------------------------------------------------
LEMMA PickInit == Init => PickInv
BY DEF Init, PickInv, TypeOK, WalkInv, WalkedNodes, Zero, Nodes, None

\* A request begins a pick.
LEMMA BeginKeeps == PickInv /\ BeginPick => PickInv'
<1> SUFFICES ASSUME PickInv, BeginPick PROVE PickInv'
  OBVIOUS
<1>1. TypeOK'
  BY DEF PickInv, TypeOK, BeginPick, pickVars, healthVars
<1>2. WalkInv'
  BY DEF PickInv, TypeOK, WalkInv, BeginPick, WalkedNodes, pickVars, healthVars, Nodes, None
<1> QED
  BY <1>1, <1>2 DEF PickInv

\* The first walk: a node that is still up has added its weight, which is positive.
LEMMA AddKeeps == PickInv /\ AddWeight => PickInv'
<1> SUFFICES ASSUME PickInv, AddWeight PROVE PickInv'
  OBVIOUS
<1>0. /\ i' \in Nodes
      /\ \/ i < NodeCount /\ i' = i + 1 /\ pc' = pc
         \/ i = NodeCount /\ i' = 1 /\ pc' = "choose"
  BY WalkStep DEF PickInv, AddWeight
<1>1. /\ Weight[i] \in Nat \ {0} /\ total \in Nat
      /\ total' = IF healthy[i] THEN total + Weight[i] ELSE total
  BY DEF PickInv, TypeOK, AddWeight, Gains
<1>2. TypeOK'
  <2>1. current' \in [Nodes -> Int]
    BY <1>1 DEF PickInv, TypeOK, AddWeight
  <2>2. total' \in Nat /\ pc' \in {"idle", "add", "choose", "return"}
    BY <1>0, <1>1 DEF AddWeight
  <2> QED
    BY <1>0, <2>1, <2>2 DEF PickInv, TypeOK, AddWeight, healthVars, historyVars
<1>3. ASSUME NEW n \in steady, n \in 1 .. i PROVE total' > 0
  <2>1. CASE n = i
    BY <1>1, <1>3, <2>1 DEF PickInv, WalkInv
  <2>2. CASE n # i
    <3>1. n \in 1 .. i - 1
      BY <1>3, <2>2 DEF PickInv, TypeOK, Nodes
    <3> QED
      BY <1>1, <1>3, <3>1 DEF PickInv, WalkInv, AddWeight, WalkedNodes
  <2> QED
    BY <2>1, <2>2
<1>4. /\ UNCHANGED <<healthy, steady, seen, best>>
      /\ pc = "add" /\ pc' \in {"add", "choose"} /\ i \in 1 .. NodeCount
      /\ steady \subseteq 1 .. NodeCount
  BY <1>0 DEF PickInv, TypeOK, AddWeight, healthVars, historyVars, Nodes
<1>5. WalkInv'
  <2>1. pc' = "add" => WalkedNodes' = 1 .. i
    BY <1>0, <1>4 DEF WalkedNodes
  <2>2. pc' = "choose" => i = NodeCount /\ WalkedNodes' = {}
    BY <1>0, <1>4 DEF WalkedNodes
  <2> QED
    BY <1>3, <1>4, <2>1, <2>2 DEF PickInv, WalkInv, Nodes
<1> QED
  BY <1>2, <1>5 DEF PickInv

\* The second walk: once it has passed a node that is up it has a best one.
LEMMA ChooseKeeps == PickInv /\ Choose => PickInv'
<1> SUFFICES ASSUME PickInv, Choose PROVE PickInv'
  OBVIOUS
<1>0. /\ i' \in Nodes
      /\ \/ i < NodeCount /\ i' = i + 1 /\ pc' = pc
         \/ i = NodeCount /\ i' = 1 /\ pc' = "return"
  BY WalkStep DEF PickInv, Choose
<1>1. best' = IF Better(i) THEN i ELSE best
  BY DEF Choose
<1>2. TypeOK'
  BY <1>0, <1>1 DEF PickInv, TypeOK, Choose, healthVars, historyVars
<1>3. ASSUME NEW n \in steady, n \in 1 .. i PROVE best' # None
  <2>0. i # None
    BY DEF PickInv, TypeOK, Nodes, None
  <2>1. CASE n = i
    BY <1>1, <1>3, <2>0, <2>1 DEF PickInv, WalkInv, Better
  <2>2. CASE n # i
    <3>1. n \in 1 .. i - 1
      BY <1>3, <2>2 DEF PickInv, TypeOK, Nodes
    <3>2. best # None
      BY <1>3, <3>1 DEF PickInv, WalkInv, Choose, WalkedNodes
    <3> QED
      BY <1>1, <2>0, <3>2
  <2> QED
    BY <2>1, <2>2
<1>4. best' # None => best' \in seen
  BY <1>1 DEF PickInv, TypeOK, WalkInv, Choose, Better
<1>5. /\ UNCHANGED <<healthy, steady, seen, total>>
      /\ pc = "choose" /\ pc' \in {"choose", "return"} /\ i \in 1 .. NodeCount
      /\ steady \subseteq 1 .. NodeCount
  BY <1>0 DEF PickInv, TypeOK, Choose, healthVars, historyVars, Nodes
<1>6. WalkInv'
  <2>1. pc' = "choose" => WalkedNodes' = 1 .. i
    BY <1>0, <1>5 DEF WalkedNodes
  <2>2. pc' = "return" => i = NodeCount /\ WalkedNodes' = 1 .. i
    BY <1>0, <1>5 DEF WalkedNodes, Nodes
  <2> QED
    BY <1>3, <1>4, <1>5, <2>1, <2>2 DEF PickInv, WalkInv
<1> QED
  BY <1>2, <1>6 DEF PickInv

\* The end of a pick: nothing is left of it but the weights.
LEMMA ReturnKeeps == PickInv /\ Return => PickInv'
<1> SUFFICES ASSUME PickInv, Return PROVE PickInv'
  OBVIOUS
<1>1. current' \in [Nodes -> Int]
  BY DEF PickInv, TypeOK, Return, Payment
<1>2. hits' \in [Nodes -> Nat]
  BY DEF PickInv, TypeOK, Return, Zero
<1>3. 1 \in Nodes
  BY DEF Nodes
<1>4. TypeOK'
  BY <1>1, <1>2, <1>3 DEF PickInv, TypeOK, Return, healthVars
<1>5. WalkInv'
  BY DEF WalkInv, Return, WalkedNodes
<1> QED
  BY <1>4, <1>5 DEF PickInv

\* A store of the health thread, at any point of a pick.
LEMMA ProbeKeeps == ASSUME PickInv, NEW ok \in BOOLEAN, Probe(ok) PROVE PickInv'
<1>1. FailCount(ok) \in 0 .. Threshold
  BY DEF PickInv, TypeOK, FailCount
<1>2. healthy' \in [Nodes -> BOOLEAN]
  BY DEF PickInv, TypeOK, Probe, Verdict
<1>3. flips' \in 0 .. MaxFlips
  BY DEF PickInv, TypeOK, Probe
<1>4. fails' \in [Nodes -> 0 .. Threshold] /\ probed' \in Nodes
  BY <1>1, SMTT(30) DEF PickInv, TypeOK, Probe, Nodes
<1>5. steady' \subseteq steady /\ steady' \subseteq {n \in Nodes : healthy'[n]}
  BY DEF PickInv, TypeOK, Probe
<1>6. pc # "idle" => seen \subseteq seen' /\ {n \in Nodes : healthy'[n]} \subseteq seen'
  BY DEF Probe
<1>7. seen' \subseteq Nodes
  BY DEF PickInv, TypeOK, Probe
<1>8. TypeOK'
  BY <1>2, <1>3, <1>4, <1>5, <1>7 DEF PickInv, TypeOK, Probe, pickVars
<1>9. WalkInv'
  <2>1. pc' = pc /\ i' = i /\ total' = total /\ best' = best
    BY DEF Probe, pickVars
  <2>2. WalkedNodes' = WalkedNodes
    BY <2>1 DEF WalkedNodes, Nodes
  <2>3. pc = "idle" => best = None
    BY DEF PickInv, WalkInv
  <2> QED
    BY <1>5, <1>6, <2>1, <2>2, <2>3 DEF PickInv, WalkInv
<1> QED
  BY <1>8, <1>9 DEF PickInv

-----------------------------------------------------------------------------
LEMMA PickStep == PickInv /\ [Next]_vars => PickInv'
<1> SUFFICES ASSUME PickInv, [Next]_vars PROVE PickInv'
  OBVIOUS
<1>1. CASE BeginPick
  BY <1>1, BeginKeeps
<1>2. CASE AddWeight
  BY <1>2, AddKeeps
<1>3. CASE Choose
  BY <1>3, ChooseKeeps
<1>4. CASE Return
  BY <1>4, ReturnKeeps
<1>5. CASE Health
  BY <1>5, ProbeKeeps DEF Health
<1>6. CASE UNCHANGED vars
  BY <1>6 DEF vars, pickVars, healthVars, historyVars, PickInv, TypeOK, WalkInv, WalkedNodes
<1> QED
  BY <1>1, <1>2, <1>3, <1>4, <1>5, <1>6 DEF Next, Walk

LEMMA PickInvariant == Spec => []PickInv
BY PickInit, PickStep, PTL DEF Spec

-----------------------------------------------------------------------------
\* Every variable keeps its type, for any number of nodes and any weights.
THEOREM TypeCorrect == Spec => []TypeOK
BY PickInvariant, PTL DEF PickInv

\* A pick fails only if no node was healthy all the time it took.
THEOREM NullMeansNoneStayedUp == Spec => []NullOnlyIfNoneStayedUp
<1>1. PickInv => NullOnlyIfNoneStayedUp
  <2> SUFFICES ASSUME PickInv, Returning, best = None PROVE steady = {}
    BY DEF NullOnlyIfNoneStayedUp
  <2>1. CASE pc = "return"
    BY <2>1 DEF PickInv, TypeOK, WalkInv, WalkedNodes
  <2>2. CASE pc = "choose" /\ total = 0
    BY <2>2 DEF PickInv, WalkInv
  <2> QED
    BY <2>1, <2>2 DEF Returning
<1> QED
  BY <1>1, PickInvariant, PTL

\* A pick never returns a node that was down all the time it took.
THEOREM NeverPicksDownNode == Spec => []PickedWasUp
<1>1. PickInv => PickedWasUp
  BY DEF PickInv, WalkInv, PickedWasUp
<1> QED
  BY <1>1, PickInvariant, PTL

-----------------------------------------------------------------------------
(* Sums over the nodes.                                                     *)

\* A set of naturals up to NodeCount that holds 0 and, with a number, the next one is all.
LEMMA UpInduction ==
  ASSUME NEW S \in SUBSET (0 .. NodeCount), 0 \in S,
         \A n \in S : n < NodeCount => n + 1 \in S
  PROVE  S = 0 .. NodeCount
<1> DEFINE T == (0 .. NodeCount) \ S
<1>1. SUFFICES ASSUME T # {} PROVE FALSE
  OBVIOUS
<1>2. IsWellFoundedOn(OpToRel(<, Nat), Nat)
  BY NatLessThanWellFounded
<1>3. T \subseteq Nat
  OBVIOUS
<1>4. PICK m \in T : \A n \in T : <<n, m>> \notin OpToRel(<, Nat)
  <2> HIDE DEF T
  <2> QED
    BY <1>1, <1>2, <1>3, WFMin
<1>5. m \in 1 .. NodeCount /\ m - 1 \in 0 .. NodeCount
  <2>1. m \in 0 .. NodeCount /\ m # 0
    OBVIOUS
  <2> QED
    BY <2>1
<1>6. m - 1 \notin T
  <2>1. <<m - 1, m>> \in Nat \X Nat /\ m - 1 < m
    BY <1>5
  <2> QED
    BY <1>4, <2>1 DEF OpToRel
<1>7. m - 1 \in S /\ m - 1 < NodeCount /\ (m - 1) + 1 = m
  BY <1>5, <1>6
<1> QED
  BY <1>4, <1>7

\* There are such sums.
LEMMA SumsExist ==
  ASSUME NEW f \in [Nodes -> Int]
  PROVE  \E s \in [0 .. NodeCount -> Int] : s[0] = 0 /\ \A n \in Nodes : s[n] = s[n - 1] + f[n]
<1> DEFINE Sums(k) == {s \in [0 .. k -> Int] : s[0] = 0 /\ \A n \in 1 .. k : s[n] = s[n - 1] + f[n]}
           S == {k \in 0 .. NodeCount : Sums(k) # {}}
<1>1. 0 \in S
  <2> DEFINE s == [k \in 0 .. 0 |-> 0]
  <2>1. s \in Sums(0)
    OBVIOUS
  <2> QED
    BY <2>1
<1>2. ASSUME NEW k \in S, k < NodeCount PROVE k + 1 \in S
  <2>1. PICK s \in [0 .. k -> Int] : s[0] = 0 /\ \A n \in 1 .. k : s[n] = s[n - 1] + f[n]
    BY <1>2
  <2>2. k \in Nat /\ k + 1 \in Nodes /\ f[k + 1] \in Int
    BY <1>2 DEF Nodes
  <2> DEFINE t == [n \in 0 .. k + 1 |-> IF n = k + 1 THEN s[k] + f[k + 1] ELSE s[n]]
  <2>3. t \in [0 .. k + 1 -> Int] /\ t[0] = 0
    BY <2>1, <2>2
  <2>4. ASSUME NEW n \in 1 .. k + 1 PROVE t[n] = t[n - 1] + f[n]
    BY <2>1, <2>2, <2>4, SMTT(30)
  <2>5. t \in Sums(k + 1)
    BY <2>3, <2>4
  <2>6. k + 1 \in 0 .. NodeCount
    BY <2>2 DEF Nodes
  <2> HIDE DEF Sums, t
  <2> QED
    BY <2>5, <2>6
<1>3. S = 0 .. NodeCount
  <2> HIDE DEF Sums
  <2> QED
    BY <1>1, <1>2, UpInduction
<1>4. PICK s \in Sums(NodeCount) : TRUE
  <2>1. NodeCount \in S
    BY <1>3
  <2> HIDE DEF Sums
  <2> QED
    BY <2>1
<1>5. s \in [0 .. NodeCount -> Int] /\ s[0] = 0 /\ \A n \in Nodes : s[n] = s[n - 1] + f[n]
  BY <1>4 DEF Nodes
<1> QED
  BY <1>5

\* The sums of f are integers that begin with 0 and go on by the terms of f.
LEMMA SumsFacts ==
  ASSUME NEW f \in [Nodes -> Int]
  PROVE  /\ UpTo(f) \in [0 .. NodeCount -> Int]
         /\ UpTo(f)[0] = 0 /\ \A n \in Nodes : UpTo(f)[n] = UpTo(f)[n - 1] + f[n]
         /\ Sum(f) \in Int
<1> DEFINE Sums(s) == s = [n \in 0 .. NodeCount |-> IF n = 0 THEN 0 ELSE s[n - 1] + f[n]]
           U == UpTo(f)
<1>1. PICK s \in [0 .. NodeCount -> Int] : s[0] = 0 /\ \A n \in Nodes : s[n] = s[n - 1] + f[n]
  BY SumsExist
<1>2. Sums(s)
  BY <1>1 DEF Nodes
<1>3. Sums(U)
  BY <1>2 DEF UpTo
<1>4. U[0] = 0 /\ \A n \in Nodes : U[n] = U[n - 1] + f[n]
  <2> HIDE DEF U
  <2>1. \A n \in 0 .. NodeCount : U[n] = IF n = 0 THEN 0 ELSE U[n - 1] + f[n]
    BY <1>3
  <2>2. 0 \in 0 .. NodeCount /\ \A n \in Nodes : n \in 0 .. NodeCount /\ n # 0
    BY DEF Nodes
  <2> QED
    BY <2>1, <2>2
<1> DEFINE S == {n \in 0 .. NodeCount : U[n] \in Int}
<1>5. S = 0 .. NodeCount
  <2> HIDE DEF U
  <2>1. 0 \in S
    BY <1>4
  <2>2. ASSUME NEW n \in S, n < NodeCount PROVE n + 1 \in S
    <3>1. n + 1 \in Nodes /\ (n + 1) - 1 = n /\ f[n + 1] \in Int
      BY <2>2 DEF Nodes
    <3> QED
      BY <1>4, <2>2, <3>1, SMTT(30) DEF Nodes
  <2> QED
    BY <2>1, <2>2, UpInduction
<1>6. U \in [0 .. NodeCount -> Int]
  <2> HIDE DEF U
  <2> QED
    BY <1>3, <1>5
<1> QED
  BY <1>4, <1>6 DEF Sum

\* No others are.
LEMMA SumsUnique ==
  ASSUME NEW f \in [Nodes -> Int], NEW s \in [0 .. NodeCount -> Int],
         s[0] = 0, \A n \in Nodes : s[n] = s[n - 1] + f[n]
  PROVE  Sum(f) = s[NodeCount]
<1> DEFINE U == UpTo(f)
           S == {n \in 0 .. NodeCount : U[n] = s[n]}
<1>1. U[0] = 0 /\ \A n \in Nodes : U[n] = U[n - 1] + f[n]
  BY SumsFacts
<1> HIDE DEF U
<1>2. S = 0 .. NodeCount
  <2>1. 0 \in S
    BY <1>1
  <2>2. ASSUME NEW n \in S, n < NodeCount PROVE n + 1 \in S
    <3>1. n + 1 \in Nodes /\ (n + 1) - 1 = n
      BY <2>2 DEF Nodes
    <3> QED
      BY <1>1, <2>2, <3>1, SMTT(30) DEF Nodes
  <2> QED
    BY <2>1, <2>2, UpInduction
<1>3. NodeCount \in S
  BY <1>2
<1> QED
  BY <1>3 DEF Sum, U

\* To add d to one term is to add d to the sum.
LEMMA SumChanged ==
  ASSUME NEW f \in [Nodes -> Int], NEW n \in Nodes, NEW d \in Int
  PROVE  Sum([f EXCEPT ![n] = @ + d]) = Sum(f) + d
<1> DEFINE U == UpTo(f)
           s == [m \in 0 .. NodeCount |-> IF n <= m THEN U[m] + d ELSE U[m]]
           g == [f EXCEPT ![n] = @ + d]
<1>1. U \in [0 .. NodeCount -> Int] /\ U[0] = 0 /\ \A m \in Nodes : U[m] = U[m - 1] + f[m]
  BY SumsFacts
<1>2. Sum(f) = U[NodeCount]
  BY DEF Sum
<1> HIDE DEF U
<1>3. n \in 1 .. NodeCount
  BY DEF Nodes
<1>4. s \in [0 .. NodeCount -> Int] /\ s[0] = 0 /\ s[NodeCount] = U[NodeCount] + d
  BY <1>1, <1>3
<1>5. ASSUME NEW m \in Nodes PROVE s[m] = s[m - 1] + g[m]
  <2>1. m \in 1 .. NodeCount /\ m - 1 \in 0 .. NodeCount /\ U[m] = U[m - 1] + f[m]
    BY <1>1 DEF Nodes
  <2>2. g[m] = IF m = n THEN f[m] + d ELSE f[m]
    OBVIOUS
  <2>3. U[m] \in Int /\ U[m - 1] \in Int /\ f[m] \in Int
    BY <1>1, <2>1
  <2>4. /\ s[m] = IF n <= m THEN U[m] + d ELSE U[m]
        /\ s[m - 1] = IF n <= m - 1 THEN U[m - 1] + d ELSE U[m - 1]
    BY <2>1
  <2> HIDE DEF s, g
  <2> QED
    BY <1>3, <2>1, <2>2, <2>3, <2>4
<1>6. g \in [Nodes -> Int]
  OBVIOUS
<1> HIDE DEF s, g
<1>7. Sum(g) = s[NodeCount]
  BY <1>4, <1>5, <1>6, SumsUnique
<1> QED
  BY <1>2, <1>4, <1>7 DEF g

\* A sum of greater terms is greater.
LEMMA SumMonotone ==
  ASSUME NEW f \in [Nodes -> Int], NEW g \in [Nodes -> Int], \A n \in Nodes : f[n] <= g[n]
  PROVE  Sum(f) <= Sum(g)
<1> DEFINE U == UpTo(f)
           V == UpTo(g)
           S == {n \in 0 .. NodeCount : U[n] <= V[n]}
<1>1. /\ U \in [0 .. NodeCount -> Int] /\ U[0] = 0 /\ \A n \in Nodes : U[n] = U[n - 1] + f[n]
      /\ V \in [0 .. NodeCount -> Int] /\ V[0] = 0 /\ \A n \in Nodes : V[n] = V[n - 1] + g[n]
  BY SumsFacts
<1>2. Sum(f) = U[NodeCount] /\ Sum(g) = V[NodeCount]
  BY DEF Sum
<1> HIDE DEF U, V
<1>3. S = 0 .. NodeCount
  <2>1. 0 \in S
    BY <1>1
  <2>2. ASSUME NEW n \in S, n < NodeCount PROVE n + 1 \in S
    <3>1. n + 1 \in Nodes /\ (n + 1) - 1 = n /\ n \in 0 .. NodeCount /\ n + 1 \in 0 .. NodeCount
      BY <2>2 DEF Nodes
    <3>2. U[n + 1] = U[n] + f[n + 1] /\ V[n + 1] = V[n] + g[n + 1] /\ f[n + 1] <= g[n + 1] /\ U[n] <= V[n]
      BY <1>1, <2>2, <3>1
    <3>3. /\ U[n] \in Int /\ V[n] \in Int /\ f[n + 1] \in Int /\ g[n + 1] \in Int
      BY <1>1, <3>1
    <3> QED
      BY <3>1, <3>2, <3>3
  <2> QED
    BY <2>1, <2>2, UpInduction
<1>4. NodeCount \in S
  BY <1>3
<1> QED
  BY <1>2, <1>4

LEMMA SumConstant ==
  ASSUME NEW c \in Int
  PROVE  Sum([n \in Nodes |-> c]) = NodeCount * c
<1> DEFINE s == [m \in 0 .. NodeCount |-> m * c]
           f == [n \in Nodes |-> c]
<1>1. f \in [Nodes -> Int] /\ s \in [0 .. NodeCount -> Int] /\ s[0] = 0 /\ s[NodeCount] = NodeCount * c
  OBVIOUS
<1>2. ASSUME NEW n \in Nodes PROVE s[n] = s[n - 1] + f[n]
  <2>1. n \in 1 .. NodeCount /\ n - 1 \in 0 .. NodeCount
    BY DEF Nodes
  <2>2. (n - 1) * c + c = n * c
    BY <2>1
  <2> QED
    BY <2>1, <2>2
<1> HIDE DEF s, f
<1>3. Sum(f) = s[NodeCount]
  BY <1>1, <1>2, SumsUnique
<1> QED
  BY <1>1, <1>3 DEF f

LEMMA SumZero == Zero \in [Nodes -> Int] /\ Sum(Zero) = 0
<1>1. Zero \in [Nodes -> Int]
  BY DEF Zero
<1>2. Sum([n \in Nodes |-> 0]) = NodeCount * 0
  BY SumConstant
<1> QED
  BY <1>1, <1>2 DEF Zero

\* Of terms that are not negative none is greater than the sum.
LEMMA SumCovers ==
  ASSUME NEW f \in [Nodes -> Int], \A m \in Nodes : f[m] >= 0, NEW n \in Nodes
  PROVE  f[n] <= Sum(f)
<1> DEFINE d == - f[n]
           g == [f EXCEPT ![n] = @ + d]
<1>1. g \in [Nodes -> Int] /\ \A m \in Nodes : Zero[m] <= g[m]
  BY DEF Zero
<1>2. Sum(g) = Sum(f) + d
  <2>1. d \in Int
    OBVIOUS
  <2> HIDE DEF d
  <2> QED
    BY <2>1, SumChanged
<1>3. 0 <= Sum(g)
  <2> HIDE DEF g
  <2> QED
    BY <1>1, SumZero, SumMonotone
<1> HIDE DEF g
<1> QED
  BY <1>2, <1>3, SumsFacts

LEMMA SumWeight ==
  /\ Weight \in [Nodes -> Int] /\ Sum(Weight) \in Nat \ {0}
  /\ \A n \in Nodes : Weight[n] <= Sum(Weight)
<1>1. Weight \in [Nodes -> Int] /\ \A n \in Nodes : Weight[n] >= 0
  OBVIOUS
<1>2. \A n \in Nodes : Weight[n] <= Sum(Weight)
  BY <1>1, SumCovers
<1>3. Sum(Weight) \in Int
  BY <1>1, SumsFacts
<1>4. 1 \in Nodes /\ Weight[1] \in Nat \ {0}
  BY DEF Nodes
<1> QED
  BY <1>1, <1>2, <1>3, <1>4

-----------------------------------------------------------------------------
(* What the first walk of a pick has given out.                             *)

LEMMA GainedFacts ==
  ASSUME TypeOK
  PROVE  /\ gained \in [Nodes -> Int] /\ \A n \in Nodes : 0 <= gained[n] /\ gained[n] <= Weight[n]
         /\ pc = "idle" => gained = Zero
         /\ pc \in {"choose", "return"} => gained = Weight
         /\ Sum(gained) \in Int /\ 0 <= Sum(gained) /\ Sum(gained) <= Sum(Weight)
<1>1. \A n \in Nodes : Weight[n] \in Nat /\ gained[n] = IF Passed(n) THEN Weight[n] ELSE 0
  BY DEF gained
<1>2. gained \in [Nodes -> Int] /\ \A n \in Nodes : 0 <= gained[n] /\ gained[n] <= Weight[n]
  BY <1>1 DEF gained
<1>3. pc = "idle" => gained = Zero
  BY DEF gained, Passed, Zero
<1>4. pc \in {"choose", "return"} => gained = Weight
  BY DEF gained, Passed
<1>5. \A n \in Nodes : Zero[n] <= gained[n]
  BY <1>2 DEF Zero
<1>6. Sum(Zero) <= Sum(gained) /\ Sum(gained) <= Sum(Weight) /\ Sum(gained) \in Int
  BY <1>2, <1>5, SumZero, SumWeight, SumMonotone, SumsFacts
<1> QED
  BY <1>2, <1>3, <1>4, <1>6, SumZero

LEMMA GainedAdd ==
  ASSUME TypeOK, AddWeight
  PROVE  /\ gained' = [gained EXCEPT ![i] = @ + Weight[i]]
         /\ Sum(gained') = Sum(gained) + Weight[i]
<1>1. /\ i \in Nodes /\ pc = "add" /\ i' \in Nodes
      /\ \/ i < NodeCount /\ i' = i + 1 /\ pc' = pc
         \/ i = NodeCount /\ i' = 1 /\ pc' = "choose"
  BY WalkStep DEF TypeOK, AddWeight
<1>2. ASSUME NEW n \in Nodes PROVE Passed(n)' <=> (Passed(n) \/ n = i)
  BY <1>1 DEF Passed, Nodes
<1>3. ~ Passed(i)
  BY <1>1 DEF Passed, Nodes
<1>4. gained' = [n \in Nodes |-> IF Passed(n)' THEN Weight[n] ELSE 0]
  BY DEF gained
<1>5. gained' = [gained EXCEPT ![i] = @ + Weight[i]]
  <2>1. ASSUME NEW n \in Nodes
        PROVE  (IF Passed(n)' THEN Weight[n] ELSE 0) = IF n = i THEN gained[i] + Weight[i] ELSE gained[n]
    BY <1>1, <1>2, <1>3 DEF gained
  <2> QED
    BY <1>4, <2>1 DEF gained
<1>6. gained \in [Nodes -> Int] /\ Weight[i] \in Int
  BY <1>1, GainedFacts
<1> QED
  BY <1>1, <1>5, <1>6, SumChanged

LEMMA GainedSame ==
  ASSUME PickInv, BeginPick \/ Choose \/ Health
  PROVE  gained' = gained
<1> SUFFICES \A n \in Nodes : Passed(n)' <=> Passed(n)
  BY DEF gained
<1>1. CASE BeginPick
  BY <1>1 DEF PickInv, WalkInv, BeginPick, Passed, Nodes
<1>2. CASE Choose
  <2>1. pc = "choose" /\ pc' \in {"choose", "return"}
    BY <1>2 DEF Choose, NextNode
  <2> QED
    BY <2>1 DEF Passed
<1>3. CASE Health
  BY <1>3 DEF Health, Probe, pickVars, Passed
<1> QED
  BY <1>1, <1>2, <1>3

-----------------------------------------------------------------------------
(* The sum of the current weights, while the health thread stores.          *)

LEMMA SumOfCurrent ==
  ASSUME TypeOK
  PROVE  Sum(current) \in Int
BY SumsFacts DEF TypeOK

LEMMA CurrentAdd ==
  ASSUME TypeOK, AddWeight
  PROVE  /\ healthy[i] => total' = total + Weight[i] /\ Sum(current') = Sum(current) + Weight[i]
         /\ ~ healthy[i] => total' = total /\ current' = current
<1>1. current \in [Nodes -> Int] /\ i \in Nodes /\ Weight[i] \in Int
  BY DEF TypeOK
<1>2. CASE healthy[i]
  <2>1. current' = [current EXCEPT ![i] = @ + Weight[i]] /\ total' = total + Weight[i]
    BY <1>2 DEF AddWeight, Gains
  <2> QED
    BY <1>1, <1>2, <2>1, SumChanged
<1>3. CASE ~ healthy[i]
  BY <1>3 DEF AddWeight, Gains
<1> QED
  BY <1>2, <1>3

LEMMA CurrentPaid ==
  ASSUME TypeOK, Return
  PROVE  /\ best = None => current' = current
         /\ best # None => /\ current' = [current EXCEPT ![best] = @ + (- total)]
                           /\ Sum(current') = Sum(current) - total
<1>1. current \in [Nodes -> Int] /\ total \in Nat /\ None \notin Nodes
  BY DEF TypeOK, None, Nodes
<1>2. current' = [n \in Nodes |-> IF n = best THEN current[n] - total ELSE current[n]]
  BY DEF Return, Payment
<1>3. CASE best = None
  <2>1. current' = [n \in Nodes |-> current[n]]
    BY <1>1, <1>2, <1>3
  <2> QED
    BY <1>1, <1>3, <2>1
<1>4. CASE best # None
  <2>1. best \in Nodes /\ - total \in Int
    BY <1>1, <1>4 DEF TypeOK
  <2>2. current' = [current EXCEPT ![best] = @ + (- total)]
    BY <1>1, <1>2, <2>1
  <2>3. Sum(current') = Sum(current) + (- total)
    BY <1>1, <2>1, <2>2, SumChanged
  <2> QED
    BY <1>1, <1>4, <2>2, <2>3, SumOfCurrent
<1> QED
  BY <1>3, <1>4

LEMMA SumInit == Init => SumInv
<1> SUFFICES ASSUME Init PROVE SumInv
  OBVIOUS
<1>1. TypeOK /\ PickInv
  BY PickInit DEF PickInv
<1>2. total = 0 /\ pc = "idle" /\ Sum(current) = 0 /\ flips = 0
  BY SumZero DEF Init
<1>3. 0 \in 0 .. flips /\ 0 <= 0 - 0 /\ 0 - 0 <= 0 * Sum(Weight)
  BY <1>2, SumWeight
<1>4. total <= Sum(gained)
  BY <1>1, <1>2, GainedFacts
<1> QED
  BY <1>2, <1>3, <1>4 DEF SumInv

\* A pick begins: there is nothing to pay, and the nodes that have been up are those that are.
LEMMA BeginKeepsSum == PickInv /\ SumInv /\ BeginPick => SumInv'
<1> SUFFICES ASSUME PickInv, SumInv, BeginPick PROVE SumInv'
  OBVIOUS
<1>1. /\ UNCHANGED <<current, total, flips>> /\ pc = "idle" /\ total = 0 /\ seen' = steady'
  BY DEF BeginPick, PickInv, WalkInv, healthVars
<1>2. gained' = gained
  BY GainedSame
<1> QED
  BY <1>1, <1>2 DEF SumInv

\* A node that gains owes it to the pick: nothing more is unpaid.
LEMMA AddKeepsSum == PickInv /\ SumInv /\ AddWeight => SumInv'
<1> SUFFICES ASSUME PickInv, SumInv, AddWeight PROVE SumInv'
  OBVIOUS
<1>1. /\ TypeOK /\ i \in Nodes /\ Weight[i] \in Nat \ {0} /\ total \in Nat /\ Sum(current) \in Int
      /\ UNCHANGED <<steady, seen, flips>> /\ pc = "add"
  BY SumOfCurrent DEF PickInv, TypeOK, AddWeight, historyVars, healthVars
<1>2. Sum(current') - total' = Sum(current) - total
  BY <1>1, CurrentAdd
<1>3. total' <= Sum(gained')
  <2>1. total <= Sum(gained) /\ Sum(gained) \in Int
    BY <1>1, GainedFacts DEF SumInv
  <2> QED
    BY <1>1, <2>1, CurrentAdd, GainedAdd
<1>4. total' > 0 => seen # {}
  <2>1. CASE healthy[i]
    BY <1>1, <2>1 DEF PickInv, WalkInv
  <2>2. CASE ~ healthy[i]
    BY <1>1, <2>2, CurrentAdd DEF SumInv
  <2> QED
    BY <2>1, <2>2
<1>5. PICK j \in 0 .. flips : /\ 0 <= Sum(current) - total /\ Sum(current) - total <= j * Sum(Weight)
                              /\ j < flips \/ seen = steady
  BY <1>1 DEF SumInv
<1> QED
  BY <1>1, <1>2, <1>3, <1>4, <1>5 DEF SumInv

LEMMA ChooseKeepsSum == PickInv /\ SumInv /\ Choose => SumInv'
<1> SUFFICES ASSUME PickInv, SumInv, Choose PROVE SumInv'
  OBVIOUS
<1>1. UNCHANGED <<current, total, steady, seen, flips>> /\ pc = "choose"
  BY DEF Choose, historyVars, healthVars
<1>2. gained' = gained
  BY GainedSame
<1> QED
  BY <1>1, <1>2 DEF SumInv

\* The node chosen pays. If there is none, every node has gone down, and a change since the
\* pick began stands for what nobody pays.
LEMMA ReturnKeepsSum == PickInv /\ SumInv /\ Return => SumInv'
<1> SUFFICES ASSUME PickInv, SumInv, Return PROVE SumInv'
  OBVIOUS
<1>1. /\ TypeOK /\ TypeOK' /\ total \in Nat /\ Sum(current) \in Int /\ Sum(Weight) \in Nat /\ flips \in Nat
      /\ total' = 0 /\ pc' = "idle" /\ flips' = flips /\ steady' = {} /\ seen' = {}
  BY SumOfCurrent, SumWeight, ReturnKeeps DEF PickInv, TypeOK, Return, healthVars
<1>2. 0 <= Sum(gained') /\ total <= Sum(Weight)
  <2>1. gained' = Zero
    BY <1>1 DEF gained, Passed, Zero
  <2>2. total <= Sum(gained) /\ Sum(gained) \in Int /\ Sum(gained) <= Sum(Weight)
    BY <1>1, GainedFacts DEF SumInv
  <2> QED
    BY <1>1, <2>1, <2>2, SumZero
<1>3. PICK j \in 0 .. flips : /\ 0 <= Sum(current) - total /\ Sum(current) - total <= j * Sum(Weight)
                              /\ j < flips \/ pc = "idle" \/ seen = steady
  BY DEF SumInv
<1>4. \E k \in 0 .. flips : 0 <= Sum(current') /\ Sum(current') <= k * Sum(Weight)
  <2>1. CASE best # None
    BY <1>1, <1>3, <2>1, CurrentPaid
  <2>2. CASE best = None /\ total = 0
    BY <1>1, <1>3, <2>2, CurrentPaid
  <2>3. CASE best = None /\ total > 0
    <3>1. pc = "return" /\ seen # {}
      BY <1>1, <2>3 DEF Return, SumInv
    <3>2. steady = {}
      BY <1>1, <2>3, <3>1 DEF PickInv, TypeOK, WalkInv, WalkedNodes
    <3>3. j + 1 \in 0 .. flips
      BY <1>1, <1>3, <3>1, <3>2
    <3>4. (j + 1) * Sum(Weight) = j * Sum(Weight) + Sum(Weight) /\ j * Sum(Weight) \in Int
      BY <1>1
    <3>5. Sum(current') = Sum(current)
      BY <1>1, <2>3, CurrentPaid
    <3>6. 0 <= Sum(current') /\ Sum(current') <= (j + 1) * Sum(Weight)
      BY <1>1, <1>2, <1>3, <3>4, <3>5
    <3> QED
      BY <3>3, <3>6
  <2> QED
    BY <1>1, <2>1, <2>2, <2>3
<1>5. Sum(current') \in Int /\ Sum(current') - 0 = Sum(current')
  <2>1. current' \in [Nodes -> Int]
    BY <1>1 DEF TypeOK
  <2>2. Sum(current') \in Int
    BY <2>1, SumsFacts
  <2> QED
    BY <2>2
<1> QED
  BY <1>1, <1>2, <1>4, <1>5 DEF SumInv

\* A change of a node's health allows for one more sum that nobody pays.
LEMMA ProbeKeepsSum == ASSUME PickInv, SumInv, NEW ok \in BOOLEAN, Probe(ok) PROVE SumInv'
<1>1. UNCHANGED <<current, total, pc>> /\ flips \in Nat /\ flips' \in Nat
  BY ProbeKeeps DEF Probe, pickVars, PickInv, TypeOK
<1>2. gained' = gained
  BY GainedSame DEF Health
<1>3. pc # "idle" /\ total > 0 => seen' # {}
  BY DEF Probe, SumInv
<1>4. PICK j \in 0 .. flips : /\ 0 <= Sum(current) - total /\ Sum(current) - total <= j * Sum(Weight)
                              /\ j < flips \/ pc = "idle" \/ seen = steady
  BY DEF SumInv
<1>5. j \in 0 .. flips' /\ (j < flips' \/ pc = "idle" \/ seen' = steady')
  <2>1. CASE healthy' = healthy /\ pc # "idle"
    <3>1. flips' = flips
      BY <2>1 DEF Probe
    <3>2. steady' = steady
      BY <2>1 DEF Probe, PickInv, TypeOK, WalkInv
    <3>3. seen' = seen
      BY <2>1 DEF Probe, PickInv, TypeOK, WalkInv
    <3> QED
      BY <1>4, <3>1, <3>2, <3>3
  <2>2. CASE healthy' # healthy
    <3>1. flips' = flips + 1
      BY <2>2 DEF Probe
    <3> QED
      BY <1>1, <1>4, <3>1
  <2>3. CASE pc = "idle"
    <3>1. flips' = flips \/ flips' = flips + 1
      BY DEF Probe
    <3> QED
      BY <1>1, <1>4, <2>3, <3>1
  <2> QED
    BY <2>1, <2>2, <2>3
<1> QED
  BY <1>1, <1>2, <1>3, <1>4, <1>5 DEF SumInv

LEMMA SumStep == PickInv /\ SumInv /\ [Next]_vars => SumInv'
<1> SUFFICES ASSUME PickInv, SumInv, [Next]_vars PROVE SumInv'
  OBVIOUS
<1>1. CASE BeginPick
  BY <1>1, BeginKeepsSum
<1>2. CASE AddWeight
  BY <1>2, AddKeepsSum
<1>3. CASE Choose
  BY <1>3, ChooseKeepsSum
<1>4. CASE Return
  BY <1>4, ReturnKeepsSum
<1>5. CASE Health
  BY <1>5, ProbeKeepsSum DEF Health
<1>6. CASE UNCHANGED vars
  <2>1. gained' = gained
    BY <1>6 DEF vars, pickVars, gained, Passed
  <2>2. UNCHANGED <<current, total, pc, steady, seen, flips>>
    BY <1>6 DEF vars, pickVars, healthVars, historyVars
  <2> QED
    BY <2>1, <2>2 DEF SumInv
<1> QED
  BY <1>1, <1>2, <1>3, <1>4, <1>5, <1>6 DEF Next, Walk

\* Between picks the current weights add up to neither less than nothing nor to more than what
\* the changes of health have left unpaid.
LEMMA SumBetweenPicks ==
  ASSUME PickInv, SumInv, pc = "idle"
  PROVE  SumDisplaced
<1>1. total = 0 /\ Sum(current) \in Int /\ Sum(Weight) \in Nat /\ flips \in Nat
  BY SumOfCurrent, SumWeight DEF PickInv, TypeOK, WalkInv
<1>2. PICK j \in 0 .. flips : 0 <= Sum(current) - total /\ Sum(current) - total <= j * Sum(Weight)
  BY DEF SumInv
<1>3. j * Sum(Weight) <= flips * Sum(Weight) /\ j * Sum(Weight) \in Int /\ flips * Sum(Weight) \in Int
  BY <1>1, SMTT(30)
<1> QED
  BY <1>1, <1>2, <1>3 DEF SumDisplaced

-----------------------------------------------------------------------------
(* The current weights of up to three nodes, while the health thread stores. *)

\* What the nodes that are up ever since the pick began have gained in it.
granted == [n \in Nodes |-> IF Passed(n) /\ n \in steady THEN Weight[n] ELSE 0]

\* What a change of health allows for in units of Sum(Weight), and one more.
most == (flips + 1) * Sum(Weight)

\* While no node has changed its health since the pick began: the nodes are near 0 but for what
\* they have gained, the pick owes all of that, and best is the greatest of those that gained.
Undisturbed ==
  /\ \A n \in Nodes : - most < current[n] - granted[n] /\ current[n] - granted[n] < most
  /\ total = Sum(granted)
  /\ pc \in {"idle", "add"} => best = None
  /\ best # None => \A n \in steady \cap WalkedNodes : current[n] <= current[best]

\* After a change the pick may charge anybody for anything: there is room left for that.
Disturbed ==
  \A n \in Nodes : Sum(Weight) - most < current[n] /\ current[n] - gained[n] + Weight[n] < most

\* The inductive strengthening of the first half of DisplacementBounded.
NearInv == NodeCount <= 3 => IF pc = "idle" \/ seen = steady THEN Undisturbed ELSE Disturbed

LEMMA SumOfFew ==
  ASSUME NEW f \in [Nodes -> Int]
  PROVE  /\ NodeCount = 1 => Sum(f) = f[1]
         /\ NodeCount = 2 => Sum(f) = f[1] + f[2]
         /\ NodeCount = 3 => Sum(f) = f[1] + f[2] + f[3]
<1> DEFINE U == UpTo(f)
<1>1. U \in [0 .. NodeCount -> Int] /\ U[0] = 0 /\ \A n \in Nodes : U[n] = U[n - 1] + f[n]
  BY SumsFacts
<1>2. Sum(f) = U[NodeCount]
  BY DEF Sum
<1> HIDE DEF U
<1>3. 1 \in Nodes /\ U[1] = f[1]
  <2>1. 1 \in Nodes /\ f[1] \in Int
    BY DEF Nodes
  <2>2. U[1] = U[1 - 1] + f[1]
    BY <1>1, <2>1
  <2> QED
    BY <1>1, <2>1, <2>2
<1>4. NodeCount \in {2, 3} => 2 \in Nodes /\ U[2] = f[1] + f[2]
  <2> SUFFICES ASSUME NodeCount \in {2, 3} PROVE 2 \in Nodes /\ U[2] = f[1] + f[2]
    OBVIOUS
  <2>1. 2 \in Nodes
    BY DEF Nodes
  <2>2. U[2] = U[2 - 1] + f[2]
    BY <1>1, <2>1
  <2> QED
    BY <1>3, <2>1, <2>2
<1>5. NodeCount = 3 => U[3] = f[1] + f[2] + f[3]
  <2> SUFFICES ASSUME NodeCount = 3 PROVE U[3] = f[1] + f[2] + f[3]
    OBVIOUS
  <2>1. 3 \in Nodes
    BY DEF Nodes
  <2>2. U[3] = U[3 - 1] + f[3]
    BY <1>1, <2>1
  <2> QED
    BY <1>4, <2>1, <2>2
<1> QED
  BY <1>2, <1>3, <1>4, <1>5

\* A sum over up to three nodes, as one of them sees it.
LEMMA SumAround ==
  ASSUME NEW b \in Nodes, NodeCount <= 3
  PROVE  /\ NodeCount = 1 => Nodes = {b} /\ \A f \in [Nodes -> Int] : Sum(f) = f[b]
         /\ NodeCount = 2 => \E a \in Nodes \ {b} :
              Nodes = {a, b} /\ \A f \in [Nodes -> Int] : Sum(f) = f[a] + f[b]
         /\ NodeCount = 3 => \E a, d \in Nodes \ {b} :
              a # d /\ Nodes = {a, b, d} /\ \A f \in [Nodes -> Int] : Sum(f) = f[a] + f[b] + f[d]
<1>1. CASE NodeCount = 1
  <2>1. Nodes = {1}
    BY <1>1 DEF Nodes
  <2> QED
    BY <1>1, <2>1, SumOfFew
<1>2. CASE NodeCount = 2
  <2>1. Nodes = {1, 2}
    BY <1>2 DEF Nodes
  <2>2. \A f \in [Nodes -> Int] : f[1] \in Int /\ f[2] \in Int /\ Sum(f) = f[1] + f[2]
    BY <1>2, <2>1, SumOfFew
  <2>3. \A f \in [Nodes -> Int] : Sum(f) = f[2] + f[1]
    BY <2>2
  <2> QED
    BY <1>2, <2>1, <2>2, <2>3
<1>3. CASE NodeCount = 3
  <2>1. Nodes = {1, 2, 3}
    BY <1>3 DEF Nodes
  <2>2. \A f \in [Nodes -> Int] : f[1] \in Int /\ f[2] \in Int /\ f[3] \in Int /\ Sum(f) = f[1] + f[2] + f[3]
    BY <1>3, <2>1, SumOfFew
  <2>3. \A f \in [Nodes -> Int] : Sum(f) = f[2] + f[1] + f[3] /\ Sum(f) = f[1] + f[3] + f[2]
    BY <2>2
  <2>4. CASE b = 1
    BY <1>3, <2>1, <2>3, <2>4
  <2>5. CASE b = 2
    BY <1>3, <2>1, <2>2, <2>5
  <2>6. CASE b = 3
    BY <1>3, <2>1, <2>3, <2>6
  <2> QED
    BY <2>1, <2>4, <2>5, <2>6
<1> QED
  <2>1. NodeCount \in {1, 2, 3}
    OBVIOUS
  <2> QED
    BY <1>1, <1>2, <1>3, <2>1

\* The greatest of the nodes in H pays for what they have gained: all stay near 0.
LEMMA PaidBounds ==
  ASSUME NodeCount <= 3, NEW q \in Int, NEW c \in [Nodes -> Int], NEW g \in [Nodes -> Int],
         NEW H \in SUBSET Nodes, NEW b \in H,
         \A n \in Nodes : g[n] = IF n \in H THEN Weight[n] ELSE 0,
         \A n \in Nodes : - q < c[n] - g[n] /\ c[n] - g[n] < q,
         \A n \in H : c[n] <= c[b],
         0 <= Sum(c) - Sum(g), Sum(c) - Sum(g) <= q - Sum(Weight)
  PROVE  /\ - q < c[b] - Sum(g) /\ c[b] - Sum(g) < q
         /\ \A n \in Nodes \ {b} : - q < c[n] /\ c[n] < q
<1>1. Weight \in [Nodes -> Int] /\ b \in Nodes /\ \A n \in Nodes : Weight[n] >= 1
  OBVIOUS
<1>2. CASE NodeCount = 1
  <2>1. Nodes = {b} /\ \A f \in [Nodes -> Int] : Sum(f) = f[b]
    BY <1>1, <1>2, SumAround
  <2>2. Sum(g) = g[b]
    BY <2>1
  <2> QED
    BY <2>1, <2>2
<1>3. CASE NodeCount = 2
  <2>1. PICK a \in Nodes \ {b} : Nodes = {a, b} /\ \A f \in [Nodes -> Int] : Sum(f) = f[a] + f[b]
    BY <1>1, <1>3, SumAround
  <2>2. Sum(g) = g[a] + g[b] /\ Sum(c) = c[a] + c[b] /\ Sum(Weight) = Weight[a] + Weight[b]
    BY <1>1, <2>1
  <2>3. /\ c[a] \in Int /\ c[b] \in Int /\ g[a] \in Int /\ g[b] \in Int
        /\ Weight[a] \in Int /\ Weight[b] \in Int /\ Weight[a] >= 1 /\ Weight[b] >= 1
        /\ g[b] = Weight[b] /\ - q < c[b] - g[b] /\ c[b] - g[b] < q
        /\ - q < c[a] - g[a] /\ c[a] - g[a] < q
    BY <1>1, <2>1
  <2>4. /\ - q < c[b] - (g[a] + g[b]) /\ c[b] - (g[a] + g[b]) < q
        /\ - q < c[a] /\ c[a] < q
    <3>1. CASE a \in H
      <4>1. g[a] = Weight[a] /\ c[a] <= c[b]
        BY <2>1, <3>1
      <4> QED
        BY <2>2, <2>3, <4>1
    <3>2. CASE a \notin H
      <4>1. g[a] = 0
        BY <2>1, <3>2
      <4> QED
        BY <2>2, <2>3, <4>1
    <3> QED
      BY <3>1, <3>2
  <2> QED
    BY <2>1, <2>2, <2>4
<1>4. CASE NodeCount = 3
  <2>1. PICK a, d \in Nodes \ {b} :
          a # d /\ Nodes = {a, b, d} /\ \A f \in [Nodes -> Int] : Sum(f) = f[a] + f[b] + f[d]
    BY <1>1, <1>4, SumAround
  <2>2. /\ Sum(g) = g[a] + g[b] + g[d] /\ Sum(c) = c[a] + c[b] + c[d]
        /\ Sum(Weight) = Weight[a] + Weight[b] + Weight[d]
    BY <1>1, <2>1
  <2>3. /\ c[a] \in Int /\ c[b] \in Int /\ c[d] \in Int /\ g[a] \in Int /\ g[b] \in Int /\ g[d] \in Int
        /\ Weight[a] \in Int /\ Weight[b] \in Int /\ Weight[d] \in Int
        /\ Weight[a] >= 1 /\ Weight[b] >= 1 /\ Weight[d] >= 1
        /\ g[b] = Weight[b] /\ - q < c[b] - g[b] /\ c[b] - g[b] < q
        /\ - q < c[a] - g[a] /\ c[a] - g[a] < q
        /\ - q < c[d] - g[d] /\ c[d] - g[d] < q
    BY <1>1, <2>1
  <2>4. a \in H => g[a] = Weight[a] /\ c[a] <= c[b]
    BY <2>1
  <2>5. d \in H => g[d] = Weight[d] /\ c[d] <= c[b]
    BY <2>1
  <2>6. (a \notin H => g[a] = 0) /\ (d \notin H => g[d] = 0)
    BY <2>1
  <2>7. /\ - q < c[b] - (g[a] + g[b] + g[d]) /\ c[b] - (g[a] + g[b] + g[d]) < q
        /\ - q < c[a] /\ c[a] < q /\ - q < c[d] /\ c[d] < q
    <3>1. CASE a \in H /\ d \in H
      BY <2>2, <2>3, <2>4, <2>5, <3>1
    <3>2. CASE a \in H /\ d \notin H
      BY <2>2, <2>3, <2>4, <2>6, <3>2
    <3>3. CASE a \notin H /\ d \in H
      BY <2>2, <2>3, <2>5, <2>6, <3>3
    <3>4. CASE a \notin H /\ d \notin H
      BY <2>2, <2>3, <2>6, <3>4
    <3> QED
      BY <3>1, <3>2, <3>3, <3>4
  <2> QED
    BY <2>1, <2>2, <2>7
<1> QED
  <2>1. NodeCount \in {1, 2, 3}
    OBVIOUS
  <2> QED
    BY <1>2, <1>3, <1>4, <2>1

LEMMA MostFacts ==
  ASSUME TypeOK
  PROVE  /\ Sum(Weight) \in Nat \ {0} /\ most \in Int /\ Sum(Weight) <= most
         /\ \A j \in 0 .. flips : j * Sum(Weight) <= most - Sum(Weight)
<1> DEFINE T == Sum(Weight)
<1>1. T \in Nat \ {0} /\ flips \in Nat
  BY SumWeight DEF TypeOK
<1> HIDE DEF T
<1>2. (flips + 1) * T = flips * T + T /\ flips * T \in Nat
  BY <1>1
<1>3. \A j \in 0 .. flips : j * T <= flips * T /\ j * T \in Int
  BY <1>1, SMTT(30)
<1>4. \A j \in 0 .. flips : j * T <= flips * T + T - T
  BY <1>1, <1>2, <1>3
<1> QED
  BY <1>1, <1>2, <1>4 DEF most, T

LEMMA GrantedFacts ==
  ASSUME TypeOK
  PROVE  /\ granted \in [Nodes -> Int]
         /\ \A n \in Nodes : 0 <= granted[n] /\ granted[n] <= gained[n] /\ gained[n] <= Weight[n]
         /\ pc = "idle" => granted = Zero
         /\ pc \in {"choose", "return"} => \A n \in Nodes : granted[n] = IF n \in steady THEN Weight[n] ELSE 0
<1>1. \A n \in Nodes : /\ Weight[n] \in Nat
                       /\ gained[n] = IF Passed(n) THEN Weight[n] ELSE 0
                       /\ granted[n] = IF Passed(n) /\ n \in steady THEN Weight[n] ELSE 0
  BY DEF gained, granted
<1>2. granted \in [Nodes -> Int]
  BY <1>1 DEF granted
<1>3. \A n \in Nodes : 0 <= granted[n] /\ granted[n] <= gained[n] /\ gained[n] <= Weight[n]
  BY <1>1
<1>4. pc = "idle" => granted = Zero
  BY DEF granted, Passed, Zero
<1>5. pc \in {"choose", "return"} => \A n \in Nodes : granted[n] = IF n \in steady THEN Weight[n] ELSE 0
  BY <1>1 DEF Passed
<1> QED
  BY <1>2, <1>3, <1>4, <1>5

\* While nothing changes, the nodes that are up are those of the pick.
LEMMA SteadyAreHealthy ==
  ASSUME PickInv, pc # "idle", seen = steady, NEW n \in Nodes
  PROVE  healthy[n] <=> n \in steady
BY DEF PickInv, WalkInv

LEMMA NearInit == Init => NearInv
<1> SUFFICES ASSUME Init, NodeCount <= 3 PROVE Undisturbed
  BY DEF NearInv, Init
<1>1. TypeOK /\ pc = "idle" /\ current = Zero /\ total = 0 /\ best = None
  BY PickInit DEF Init, PickInv
<1>2. granted = Zero /\ most \in Int /\ Sum(Weight) \in Nat \ {0} /\ Sum(Weight) <= most
  BY <1>1, GrantedFacts, MostFacts
<1>3. \A n \in Nodes : current[n] - granted[n] = 0
  BY <1>1, <1>2 DEF Zero
<1> QED
  BY <1>1, <1>2, <1>3, SumZero DEF Undisturbed

LEMMA BeginKeepsNear == PickInv /\ NearInv /\ BeginPick => NearInv'
<1> SUFFICES ASSUME PickInv, NearInv, BeginPick, NodeCount <= 3 PROVE Undisturbed'
  BY DEF NearInv, BeginPick
<1>1. /\ UNCHANGED <<current, total, best, i, flips>> /\ pc = "idle" /\ pc' = "add" /\ best = None /\ i = 1
      /\ Undisturbed
  BY DEF BeginPick, PickInv, WalkInv, healthVars, NearInv
<1>2. granted = Zero /\ granted' = Zero
  <2>1. ASSUME NEW n \in Nodes PROVE ~ Passed(n) /\ ~ Passed(n)'
    BY <1>1 DEF Passed, Nodes
  <2> QED
    BY <2>1 DEF granted, Zero
<1>3. most' = most
  BY <1>1 DEF most
<1> QED
  BY <1>1, <1>2, <1>3 DEF Undisturbed

\* What a node gains is granted to it while nothing has changed, and gained in any case.
LEMMA AddKeepsNear == PickInv /\ NearInv /\ AddWeight => NearInv'
<1> SUFFICES ASSUME PickInv, NearInv, AddWeight, NodeCount <= 3
             PROVE  IF seen' = steady' THEN Undisturbed' ELSE Disturbed'
  BY WalkStep DEF NearInv, AddWeight, PickInv
<1>1. /\ TypeOK /\ i \in Nodes /\ Weight[i] \in Nat \ {0} /\ current \in [Nodes -> Int] /\ pc = "add"
      /\ UNCHANGED <<steady, seen, flips, best>> /\ most' = most
  BY DEF PickInv, TypeOK, AddWeight, historyVars, healthVars, most
<1>2. \A n \in Nodes : current'[n] = IF n = i /\ healthy[i] THEN current[n] + Weight[i] ELSE current[n]
  BY <1>1 DEF AddWeight, Gains
<1>3. gained \in [Nodes -> Int] /\ \A n \in Nodes : gained'[n] = IF n = i THEN gained[n] + Weight[i] ELSE gained[n]
  <2>1. gained \in [Nodes -> Int]
    BY <1>1, GainedFacts
  <2> QED
    BY <1>1, <2>1, GainedAdd
<1>4. CASE seen = steady
  <2>1. Undisturbed /\ (healthy[i] <=> i \in steady)
    BY <1>1, <1>4, SteadyAreHealthy DEF NearInv
  <2>2. granted \in [Nodes -> Int] /\ \A n \in Nodes : granted'[n] = IF n = i /\ healthy[i] THEN granted[n] + Weight[i] ELSE granted[n]
    <3>1. granted \in [Nodes -> Int]
      BY <1>1, GrantedFacts
    <3>2. \A n \in Nodes : Passed(n)' <=> (Passed(n) \/ n = i)
      <4>1. i \in 1 .. NodeCount /\ ((pc' = "add" /\ i' = i + 1) \/ (pc' = "choose" /\ i = NodeCount))
        BY <1>1, WalkStep DEF AddWeight, Nodes
      <4> QED
        BY <1>1, <4>1 DEF Passed, Nodes
    <3>3. ~ Passed(i)
      BY <1>1 DEF Passed, Nodes
    <3>4. \A n \in Nodes : granted'[n] = IF Passed(n)' /\ n \in steady THEN Weight[n] ELSE 0
      BY <1>1 DEF granted
    <3>5. \A n \in Nodes : granted[n] = IF Passed(n) /\ n \in steady THEN Weight[n] ELSE 0
      BY DEF granted
    <3> QED
      BY <1>1, <2>1, <3>1, <3>2, <3>3, <3>4, <3>5
  <2>3. \A n \in Nodes : current'[n] - granted'[n] = current[n] - granted[n]
    BY <1>1, <1>2, <2>2
  <2>4. total' = Sum(granted')
    <3>1. CASE healthy[i]
      <4>1. granted' = [granted EXCEPT ![i] = @ + Weight[i]]
        BY <1>1, <2>2, <3>1 DEF granted
      <4>2. total' = total + Weight[i] /\ Sum(granted') = Sum(granted) + Weight[i]
        <5>1. granted \in [Nodes -> Int] /\ i \in Nodes /\ Weight[i] \in Int
          BY <1>1, <2>2
        <5>2. Sum([granted EXCEPT ![i] = @ + Weight[i]]) = Sum(granted) + Weight[i]
          BY <5>1, SumChanged
        <5> QED
          BY <1>1, <3>1, <4>1, <5>2, CurrentAdd
      <4> QED
        BY <2>1, <4>2 DEF Undisturbed
    <3>2. CASE ~ healthy[i]
      <4>1. granted' = granted
        BY <2>2, <3>2 DEF granted
      <4> QED
        BY <1>1, <2>1, <3>2, <4>1, CurrentAdd DEF Undisturbed
    <3> QED
      BY <3>1, <3>2
  <2> QED
    BY <1>1, <1>4, <2>1, <2>3, <2>4 DEF Undisturbed
<1>5. CASE seen # steady
  <2>1. Disturbed /\ most \in Int /\ Sum(Weight) \in Nat
    BY <1>1, <1>5, MostFacts DEF NearInv
  <2>2. ASSUME NEW n \in Nodes
        PROVE  /\ Sum(Weight) - most < current'[n]
               /\ current'[n] - gained'[n] + Weight[n] < most
    <3>1. /\ Sum(Weight) - most < current[n] /\ current[n] - gained[n] + Weight[n] < most
          /\ current[n] \in Int /\ gained[n] \in Int /\ Weight[n] \in Int
      BY <1>1, <1>3, <2>1 DEF Disturbed
    <3> QED
      BY <1>1, <1>2, <1>3, <2>1, <3>1
  <2> QED
    BY <1>1, <1>5, <2>2 DEF Disturbed
<1> QED
  BY <1>4, <1>5

\* The second walk: of the nodes that have gained, the best is the greatest so far.
LEMMA ChooseKeepsNear == PickInv /\ NearInv /\ Choose => NearInv'
<1> SUFFICES ASSUME PickInv, NearInv, Choose, NodeCount <= 3
             PROVE  IF seen' = steady' THEN Undisturbed' ELSE Disturbed'
  BY WalkStep DEF NearInv, Choose, PickInv
<1>1. /\ TypeOK /\ i \in Nodes /\ current \in [Nodes -> Int] /\ pc = "choose"
      /\ UNCHANGED <<current, total, steady, seen, flips>> /\ most' = most /\ gained' = gained
  BY GainedSame DEF PickInv, TypeOK, Choose, historyVars, healthVars, most
<1>2. /\ i' \in Nodes
      /\ \/ i < NodeCount /\ i' = i + 1 /\ pc' = "choose"
         \/ i = NodeCount /\ i' = 1 /\ pc' = "return"
  BY <1>1, WalkStep DEF Choose
<1>3. CASE seen # steady
  BY <1>1, <1>3 DEF NearInv, Disturbed
<1>4. CASE seen = steady
  <2>1. Undisturbed /\ (healthy[i] <=> i \in steady)
    BY <1>1, <1>4, SteadyAreHealthy DEF NearInv
  <2>2. granted' = granted
    <3>1. \A n \in Nodes : Passed(n)' /\ Passed(n)
      BY <1>1, <1>2 DEF Passed
    <3> QED
      BY <1>1, <3>1 DEF granted
  <2>3. WalkedNodes = 1 .. i - 1 /\ WalkedNodes' = 1 .. i
    BY <1>1, <1>2 DEF WalkedNodes, Nodes
  <2>4. ASSUME best' # None, NEW n \in steady \cap WalkedNodes' PROVE current[n] <= current[best']
    <3>1. best' = IF Better(i) THEN i ELSE best
      BY DEF Choose
    <3>2. n \in Nodes /\ current[n] \in Int /\ current[i] \in Int /\ (n = i \/ n \in steady \cap WalkedNodes)
      BY <1>1, <2>3, <2>4 DEF Nodes, TypeOK
    <3>3. best # None => best \in Nodes /\ current[best] \in Int
      BY <1>1 DEF TypeOK
    <3>4. n \in steady \cap WalkedNodes => best # None /\ current[n] <= current[best]
      BY <1>1, <2>1 DEF PickInv, WalkInv, Undisturbed
    <3>5. CASE Better(i)
      <4>1. best' = i /\ (best = None \/ current[i] > current[best])
        BY <3>1, <3>5 DEF Better
      <4> QED
        BY <3>2, <3>3, <3>4, <4>1
    <3>6. CASE ~ Better(i)
      <4>1. best' = best /\ best # None /\ (healthy[i] => ~ (current[i] > current[best]))
        BY <2>4, <3>1, <3>6 DEF Better
      <4> QED
        BY <2>1, <3>2, <3>3, <3>4, <4>1
    <3> QED
      BY <3>5, <3>6
  <2> QED
    BY <1>1, <1>2, <1>4, <2>1, <2>2, <2>4 DEF Undisturbed
<1> QED
  BY <1>3, <1>4

\* At the end of a pick that nothing disturbed the greatest of the nodes that gained has paid
\* for all they gained; the room left by a change is enough for any other payment.
LEMMA ReturnKeepsNear == PickInv /\ SumInv /\ NearInv /\ Return => NearInv'
<1> SUFFICES ASSUME PickInv, SumInv, NearInv, Return, NodeCount <= 3 PROVE Undisturbed'
  BY DEF NearInv, Return
<1>1. /\ TypeOK /\ current \in [Nodes -> Int] /\ total \in Nat /\ Sum(current) \in Int
      /\ pc \in {"choose", "return"} /\ best \in Nodes \cup {None} /\ None \notin Nodes
      /\ pc' = "idle" /\ total' = 0 /\ best' = None /\ most' = most
  <2>1. TypeOK /\ UNCHANGED flips /\ None \notin Nodes
    BY DEF PickInv, Return, healthVars, None, Nodes
  <2>2. Sum(current) \in Int /\ most' = most
    BY <2>1, SumOfCurrent DEF most
  <2> QED
    BY <2>1, <2>2 DEF TypeOK, Return
<1>2. granted' = Zero /\ Sum(granted') = 0
  BY <1>1, SumZero DEF granted, Passed, Zero
<1>3. /\ Sum(Weight) \in Nat \ {0} /\ most \in Int
      /\ \A j \in 0 .. flips : j * Sum(Weight) <= most - Sum(Weight)
  BY <1>1, MostFacts
<1>4. \A n \in Nodes : current'[n] = IF n = best THEN current[n] - total ELSE current[n]
  BY DEF Return, Payment
<1>5. SUFFICES ASSUME NEW n \in Nodes PROVE - most < current'[n] /\ current'[n] < most
  <2>1. \A n \in Nodes : current'[n] \in Int
    BY <1>1, <1>4
  <2>2. \A n \in Nodes : current'[n] - granted'[n] = current'[n]
    BY <1>2, <2>1 DEF Zero
  <2> QED
    BY <1>1, <1>2, <1>5, <2>2 DEF Undisturbed
<1>6. CASE seen # steady
  <2>1. /\ Sum(Weight) - most < current[n] /\ current[n] - gained[n] + Weight[n] < most
        /\ gained = Weight /\ Weight[n] \in Int /\ current[n] \in Int
    BY <1>1, <1>6, GainedFacts DEF NearInv, Disturbed
  <2>2. total <= Sum(Weight)
    BY <2>1 DEF SumInv
  <2> QED
    BY <1>1, <1>3, <1>4, <2>1, <2>2
<1>7. CASE seen = steady /\ best = None
  <2>1. n \notin steady
    <3>1. CASE pc = "return"
      BY <1>7, <3>1 DEF PickInv, WalkInv, WalkedNodes
    <3>2. CASE pc = "choose"
      <4>1. total = 0
        BY <3>2 DEF Return
      <4> QED
        BY <1>1, <3>2, <4>1 DEF PickInv, WalkInv
    <3> QED
      BY <1>1, <3>1, <3>2
  <2>2. granted[n] = 0 /\ - most < current[n] - granted[n] /\ current[n] - granted[n] < most
    BY <1>1, <1>7, <2>1, GrantedFacts DEF NearInv, Undisturbed
  <2> QED
    BY <1>1, <1>4, <1>7, <2>2
<1>8. CASE seen = steady /\ best # None
  <2>1. best \in steady /\ best \in Nodes /\ Undisturbed
    BY <1>1, <1>8 DEF PickInv, WalkInv, NearInv
  <2>2. pc = "return"
    BY <1>1, <2>1 DEF PickInv, WalkInv, Return
  <2>3. \A m \in steady : current[m] <= current[best]
    <3>1. WalkedNodes = Nodes /\ steady \subseteq Nodes
      BY <1>1, <2>2 DEF WalkedNodes, TypeOK
    <3> QED
      BY <1>8, <2>1, <3>1 DEF Undisturbed
  <2>4. 0 <= Sum(current) - total /\ Sum(current) - total <= most - Sum(Weight)
    <3>1. PICK j \in 0 .. flips : 0 <= Sum(current) - total /\ Sum(current) - total <= j * Sum(Weight)
      BY DEF SumInv
    <3>2. j * Sum(Weight) <= most - Sum(Weight) /\ j * Sum(Weight) \in Int
      BY <1>1, <1>3 DEF TypeOK
    <3> QED
      BY <1>1, <1>3, <3>1, <3>2
  <2>5. /\ granted \in [Nodes -> Int] /\ total = Sum(granted)
        /\ \A m \in Nodes : granted[m] = IF m \in steady THEN Weight[m] ELSE 0
        /\ \A m \in Nodes : - most < current[m] - granted[m] /\ current[m] - granted[m] < most
        /\ steady \in SUBSET Nodes
    BY <1>1, <2>1, <2>2, GrantedFacts DEF Undisturbed, TypeOK
  <2>6. /\ - most < current[best] - total /\ current[best] - total < most
        /\ \A m \in Nodes \ {best} : - most < current[m] /\ current[m] < most
    BY <1>1, <1>3, <2>1, <2>3, <2>4, <2>5, PaidBounds
  <2> QED
    BY <1>4, <2>6
<1> QED
  BY <1>6, <1>7, <1>8

\* A change of health makes room for one more sum; without one the pick goes on as it was.
LEMMA ProbeKeepsNear == ASSUME PickInv, NearInv, NEW ok \in BOOLEAN, Probe(ok) PROVE NearInv'
<1> SUFFICES ASSUME NodeCount <= 3
             PROVE  IF pc' = "idle" \/ seen' = steady' THEN Undisturbed' ELSE Disturbed'
  BY DEF NearInv
<1>1. /\ TypeOK /\ current \in [Nodes -> Int] /\ UNCHANGED <<current, total, best, pc, i>>
      /\ Sum(Weight) \in Nat \ {0} /\ most \in Int /\ Sum(Weight) <= most
  BY MostFacts DEF Probe, pickVars, PickInv, TypeOK
<1>2. gained' = gained /\ WalkedNodes' = WalkedNodes
  BY <1>1, GainedSame DEF Health, WalkedNodes, Nodes
<1>3. most' = IF healthy' = healthy THEN most ELSE most + Sum(Weight)
  <2>1. flips \in Nat /\ flips' = IF healthy' = healthy THEN flips ELSE flips + 1
    BY <1>1 DEF Probe, TypeOK
  <2> DEFINE T == Sum(Weight)
  <2>2. T \in Nat
    BY <1>1
  <2> HIDE DEF T
  <2>3. (flips + 1 + 1) * T = (flips + 1) * T + T
    BY <2>1, <2>2
  <2> QED
    BY <2>1, <2>3 DEF most, T
<1>4. CASE pc = "idle"
  <2>1. Undisturbed /\ granted = Zero /\ granted' = Zero
    BY <1>1, <1>4 DEF NearInv, granted, Passed, Zero
  <2>2. ASSUME NEW n \in Nodes PROVE - most' < current[n] - 0 /\ current[n] - 0 < most'
    <3>1. - most < current[n] - 0 /\ current[n] - 0 < most /\ current[n] \in Int
      BY <1>1, <2>1 DEF Undisturbed, Zero
    <3> QED
      BY <1>1, <1>3, <3>1
  <2>3. \A n \in Nodes : Zero[n] = 0
    BY DEF Zero
  <2> QED
    BY <1>1, <1>4, <2>1, <2>2, <2>3 DEF Undisturbed
<1>5. CASE pc # "idle" /\ healthy' = healthy
  <2>1. steady' = steady /\ seen' = seen /\ flips' = flips
    BY <1>5 DEF Probe, PickInv, TypeOK, WalkInv
  <2>2. granted' = granted /\ most' = most
    BY <1>1, <2>1 DEF granted, Passed, most
  <2> QED
    BY <1>1, <1>2, <1>5, <2>1, <2>2 DEF NearInv, Undisturbed, Disturbed
<1>6. CASE pc # "idle" /\ healthy' # healthy
  <2>1. most' = most + Sum(Weight)
    BY <1>3, <1>6
  <2>2. seen' # steady'
    <3>1. PICK n \in Nodes : healthy'[n] # healthy[n]
      BY <1>1, <1>6, ProbeKeeps DEF PickInv, TypeOK
    <3>2. n \in seen'
      <4>1. healthy[n] => n \in seen
        BY <1>6 DEF PickInv, WalkInv
      <4>2. healthy'[n] \/ healthy[n]
        BY <1>1, <3>1, ProbeKeeps DEF PickInv, TypeOK
      <4> QED
        BY <1>6, <4>1, <4>2 DEF Probe
    <3>3. n \notin steady'
      <4>1. n \in steady => healthy[n]
        BY DEF PickInv, WalkInv
      <4>2. ~ (healthy'[n] /\ healthy[n])
        BY <1>1, <3>1, ProbeKeeps DEF PickInv, TypeOK
      <4> QED
        BY <4>1, <4>2 DEF Probe
    <3> QED
      BY <3>2, <3>3
  <2>3. ASSUME NEW n \in Nodes
        PROVE  Sum(Weight) - most' < current[n] /\ current[n] - gained[n] + Weight[n] < most'
    <3>1. /\ current[n] \in Int /\ granted[n] \in Int /\ gained[n] \in Int
          /\ Weight[n] \in Nat /\ Weight[n] <= Sum(Weight)
          /\ 0 <= granted[n] /\ granted[n] <= gained[n] /\ gained[n] <= Weight[n]
      BY <1>1, GrantedFacts, GainedFacts, SumWeight
    <3>2. CASE seen = steady
      <4>1. - most < current[n] - granted[n] /\ current[n] - granted[n] < most
        BY <1>6, <3>2 DEF NearInv, Undisturbed
      <4> QED
        BY <1>1, <2>1, <3>1, <4>1
    <3>3. CASE seen # steady
      <4>1. Sum(Weight) - most < current[n] /\ current[n] - gained[n] + Weight[n] < most
        BY <1>6, <3>3 DEF NearInv, Disturbed
      <4> QED
        BY <1>1, <2>1, <3>1, <4>1
    <3> QED
      BY <3>2, <3>3
  <2> QED
    BY <1>1, <1>2, <1>6, <2>2, <2>3 DEF Disturbed
<1> QED
  BY <1>4, <1>5, <1>6

LEMMA NearStep == PickInv /\ SumInv /\ NearInv /\ [Next]_vars => NearInv'
<1> SUFFICES ASSUME PickInv, SumInv, NearInv, [Next]_vars PROVE NearInv'
  OBVIOUS
<1>1. CASE BeginPick
  BY <1>1, BeginKeepsNear
<1>2. CASE AddWeight
  BY <1>2, AddKeepsNear
<1>3. CASE Choose
  BY <1>3, ChooseKeepsNear
<1>4. CASE Return
  BY <1>4, ReturnKeepsNear
<1>5. CASE Health
  BY <1>5, ProbeKeepsNear DEF Health
<1>6. CASE UNCHANGED vars
  <2>1. UNCHANGED <<current, pc, i, total, best, steady, seen, flips>>
    BY <1>6 DEF vars, pickVars, healthVars, historyVars
  <2>2. gained' = gained /\ granted' = granted /\ WalkedNodes' = WalkedNodes /\ most' = most
    BY <2>1 DEF gained, granted, Passed, WalkedNodes, most, Nodes
  <2>3. Undisturbed' = Undisturbed /\ Disturbed' = Disturbed
    BY <2>1, <2>2 DEF Undisturbed, Disturbed
  <2> QED
    BY <2>1, <2>3 DEF NearInv
<1> QED
  BY <1>1, <1>2, <1>3, <1>4, <1>5, <1>6 DEF Next, Walk

\* Between picks, whatever the health thread stored in the middle of them, the current weights
\* add up to no more than Sum(Weight) for each change of health, and of up to three nodes none
\* is off by more than that and one Sum(Weight): no change is ever forgotten, none counts twice.
THEOREM DisplacementLimited == Spec => []DisplacementBounded
<1>1. PickInv /\ SumInv /\ NearInv => DisplacementBounded
  <2> SUFFICES ASSUME PickInv, SumInv, NearInv, pc = "idle" PROVE DisplacementBounded
    BY DEF DisplacementBounded
  <2>1. ASSUME NodeCount <= 3, NEW n \in Nodes PROVE - most < current[n] /\ current[n] < most
    <3>1. granted[n] = 0 /\ current[n] \in Int
      BY GrantedFacts DEF PickInv, TypeOK, Zero
    <3>2. - most < current[n] - granted[n] /\ current[n] - granted[n] < most
      BY <2>1 DEF NearInv, Undisturbed
    <3> QED
      BY <3>1, <3>2
  <2> QED
    BY <2>1, SumBetweenPicks DEF DisplacementBounded, most
<1> QED
  BY <1>1, SumInit, NearInit, PickInvariant, SumStep, NearStep, PTL DEF Spec

-----------------------------------------------------------------------------
(* The shares of the nodes, while none has been down.                       *)

\* No node is farther behind than the others can be ahead of it, and the one that is picked
\* has something to pay from.
LEMMA GreatestBounds ==
  ASSUME NEW c \in [Nodes -> Int], NEW b \in Nodes, Sum(c) = Sum(Weight),
         \A n \in Nodes : c[n] <= c[b] /\ 2 - Sum(Weight) <= c[n]
  PROVE  /\ 1 <= c[b]
         /\ \A n \in Nodes \ {b} : NearShare(c[n])
<1> DEFINE T == Sum(Weight)
<1>1. T \in Nat \ {0} /\ NodeCount \in Nat \ {0}
  BY SumWeight
<1> HIDE DEF T
<1>2. 1 <= c[b]
  <2>1. SUFFICES ASSUME c[b] <= 0 PROVE FALSE
    OBVIOUS
  <2>2. \A n \in Nodes : c[n] <= Zero[n]
    BY <2>1 DEF Zero
  <2>3. Sum(c) <= Sum(Zero)
    BY <2>2, SumZero, SumMonotone
  <2> QED
    BY <1>1, <2>3, SumZero DEF T
<1>3. ASSUME NEW n \in Nodes \ {b} PROVE NearShare(c[n])
  <2> DEFINE k == [m \in Nodes |-> 2 - T]
             x == c[n] - (2 - T)
             y == c[b] - (2 - T)
             g == [k EXCEPT ![n] = @ + x]
             h == [g EXCEPT ![b] = @ + y]
  <2>1. k \in [Nodes -> Int] /\ g \in [Nodes -> Int] /\ h \in [Nodes -> Int] /\ x \in Int /\ y \in Int
    BY <1>1
  <2>2. \A m \in Nodes : h[m] = IF m = b THEN c[b] ELSE IF m = n THEN c[n] ELSE 2 - T
    BY <1>1
  <2>3. Sum(k) = NodeCount * (2 - T)
    BY <1>1, SumConstant
  <2> HIDE DEF k, x, y
  <2>4. Sum(g) = Sum(k) + x
    BY <2>1, SumChanged
  <2> HIDE DEF g
  <2>5. Sum(h) = Sum(g) + y
    BY <2>1, SumChanged
  <2>6. Sum(h) <= Sum(c)
    <3>1. \A m \in Nodes : h[m] <= c[m]
      BY <2>2 DEF T
    <3> HIDE DEF h
    <3> QED
      BY <2>1, <3>1, SumMonotone
  <2>7. NodeCount * (2 - T) + x + y <= T
    BY <1>1, <2>1, <2>3, <2>4, <2>5, <2>6 DEF T
  <2>8. /\ NodeCount * (2 - T) = 2 * NodeCount - NodeCount * T
        /\ (NodeCount - 1) * T = NodeCount * T - T
        /\ NodeCount * T \in Int
    BY <1>1
  <2>9. c[n] \in Int /\ c[b] \in Int /\ c[n] <= c[b] /\ 2 - T <= c[n] /\ 2 <= NodeCount
    BY DEF T, Nodes
  <2>10. 2 * c[n] <= (NodeCount - 1) * T - 2 * (NodeCount - 2)
    BY <1>1, <2>7, <2>8, <2>9 DEF x, y
  <2>11. - T < c[n] /\ 2 * c[n] <= (NodeCount - 1) * T
    BY <1>1, <2>8, <2>9, <2>10
  <2>12. NodeCount = 3 => c[n] < T
    BY <1>1, <2>9, <2>10
  <2> QED
    BY <2>11, <2>12 DEF NearShare, T
<1> QED
  BY <1>2, <1>3

LEMMA NearZero == NearShare(0)
<1> DEFINE T == Sum(Weight)
<1>1. T \in Nat \ {0}
  BY SumWeight
<1> HIDE DEF T
<1>2. 0 <= (NodeCount - 1) * T
  BY <1>1
<1> QED
  BY <1>1, <1>2 DEF NearShare, T

LEMMA NearBelow ==
  ASSUME NEW x \in Int, NEW y \in Int, NearShare(x), - Sum(Weight) < y, y <= x
  PROVE  NearShare(y)
<1> DEFINE T == Sum(Weight)
<1>1. T \in Nat \ {0}
  BY SumWeight
<1> HIDE DEF T
<1>2. 2 * x <= (NodeCount - 1) * T /\ (NodeCount - 1) * T \in Int /\ (NodeCount = 3 => x < T) /\ - T < y
  BY <1>1 DEF NearShare, T
<1>3. 2 * y <= (NodeCount - 1) * T /\ (NodeCount = 3 => y < T)
  BY <1>1, <1>2
<1> QED
  BY <1>2, <1>3 DEF NearShare, T

\* The share a node has had of the picks, as its current weight tells it.
LEMMA NearFromBooks ==
  ASSUME NEW c \in Int, NEW g \in Int, NEW w \in Int, NEW k \in Int, NEW p \in Int,
         c + k * Sum(Weight) = w * p + g, NearShare(c - g)
  PROVE  NearShare(w * p - k * Sum(Weight))
<1>1. w * p \in Int /\ k * Sum(Weight) \in Int
  BY SumWeight
<1>2. w * p - k * Sum(Weight) = c - g
  BY <1>1
<1> QED
  BY <1>2

\* The first half of SmoothShares, which outlives a change of health.
HitsNear == \A n \in Nodes : NearShare(Weight[n] * Sum(hits) - hits[n] * Sum(Weight))

\* What the picks of a round leave at its end.
LEMMA RoundEnds ==
  ASSUME NEW c \in Int, NEW w \in Int, NEW k \in Int,
         c + k * Sum(Weight) = w * Sum(Weight), - Sum(Weight) < c
  PROVE  0 <= c
<1> DEFINE T == Sum(Weight)
           q == w - k
<1>1. T \in Nat \ {0} /\ q \in Int
  BY SumWeight
<1>2. c = q * T
  <2>1. q * T = w * T - k * T /\ w * T \in Int /\ k * T \in Int
    BY <1>1
  <2> QED
    BY <2>1
<1> HIDE DEF T, q
<1>3. - T < q * T
  BY <1>2 DEF T
<1>4. 0 <= q
  <2>1. SUFFICES ASSUME q <= -1 PROVE FALSE
    BY <1>1
  <2>2. q * T <= -1 * T
    BY <1>1, <2>1, SMTT(30)
  <2> QED
    BY <1>1, <1>3, <2>2
<1>5. 0 <= q * T
  BY <1>1, <1>4
<1> QED
  BY <1>2, <1>5

\* The node chosen pays for all that was given out, and so the books are kept.
LEMMA ReturnKeepsShares ==
  ASSUME PickInv, SharesInv, flips = 0, Return
  PROVE  SharesInv' /\ HitsNear'
<1> DEFINE T == Sum(Weight)
           h == [hits EXCEPT ![best] = @ + 1]
<1>1. /\ TypeOK /\ current \in [Nodes -> Int] /\ hits \in [Nodes -> Nat] /\ total \in Nat
      /\ T \in Nat \ {0} /\ Sum(hits) \in Int /\ hits \in [Nodes -> Int]
  <2>1. hits \in [Nodes -> Int]
    BY DEF PickInv, TypeOK
  <2> QED
    BY <2>1, SumWeight, SumsFacts DEF PickInv, TypeOK
<1>2. pc = "return" /\ total = T /\ gained = Weight /\ Sum(current) = T
  <2>1. pc \in {"choose", "return"}
    BY DEF Return
  <2>2. gained = Weight
    BY <1>1, <2>1, GainedFacts
  <2> QED
    BY <1>1, <2>1, <2>2 DEF SharesInv, Return
<1>3. best \in Nodes /\ best # None /\ \A n \in Nodes : current[n] <= current[best]
  BY <1>2 DEF SharesInv, BestIsGreatest, WalkedNodes, None, Nodes
<1>4. /\ current' = [current EXCEPT ![best] = @ + (- T)] /\ Sum(current') = 0
      /\ \A n \in Nodes : current'[n] = IF n = best THEN current[n] - T ELSE current[n]
  <2>1. current' = [current EXCEPT ![best] = @ + (- T)]
    BY <1>1, <1>2, <1>3, CurrentPaid
  <2>2. Sum(current') = 0
    BY <1>1, <1>2, <1>3, CurrentPaid
  <2> HIDE DEF T
  <2>3. \A n \in Nodes : current'[n] = IF n = best THEN current[n] - T ELSE current[n]
    BY <1>1, <1>3, <2>1
  <2> QED
    BY <2>1, <2>2, <2>3
<1>5. /\ gained' = Zero /\ pc' = "idle" /\ total' = 0 /\ best' = None /\ flips' = flips /\ healthy' = healthy
      /\ hits' = IF Sum(hits) + 1 = T THEN Zero ELSE h
  BY <1>3 DEF Return, gained, Passed, Zero, healthVars
<1>6. \A n \in Nodes : /\ Weight[n] \in Nat \ {0} /\ current[n] \in Int /\ hits[n] \in Nat
                       /\ NearShare(current[n] - Weight[n])
                       /\ current[n] + hits[n] * T = Weight[n] * Sum(hits) + Weight[n]
  BY <1>1, <1>2 DEF SharesInv, SharesBounded, BooksKept
<1>7. \A n \in Nodes : 2 - T <= current[n]
  <2> SUFFICES ASSUME NEW n \in Nodes PROVE 2 - T <= current[n]
    OBVIOUS
  <2>1. - T < current[n] - Weight[n]
    BY <1>6 DEF NearShare
  <2>2. Weight[n] \in Nat \ {0} /\ current[n] \in Int
    BY <1>6
  <2> HIDE DEF T
  <2> QED
    BY <1>1, <2>1, <2>2
<1>8. 1 <= current[best] /\ \A n \in Nodes \ {best} : NearShare(current[n])
  BY <1>1, <1>2, <1>3, <1>7, GreatestBounds
<1>9. ASSUME NEW n \in Nodes PROVE NearShare(current'[n])
  <2>1. CASE n # best
    BY <1>4, <1>8, <2>1
  <2>2. CASE n = best
    <3>1. current[n] - Weight[n] \in Int /\ current[n] - T \in Int
      BY <1>1, <1>6
    <3>2. - T < current[n] - T /\ current[n] - T <= current[n] - Weight[n]
      <4>1. Weight[n] <= T
        BY SumWeight
      <4> HIDE DEF T
      <4> QED
        BY <1>1, <1>6, <1>8, <2>2, <4>1
    <3>3. NearShare(current[n] - T)
      BY <1>6, <3>1, <3>2, NearBelow
    <3> QED
      BY <1>4, <2>2, <3>3
  <2> QED
    BY <2>1, <2>2
<1>10. h \in [Nodes -> Int] /\ Sum(h) = Sum(hits) + 1 /\ \A n \in Nodes : h[n] = IF n = best THEN hits[n] + 1 ELSE hits[n]
  <2>1. Sum(h) = Sum(hits) + 1
    <3>1. hits \in [Nodes -> Int] /\ best \in Nodes /\ 1 \in Int
      BY <1>1, <1>3
    <3> QED
      BY <3>1, SumChanged
  <2> QED
    BY <1>1, <1>3, <2>1
<1> HIDE DEF h
<1>11. ASSUME NEW n \in Nodes PROVE current'[n] + h[n] * T = Weight[n] * Sum(h) /\ current'[n] \in Int
  <2>1. /\ Weight[n] * (Sum(hits) + 1) = Weight[n] * Sum(hits) + Weight[n]
        /\ (hits[n] + 1) * T = hits[n] * T + T
        /\ Weight[n] * Sum(hits) \in Int /\ hits[n] * T \in Int
    <3> HIDE DEF T
    <3> QED
      BY <1>1, <1>6
  <2>2. /\ current[n] + hits[n] * T = Weight[n] * Sum(hits) + Weight[n] /\ current[n] \in Int /\ Weight[n] \in Int
        /\ current'[n] = IF n = best THEN current[n] - T ELSE current[n]
        /\ h[n] = IF n = best THEN hits[n] + 1 ELSE hits[n]
    BY <1>4, <1>6, <1>10
  <2>3. CASE n = best
    <3>1. current'[n] = current[n] - T /\ h[n] * T = hits[n] * T + T
      BY <2>1, <2>2, <2>3
    <3> HIDE DEF T
    <3> QED
      BY <1>1, <1>10, <2>1, <2>2, <3>1
  <2>4. CASE n # best
    BY <1>10, <2>1, <2>2, <2>4
  <2> QED
    BY <2>3, <2>4
<1>12. ASSUME NEW n \in Nodes
       PROVE  current'[n] + hits'[n] * T = Weight[n] * Sum(hits') + 0 /\ hits'[n] \in Int /\ Sum(hits') \in Int
  <2>1. CASE Sum(hits) + 1 # T
    <3>1. hits' = h
      BY <1>5, <2>1
    <3>2. Weight[n] * Sum(h) \in Int /\ h[n] \in Int /\ Sum(h) \in Int
      BY <1>1, <1>6, <1>10
    <3> QED
      BY <1>11, <3>1, <3>2
  <2>2. CASE Sum(hits) + 1 = T
    <3>1. \A m \in Nodes : 0 <= current'[m]
      <4> SUFFICES ASSUME NEW m \in Nodes PROVE 0 <= current'[m]
        OBVIOUS
      <4>1. current'[m] + h[m] * T = Weight[m] * T /\ current'[m] \in Int /\ h[m] \in Int /\ Weight[m] \in Int
        BY <1>6, <1>10, <1>11, <2>2
      <4>2. - T < current'[m]
        BY <1>9 DEF NearShare
      <4> QED
        BY <4>1, <4>2, RoundEnds
    <3>2. current' \in [Nodes -> Int]
      BY <1>1, <1>3, <1>4, SumWeight
    <3>3. current'[n] <= 0
      BY <1>4, <3>1, <3>2, SumCovers
    <3>4. current'[n] = 0
      BY <3>1, <3>2, <3>3
    <3>5. hits' = Zero /\ hits'[n] = 0 /\ Sum(hits') = 0
      BY <1>5, <2>2, SumZero DEF Zero
    <3> HIDE DEF T
    <3> QED
      BY <1>1, <1>6, <3>4, <3>5
  <2> QED
    BY <2>1, <2>2
<1>13. \A n \in Nodes : gained'[n] = 0 /\ current'[n] - 0 = current'[n]
  BY <1>5, <1>11 DEF Zero
<1>14. BooksKept' /\ SharesBounded' /\ BestIsGreatest'
  BY <1>5, <1>9, <1>12, <1>13 DEF BooksKept, SharesBounded, BestIsGreatest
<1>15. SharesInv'
  BY <1>4, <1>5, <1>14, SumZero DEF SharesInv
<1>16. ASSUME NEW n \in Nodes PROVE NearShare(Weight[n] * Sum(hits') - hits'[n] * Sum(Weight))
  <2>1. NearShare(current'[n] - 0) /\ current'[n] \in Int /\ Weight[n] \in Int /\ 0 \in Int
    BY <1>6, <1>9, <1>11, <1>13
  <2> QED
    BY <1>12, <2>1, NearFromBooks
<1> QED
  BY <1>15, <1>16 DEF HitsNear

\* A node that gains its weight is not farther from its share, which grows as well.
LEMMA AddKeepsShares == PickInv /\ SharesInv /\ AddWeight => SharesInv'
<1> SUFFICES ASSUME PickInv, SharesInv, AddWeight, flips' = 0 PROVE SharesInv'
  BY DEF SharesInv
<1>1. /\ TypeOK /\ flips = 0 /\ i \in Nodes /\ Weight[i] \in Nat \ {0}
      /\ UNCHANGED <<healthy, hits, best, flips>> /\ pc = "add"
  BY DEF PickInv, TypeOK, AddWeight, historyVars, healthVars
<1>2. /\ i' \in Nodes
      /\ \/ pc' = "add"
         \/ pc' = "choose" /\ i' = 1
  BY <1>1, WalkStep DEF AddWeight
<1>3. healthy[i] /\ BooksKept /\ SharesBounded /\ best = None /\ Sum(current) = total /\ total = Sum(gained)
  BY <1>1 DEF SharesInv, BestIsGreatest
<1>4. /\ current \in [Nodes -> Int] /\ gained \in [Nodes -> Int]
      /\ current' = [current EXCEPT ![i] = @ + Weight[i]] /\ gained' = [gained EXCEPT ![i] = @ + Weight[i]]
  BY <1>1, <1>3, GainedFacts, GainedAdd DEF TypeOK, AddWeight, Gains
<1>5. Sum(current') = total' /\ total' = Sum(gained')
  BY <1>1, <1>3, CurrentAdd, GainedAdd
<1>6. \A n \in Nodes : /\ current[n] \in Int /\ gained[n] \in Int
                       /\ current'[n] = IF n = i THEN current[n] + Weight[i] ELSE current[n]
                       /\ gained'[n] = IF n = i THEN gained[n] + Weight[i] ELSE gained[n]
  BY <1>1, <1>4
<1>7. \A n \in Nodes : current'[n] - gained'[n] = current[n] - gained[n]
  BY <1>1, <1>6
<1>8. SharesBounded'
  BY <1>3, <1>7 DEF SharesBounded
<1>9. BooksKept'
  <2> SUFFICES ASSUME NEW n \in Nodes
               PROVE  current'[n] + hits[n] * Sum(Weight) = Weight[n] * Sum(hits) + gained'[n]
    BY <1>1 DEF BooksKept
  <2>1. hits \in [Nodes -> Int] /\ hits[n] \in Int /\ Weight[n] \in Int
    BY <1>1 DEF TypeOK
  <2> DEFINE p == hits[n] * Sum(Weight)
             q == Weight[n] * Sum(hits)
  <2>2. p \in Int /\ q \in Int
    <3>1. Sum(hits) \in Int /\ Sum(Weight) \in Int
      BY <2>1, SumWeight, SumsFacts
    <3> QED
      BY <2>1, <3>1
  <2>3. current[n] + p = q + gained[n]
    BY <1>3 DEF BooksKept
  <2> HIDE DEF p, q
  <2>4. /\ current[n] \in Int /\ gained[n] \in Int /\ current'[n] \in Int /\ gained'[n] \in Int
        /\ current'[n] - gained'[n] = current[n] - gained[n]
    BY <1>1, <1>6, <1>7
  <2>5. current'[n] + p = q + gained'[n]
    BY <2>2, <2>3, <2>4
  <2> QED
    BY <2>5 DEF p, q
<1>10. BestIsGreatest'
  BY <1>1, <1>2, <1>3 DEF BestIsGreatest
<1> QED
  BY <1>1, <1>5, <1>8, <1>9, <1>10 DEF SharesInv

\* The second walk finds the greatest: none of the nodes it compares is down.
LEMMA ChooseKeepsShares == PickInv /\ SharesInv /\ Choose => SharesInv'
<1> SUFFICES ASSUME PickInv, SharesInv, Choose, flips' = 0 PROVE SharesInv'
  BY DEF SharesInv
<1>1. /\ TypeOK /\ flips = 0 /\ i \in Nodes /\ pc = "choose"
      /\ UNCHANGED <<healthy, current, hits, total, flips>>
  BY DEF PickInv, TypeOK, Choose, historyVars, healthVars
<1>2. gained' = gained
  BY GainedSame
<1>3. /\ i' \in Nodes
      /\ \/ i < NodeCount /\ i' = i + 1 /\ pc' = "choose"
         \/ i = NodeCount /\ i' = 1 /\ pc' = "return"
  BY <1>1, WalkStep DEF Choose
<1>4. WalkedNodes = 1 .. i - 1 /\ WalkedNodes' = 1 .. i
  BY <1>1, <1>3 DEF WalkedNodes, Nodes
<1>5. healthy[i] /\ BestIsGreatest /\ current[i] \in Int /\ None \notin Nodes /\ i \in 1 .. NodeCount
  BY <1>1 DEF SharesInv, TypeOK, None, Nodes
<1>6. best' = IF best = None \/ current[i] > current[best] THEN i ELSE best
  BY <1>5 DEF Choose, Better
<1>7. best' \in Nodes /\ \A n \in 1 .. i : current[n] <= current[best']
  <2>1. CASE best = None
    <3>1. i = 1 /\ best' = i
      BY <1>1, <1>5, <1>6, <2>1 DEF BestIsGreatest
    <3> QED
      BY <1>1, <1>5, <3>1
  <2>2. CASE best # None
    <3>1. best \in Nodes /\ \A n \in 1 .. i - 1 : current[n] <= current[best]
      BY <1>4, <1>5, <2>2 DEF BestIsGreatest
    <3>2. current[best] \in Int /\ \A n \in 1 .. i : current[n] \in Int /\ (n = i \/ n \in 1 .. i - 1)
      <4>1. current \in [Nodes -> Int]
        BY <1>1 DEF TypeOK
      <4>2. \A n \in 1 .. i : n \in Nodes /\ (n = i \/ n \in 1 .. i - 1)
        BY <1>5 DEF Nodes
      <4> QED
        BY <3>1, <4>1, <4>2
    <3>3. CASE current[i] > current[best]
      <4>1. best' = i
        BY <1>6, <3>3
      <4> QED
        BY <1>1, <1>5, <3>1, <3>2, <3>3, <4>1
    <3>4. CASE ~ (current[i] > current[best])
      <4>1. best' = best
        BY <1>6, <2>2, <3>4
      <4> QED
        BY <1>5, <3>1, <3>2, <3>4, <4>1
    <3> QED
      BY <3>3, <3>4
  <2> QED
    BY <2>1, <2>2
<1>8. BestIsGreatest'
  BY <1>1, <1>3, <1>4, <1>7 DEF BestIsGreatest
<1>9. BooksKept' /\ SharesBounded'
  BY <1>1, <1>2 DEF SharesInv, BooksKept, SharesBounded
<1> QED
  BY <1>1, <1>2, <1>8, <1>9 DEF SharesInv

LEMMA BeginKeepsShares == PickInv /\ SharesInv /\ BeginPick => SharesInv'
<1> SUFFICES ASSUME PickInv, SharesInv, BeginPick, flips' = 0 PROVE SharesInv'
  BY DEF SharesInv
<1>1. /\ flips = 0 /\ pc = "idle" /\ pc' = "add"
      /\ UNCHANGED <<healthy, current, hits, total, best, flips>>
  BY DEF BeginPick, healthVars
<1>2. gained' = gained
  BY GainedSame
<1>3. BestIsGreatest' /\ BooksKept' /\ SharesBounded'
  BY <1>1, <1>2 DEF SharesInv, BestIsGreatest, BooksKept, SharesBounded
<1> QED
  BY <1>1, <1>2, <1>3 DEF SharesInv

\* A probe that changes nothing.
LEMMA ProbeKeepsShares == ASSUME PickInv, SharesInv, NEW ok \in BOOLEAN, Probe(ok) PROVE SharesInv'
<1> SUFFICES ASSUME flips' = 0 PROVE SharesInv'
  BY DEF SharesInv
<1>1. flips \in Nat
  BY DEF PickInv, TypeOK
<1>2. healthy' = healthy /\ flips = 0
  <2>1. CASE healthy' = healthy
    BY <2>1 DEF Probe
  <2>2. CASE healthy' # healthy
    BY <1>1, <2>2 DEF Probe
  <2> QED
    BY <2>1, <2>2
<1>3. UNCHANGED <<current, pc, i, total, best, hits>>
  BY DEF Probe, pickVars
<1>4. gained' = gained /\ WalkedNodes' = WalkedNodes
  BY <1>3 DEF gained, Passed, WalkedNodes, Nodes
<1>5. BestIsGreatest' /\ BooksKept' /\ SharesBounded'
  BY <1>2, <1>3, <1>4 DEF SharesInv, BestIsGreatest, BooksKept, SharesBounded
<1> QED
  BY <1>2, <1>3, <1>4, <1>5 DEF SharesInv

\* The picks of a round change at its end only, and after a change of health they begin anew.
LEMMA SharesStep == PickInv /\ SharesInv /\ HitsNear /\ [Next]_vars => SharesInv' /\ HitsNear'
<1> SUFFICES ASSUME PickInv, SharesInv, HitsNear, [Next]_vars PROVE SharesInv' /\ HitsNear'
  OBVIOUS
<1>1. ASSUME hits' = hits PROVE HitsNear'
  BY <1>1 DEF HitsNear
<1>2. CASE BeginPick
  BY <1>1, <1>2, BeginKeepsShares DEF BeginPick
<1>3. CASE AddWeight
  BY <1>1, <1>3, AddKeepsShares DEF AddWeight, historyVars
<1>4. CASE Choose
  BY <1>1, <1>4, ChooseKeepsShares DEF Choose, historyVars
<1>5. CASE Return
  <2>1. flips' = flips /\ flips \in Nat
    BY <1>5 DEF Return, healthVars, PickInv, TypeOK
  <2>2. CASE flips = 0
    BY <1>5, <2>2, ReturnKeepsShares
  <2>3. CASE flips > 0
    <3>1. hits' = Zero
      BY <1>5, <2>3 DEF Return
    <3>2. SharesInv'
      BY <2>1, <2>3 DEF SharesInv
    <3>3. ASSUME NEW n \in Nodes PROVE NearShare(Weight[n] * Sum(hits') - hits'[n] * Sum(Weight))
      <4>1. Weight[n] \in Int /\ hits'[n] = 0 /\ Sum(hits') = 0 /\ Sum(Weight) \in Int
        BY <3>1, SumZero, SumWeight DEF Zero
      <4>2. Weight[n] * Sum(hits') - hits'[n] * Sum(Weight) = 0
        BY <4>1
      <4> QED
        BY <4>2, NearZero
    <3> QED
      BY <3>2, <3>3 DEF HitsNear
  <2> QED
    BY <2>1, <2>2, <2>3
<1>6. CASE Health
  BY <1>1, <1>6, ProbeKeepsShares DEF Health, Probe
<1>7. CASE UNCHANGED vars
  <2>1. UNCHANGED <<healthy, current, pc, i, total, best, flips, hits>>
    BY <1>7 DEF vars, pickVars, healthVars, historyVars
  <2>2. gained' = gained /\ WalkedNodes' = WalkedNodes
    BY <2>1 DEF gained, Passed, WalkedNodes, Nodes
  <2>3. BestIsGreatest' = BestIsGreatest /\ BooksKept' = BooksKept /\ SharesBounded' = SharesBounded
    BY <2>1, <2>2 DEF BestIsGreatest, BooksKept, SharesBounded
  <2> QED
    BY <1>1, <2>1, <2>2, <2>3 DEF SharesInv
<1> QED
  BY <1>2, <1>3, <1>4, <1>5, <1>6, <1>7 DEF Next, Walk

LEMMA SharesInit == Init => SharesInv /\ HitsNear
<1> SUFFICES ASSUME Init PROVE SharesInv /\ HitsNear
  OBVIOUS
<1>1. TypeOK /\ pc = "idle" /\ current = Zero /\ hits = Zero /\ total = 0 /\ best = None
  BY PickInit DEF PickInv, Init
<1>2. gained = Zero /\ Sum(current) = 0 /\ Sum(gained) = 0 /\ Sum(hits) = 0
  BY <1>1, GainedFacts, SumZero
<1>3. ASSUME NEW n \in Nodes
      PROVE  /\ current[n] - gained[n] = 0
             /\ current[n] + hits[n] * Sum(Weight) = Weight[n] * Sum(hits) + gained[n]
             /\ Weight[n] * Sum(hits) - hits[n] * Sum(Weight) = 0
  <2>1. current[n] = 0 /\ hits[n] = 0 /\ gained[n] = 0 /\ Weight[n] \in Int /\ Sum(Weight) \in Int
    BY <1>1, <1>2, SumWeight DEF Zero
  <2> QED
    BY <1>2, <2>1
<1>4. HitsNear /\ SharesBounded /\ BooksKept
  BY <1>3, NearZero DEF HitsNear, SharesBounded, BooksKept
<1> QED
  BY <1>1, <1>2, <1>4 DEF Init, SharesInv, BestIsGreatest

\* While no node has been down, no node is ever a whole pick ahead of its share by weight, nor
\* behind by more than half a pick for every other node; of three, none by a whole one. At the
\* end of a round every current weight is 0 again: each node has had its weight exactly.
THEOREM SharesSmooth == Spec => []SmoothShares
<1>1. PickInv /\ SharesInv /\ HitsNear => SmoothShares
  <2> SUFFICES ASSUME PickInv, SharesInv, pc = "idle", flips = 0, hits = Zero PROVE current = Zero
    BY DEF SmoothShares, HitsNear
  <2>1. gained = Zero /\ Sum(hits) = 0
    BY GainedFacts, SumZero DEF PickInv
  <2>2. ASSUME NEW n \in Nodes PROVE current[n] = 0
    <3>1. current[n] + hits[n] * Sum(Weight) = Weight[n] * Sum(hits) + gained[n]
      BY DEF SharesInv, BooksKept
    <3>2. hits[n] = 0 /\ gained[n] = 0 /\ Weight[n] \in Int /\ Sum(Weight) \in Int /\ current[n] \in Int
      BY <2>1, SumWeight DEF Zero, PickInv, TypeOK
    <3> QED
      BY <2>1, <3>1, <3>2
  <2> QED
    BY <2>2 DEF Zero, PickInv, TypeOK
<1> QED
  BY <1>1, SharesInit, PickInvariant, SharesStep, PTL DEF Spec
=============================================================================
