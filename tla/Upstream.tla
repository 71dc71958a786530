------------------------------ MODULE Upstream ------------------------------
(***************************************************************************)
(* The upstream nodes of one worker: the smooth weighted round robin of    *)
(* nexus_upstream_pick (src/src/upstream.c), called by the event loop, and *)
(* the health thread (src/src/health.c), which probes the nodes and stores *)
(* their healthy fields without any synchronisation.                       *)
(*                                                                         *)
(* A pick walks the nodes twice and reads healthy once per node and walk,  *)
(* so each node of each walk is a step: the thread's stores fall in        *)
(* between.  A store or a read of an int is one step, as on the machines   *)
(* the gateway is built for.  Nothing the thread does between two stores   *)
(* is visible to the worker, so a probe and its store are one step; how a  *)
(* probe ends is a choice: the node may be down, the connect may take more *)
(* than a second, or the process may have no descriptor left.              *)
(***************************************************************************)
EXTENDS Integers

CONSTANTS
  NodeCount,   \* node_count
  Weight,      \* weight of each node, at least 1 (nexus_upstream_add_node)
  Threshold,   \* fail_threshold
  MaxFlips     \* bound on the changes of healthy fields

Nodes == 1 .. NodeCount

ASSUME NodeCountAssumption == NodeCount \in Nat \ {0}
ASSUME WeightAssumption    == Weight \in [Nodes -> Nat \ {0}]
ASSUME ThresholdAssumption == Threshold \in Nat \ {0}
ASSUME MaxFlipsAssumption  == MaxFlips \in Nat

None == 0      \* best = -1, and the NULL of a pick

VARIABLES
  healthy,   \* nodes[i].healthy
  current,   \* nodes[i].active_conns: the current weight of the algorithm
  pc,        \* which walk of nexus_upstream_pick the worker is in
  i,         \* i of that walk
  total,     \* total
  best,      \* best; best_val is its current weight, which only the worker changes
  fails,     \* fail_count[i], which saturates at Threshold
  probed,    \* i of the health thread's loop
  steady,    \* history: the nodes healthy ever since the pick began
  seen,      \* history: the nodes healthy at some time since the pick began
  flips,     \* changes of healthy fields so far
  hits       \* history: the picks of the current round of picks, per node

pickVars    == <<current, pc, i, total, best>>
healthVars  == <<healthy, fails, probed, flips>>
historyVars == <<steady, seen, hits>>
vars        == <<pickVars, healthVars, historyVars>>

-----------------------------------------------------------------------------
\* The sums of f up to each node, and over all nodes.
UpTo(f) ==
  LET sum[n \in 0 .. NodeCount] == IF n = 0 THEN 0 ELSE sum[n - 1] + f[n]
  IN  sum

Sum(f) == UpTo(f)[NodeCount]

Zero == [n \in Nodes |-> 0]

Init ==
  /\ healthy = [n \in Nodes |-> TRUE]
  /\ current = Zero
  /\ pc = "idle" /\ i = 1 /\ total = 0 /\ best = None
  /\ fails = Zero /\ probed = 1 /\ flips = 0
  /\ steady = {} /\ seen = {} /\ hits = Zero

-----------------------------------------------------------------------------
(* The worker: nexus_upstream_pick. Its max_weight and gcd_weight are not  *)
(* read by anything.                                                       *)

\* A request is to be forwarded.
BeginPick ==
  /\ pc = "idle"
  /\ pc' = "add"
  /\ steady' = {n \in Nodes : healthy[n]} /\ seen' = steady'
  /\ UNCHANGED <<current, i, total, best, healthVars, hits>>

\* Mutant of NextNode: the test of the walk is i < count - 1.
NextNodeShort(after) ==
  IF i + 1 < NodeCount THEN i' = i + 1 /\ pc' = pc ELSE i' = 1 /\ pc' = after

\* The end of an iteration of a walk over the nodes.
NextNode(after) ==
  IF i < NodeCount THEN i' = i + 1 /\ pc' = pc ELSE i' = 1 /\ pc' = after

\* Mutant of Gains: a node marked down goes on gaining.
GainsAlways(n) == TRUE

Gains(n) == healthy[n]

\* The first walk: every healthy node gains its weight.
AddWeight ==
  /\ pc = "add"
  /\ IF Gains(i)
       THEN /\ current' = [current EXCEPT ![i] = @ + Weight[i]]
            /\ total' = total + Weight[i]
       ELSE UNCHANGED <<current, total>>
  /\ NextNode("choose")
  /\ UNCHANGED <<best, healthVars, historyVars>>

\* Mutants of Better: a node is compared without a look at its health; a negative
\* current weight never beats the initial best_val of -1.
BetterUnhealthy(n) == best = None \/ current[n] > current[best]
BetterPositive(n) == healthy[n] /\ current[n] > (IF best = None THEN -1 ELSE current[best])

\* Node n is healthy and ahead of the best so far.
Better(n) == healthy[n] /\ (best = None \/ current[n] > current[best])

\* The second walk, unless the first one found no healthy node.
Choose ==
  /\ pc = "choose" /\ total > 0
  /\ best' = IF Better(i) THEN i ELSE best
  /\ NextNode("return")
  /\ UNCHANGED <<current, total, healthVars, historyVars>>

\* Mutant of Payment: the chosen node pays its own weight only.
PaymentOwn == Weight[best]

Payment == total

\* The pick returns the chosen node, which pays for the weights given out, or NULL.
\* The history counts rounds of Sum(Weight) picks while no node has ever been down.
Return ==
  /\ pc = "return" \/ (pc = "choose" /\ total = 0)
  /\ current' = [n \in Nodes |-> IF n = best THEN current[n] - Payment ELSE current[n]]
  /\ hits' = IF flips > 0 \/ best = None \/ Sum(hits) + 1 = Sum(Weight)
               THEN Zero
               ELSE [hits EXCEPT ![best] = @ + 1]
  /\ pc' = "idle" /\ i' = 1 /\ total' = 0 /\ best' = None
  /\ steady' = {} /\ seen' = {}
  /\ UNCHANGED healthVars

-----------------------------------------------------------------------------
(* The health thread: run. The gateway never calls nexus_health_stop.      *)

\* ++fail_count, or 0 after a success.
FailCount(ok) ==
  IF ok THEN 0 ELSE IF fails[probed] < Threshold THEN fails[probed] + 1 ELSE Threshold

\* Mutant of Verdict: a node is never marked down.
VerdictUp(ok) == ok \/ healthy[probed]

\* A success marks the node up, Threshold failures in a row mark it down.
Verdict(ok) == ok \/ (healthy[probed] /\ FailCount(ok) < Threshold)

\* The probe of one node and the stores that follow it.
Probe(ok) ==
  /\ fails' = [fails EXCEPT ![probed] = FailCount(ok)]
  /\ healthy' = [healthy EXCEPT ![probed] = Verdict(ok)]
  /\ flips' = IF healthy' = healthy THEN flips ELSE flips + 1
  /\ flips' <= MaxFlips
  /\ steady' = {n \in steady : healthy'[n]}
  /\ seen' = IF pc = "idle" THEN {} ELSE seen \cup {n \in Nodes : healthy'[n]}
  /\ probed' = IF probed < NodeCount THEN probed + 1 ELSE 1
  /\ UNCHANGED <<pickVars, hits>>

-----------------------------------------------------------------------------
Walk   == AddWeight \/ Choose \/ Return
Health == \E ok \in BOOLEAN : Probe(ok)

Next == BeginPick \/ Walk \/ Health
Spec == Init /\ [][Next]_vars

\* The kernel schedules the worker, which goes on with a pick it has begun, and the
\* health thread, whose every probe ends within a second.
FairSpec == Spec /\ WF_vars(Walk) /\ WF_vars(Health)

-----------------------------------------------------------------------------
(* What must hold.                                                          *)

\* Every variable keeps the type its comment gives it.
TypeOK ==
  /\ healthy \in [Nodes -> BOOLEAN]
  /\ current \in [Nodes -> Int]
  /\ pc \in {"idle", "add", "choose", "return"}
  /\ i \in Nodes
  /\ total \in Nat
  /\ best \in Nodes \cup {None}
  /\ fails \in [Nodes -> 0 .. Threshold]
  /\ probed \in Nodes
  /\ steady \subseteq Nodes /\ seen \subseteq Nodes
  /\ flips \in 0 .. MaxFlips
  /\ hits \in [Nodes -> Nat]

Returning == pc = "return" \/ (pc = "choose" /\ total = 0)

\* However the thread's stores fall between its reads, a pick returns NULL only if
\* no node was healthy all the time it took (upstream.c 34-57): a request is dropped
\* only where every node was down for a moment at least.
NullOnlyIfNoneStayedUp == Returning /\ best = None => steady = {}

\* A pick never returns a node that was down all the time it took (README 288).
PickedWasUp == Returning /\ best # None => best \in seen

\* A node is not too far behind its share of the picks, nor ahead of it: in units of
\* 1 / Sum(Weight) of a pick.
NearShare(behind) ==
  /\ -Sum(Weight) < behind
  /\ 2 * behind <= (NodeCount - 1) * Sum(Weight)
  /\ NodeCount = 3 => behind < Sum(Weight)

\* While no node has been down, the picks are spread smoothly (README 17): after any
\* number of them no node is a whole pick ahead of its share by weight. Nor is one behind by
\* more than half a pick for every other node; of three nodes, none by a whole one. At the
\* end of a round of Sum(Weight) picks each has had its weight exactly.
SmoothShares ==
  /\ \A n \in Nodes : NearShare(Weight[n] * Sum(hits) - hits[n] * Sum(Weight))
  /\ pc = "idle" /\ flips = 0 /\ hits = Zero => current = Zero

\* A change of a node's health in the middle of a pick may leave all that has been given out
\* unpaid: the current weights add up to Sum(Weight) more at most, for good.
SumDisplaced == 0 <= Sum(current) /\ Sum(current) <= flips * Sum(Weight)

\* Between picks the current weights add up to what the changes of health displaced them by
\* at most, and of up to three nodes none is off by more than Sum(Weight) for each change.
DisplacementBounded ==
  pc = "idle" =>
    /\ NodeCount <= 3 =>
         \A n \in Nodes : LET most == (flips + 1) * Sum(Weight)
                          IN  -most < current[n] /\ current[n] < most
    /\ SumDisplaced

\* A node that stays healthy is picked again and again while requests keep coming,
\* whatever its current weight was when it came back.
HealthyNodeServes ==
  \A n \in Nodes :
    []<>(pc = "add") /\ <>[](healthy[n]) => []<>(pc = "return" /\ best = n)

\* README 288: a node whose probes fail is taken out: it is no longer picked.
FailingNodeLeaves ==
  \A n \in Nodes : <>[](fails[n] > 0) => <>[](~(pc = "return" /\ best = n))
=============================================================================
