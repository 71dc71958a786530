----------------------- MODULE GracefulRestart_proofs -----------------------
(***************************************************************************)
(* Proofs about GracefulRestart, for every number of workers, set of pids, *)
(* clients and configurations, and for every bound on the faults.          *)
(***************************************************************************)
EXTENDS GracefulRestart, FiniteSetTheorems, TLAPS

-----------------------------------------------------------------------------
(* The inductive strengthenings of the properties.                         *)

\* For TypeOK and NoClientAborted: g_active_conns covers the connections in progress, only
\* a worker in its loop has any, and the draining loop is only in progress while there is
\* time left.
ConnsOK ==
  \A p \in Pids : /\ Cardinality(Held(p, {"active"})) <= proc[p].conns
                  /\ proc[p].st \in Running \/ proc[p].conns = 0

DeadlineOK == mpc \in {"drain", "tick"} => deadline > 0

CountInv == TypeOK /\ ConnsOK /\ DeadlineOK /\ NoClientAborted

\* For WorkersAccounted: a loop starts at slot 0, fills empty slots only, and leaves no
\* live worker behind in the old table.
IndexOK == mpc \in {"poll", "bump", "flag", "tick", "clear"} => idx = 0

FillsEmptySlots ==
  mpc \in {"boot", "spawn"} => \A i \in Slots : i >= idx => cur[i] = NoPid

KilledAreGone ==
  mpc = "kill" => \A i \in Slots : i < idx => old[i] \notin InState(Live)

AccountInv == IndexOK /\ FillsEmptySlots /\ KilledAreGone /\ WorkersAccounted

\* For OneSlotPerWorker and KillOnlyStragglers: what the tables list is a child, the old
\* table is empty between restarts, and a draining pass that found nobody alive has
\* emptied it.
ListedAreChildren ==
  forkFails = 0 =>
    /\ \A i \in Slots : /\ cur[i] # ForkErr /\ old[i] # ForkErr
                       /\ cur[i] \notin InState({"free"})
    /\ mpc \in {"spawn", "drain", "tick"} => \A i \in Slots : old[i] \notin InState({"free"})

OldOnlyWhileRestarting ==
  ~Restarting /\ mpc # "clear" => \A i \in Slots : old[i] = NoPid

PassFoundAlive ==
  /\ mpc = "drain" /\ ~alive => \A i \in Slots : i < idx => old[i] \notin Pids
  /\ mpc = "tick" /\ ~alive => \A i \in Slots : old[i] \notin Pids
  /\ mpc = "kill" /\ deadline > 0 => \A i \in Slots : old[i] \notin Pids

TableInv ==
  /\ OneSlotPerWorker
  /\ ListedAreChildren
  /\ OldOnlyWhileRestarting
  /\ PassFoundAlive

\* For NewWorkersKeepServing and RestartReplacesWorkers: the slots filled so far
\* hold live workers of the new configuration, which is the active one.
ActiveIsNew ==
  Restarting \/ mpc \in {"bump", "flag", "clear"} => shadow[activeSlot].data = newCfg

NewWorkersLive ==
  crashes = 0 /\ forkFails = 0 /\ newCfg \notin BadConfigs =>
    \A i \in Slots :
      (mpc = "spawn" /\ i < idx) \/ mpc \in {"drain", "tick", "kill", "clear"} =>
        cur[i] \in InState(Live) /\ proc[cur[i]].cfg = newCfg

ReplaceInv == NewWorkersKeepServing /\ ActiveIsNew /\ NewWorkersLive

\* For TableStaysFull: outside of restarts the slots hold live workers of the
\* configuration in use, as far as the boot has come.
FilledSlotsLive ==
  crashes = 0 /\ forkFails = 0 /\ ConfigInUse \notin BadConfigs =>
    \A i \in Slots :
      (mpc = "boot" /\ i < idx) \/ mpc \in {"poll", "bump", "reap"} =>
        cur[i] \in InState(Live) /\ proc[cur[i]].cfg = ConfigInUse

BootedActive == mpc = "boot" => shadow[activeSlot].data = BootCfg

FullInv == FilledSlotsLive /\ BootedActive

\* For UnreapedChildrenBounded: there is a SIGHUP behind every restart, and the
\* children that no table lists, or only slots that the killing loop has passed, are as few.
HupSeen == sighup \/ Restarting \/ mpc \in {"bump", "flag", "clear"} => hups > 0

OldAhead == {old[i] : i \in {i \in Slots : mpc # "clear" /\ (mpc = "kill" => i >= idx)}}

LeftBehind == InState({"zombie"}) \ (Listed(cur) \cup OldAhead)

LeftInv == HupSeen /\ (LeftBehind = {} \/ Cardinality(LeftBehind) < hups)

-----------------------------------------------------------------------------
(* How the operators of the model change the state.                        *)

\* The connections a worker holds are a finite set.
LEMMA HeldFinite ==
  ASSUME NEW p, NEW S
  PROVE  IsFiniteSet(Held(p, S))
<1>1. Held(p, S) \subseteq Clients
  BY DEF Held
<1> QED
  BY <1>1, ClientsAssumption, FS_Subset

\* One element more or less is at most one, or exactly one, in the cardinality.
LEMMA OneMore ==
  ASSUME NEW S, NEW x, IsFiniteSet(S)
  PROVE  /\ Cardinality(S) \in Nat
         /\ Cardinality(S \cup {x}) \in Nat
         /\ Cardinality(S \cup {x}) <= Cardinality(S) + 1
<1>1. Cardinality(S) \in Nat
  BY FS_CardinalityType
<1>2. IsFiniteSet(S \cup {x})
  BY FS_AddElement
<1>3. Cardinality(S \cup {x}) \in Nat
  BY <1>2, FS_CardinalityType
<1>4. Cardinality(S \cup {x}) = IF x \in S THEN Cardinality(S) ELSE Cardinality(S) + 1
  BY FS_AddElement
<1> QED
  BY <1>1, <1>3, <1>4

LEMMA OneLess ==
  ASSUME NEW S, NEW x \in S, IsFiniteSet(S)
  PROVE  /\ Cardinality(S) \in Nat
         /\ Cardinality(S \ {x}) \in Nat
         /\ Cardinality(S \ {x}) = Cardinality(S) - 1
<1>1. Cardinality(S) \in Nat
  BY FS_CardinalityType
<1>2. IsFiniteSet(S \ {x})
  BY FS_RemoveElement
<1>3. Cardinality(S \ {x}) \in Nat
  BY <1>2, FS_CardinalityType
<1> QED
  BY <1>1, <1>3, FS_RemoveElement

\* A counter of at most 0 connections means none.
LEMMA NoneHeld ==
  ASSUME NEW p, Cardinality(Held(p, {"active"})) <= 0
  PROVE  Held(p, {"active"}) = {}
<1>1. Cardinality(Held(p, {"active"})) \in Nat
  BY HeldFinite, FS_CardinalityType
<1> QED
  BY <1>1, HeldFinite, FS_EmptySet

\* fork() keeps the tables and the processes well typed, and only replaces
\* processes that are not running.
LEMMA ForkEffect ==
  ASSUME TypeOK, NEW c \in AnyConfig, NEW reaped \in SUBSET InState({"zombie"}),
         Fork(c, reaped)
  PROVE  /\ cur' \in [Slots -> Pids \cup {NoPid, ForkErr}]
         /\ proc' \in [Pids -> [st : ProcStates, gen : Nat \cup {-1},
                                cfg : AnyConfig, conns : Nat]]
         /\ forkFails' \in 0 .. MaxForkFailures
         /\ \A q \in Pids : \/ proc'[q] = proc[q]
                            \/ /\ proc[q].st \in {"free", "zombie"}
                               /\ proc'[q].st \in {"free", "forked"}
                               /\ proc'[q].conns = 0
<1> USE DEF TypeOK
<1>a. /\ Gone("free") \in [st : ProcStates, gen : Nat \cup {-1}, cfg : AnyConfig, conns : Nat]
      /\ Process("forked", c) \in [st : ProcStates, gen : Nat \cup {-1}, cfg : AnyConfig, conns : Nat]
  BY DEF Gone, Process, ProcStates, Live, Listening, AnyConfig
<1>b. /\ Gone("free").st = "free" /\ Gone("free").conns = 0
      /\ Process("forked", c).st = "forked" /\ Process("forked", c).conns = 0
  BY DEF Gone, Process
<1>1. CASE \E p \in InState({"free"}) \cup reaped :
             /\ cur' = [cur EXCEPT ![idx] = p]
             /\ proc' = [q \in Pids |-> IF q = p THEN Process("forked", c)
                                        ELSE IF q \in reaped THEN Gone("free")
                                        ELSE proc[q]]
             /\ UNCHANGED forkFails
  BY <1>1, <1>a, <1>b DEF InState
<1>2. CASE /\ forkFails < MaxForkFailures
           /\ forkFails' = forkFails + 1
           /\ cur' = [cur EXCEPT ![idx] = ForkErr]
           /\ proc' = [q \in Pids |-> IF q \in reaped THEN Gone("free") ELSE proc[q]]
  BY <1>2, <1>a, <1>b, BoundsAssumption DEF InState
<1> QED
  BY <1>1, <1>2 DEF Fork

\* Closing p's sockets leaves p without connections and the others with theirs.
LEMMA CloseSocketsEffect ==
  ASSUME TypeOK, NEW p \in Pids, NEW a \in ClientStates \ {"queued", "stranded", "active"},
         NEW s \in ClientStates \ {"queued", "stranded", "active"},
         NEW b \in ClientStates \ {"queued", "stranded", "active"}, CloseSockets(p, a, s, b)
  PROVE  /\ client' \in [Clients -> [st : ClientStates, at : Pids \cup {NoPid}]]
         /\ Held(p, {"active"})' = {} /\ Held(p, {"stranded"})' = {}
         /\ \A q \in Pids \ {p} : /\ Held(q, {"active"})' = Held(q, {"active"})
                                /\ Held(q, {"stranded"})' = Held(q, {"stranded"})
         /\ \A c \in Clients : client'[c].st \in {client[c].st, a, s}
                                 \/ c \in Held(p, {"active"})
<1> DEFINE Left == {"queued", "stranded", "active"}
<1>1. /\ \A c \in Held(p, {"queued"}) : client'[c] = [st |-> a, at |-> NoPid]
      /\ \A c \in Held(p, {"stranded"}) : client'[c] = [st |-> s, at |-> NoPid]
      /\ \A c \in Held(p, {"active"}) : client'[c] = [st |-> b, at |-> NoPid]
      /\ \A c \in Clients : c \notin Held(p, Left) => client'[c] = client[c]
  BY DEF CloseSockets, Held
<1>2. client' \in [Clients -> [st : ClientStates, at : Pids \cup {NoPid}]]
  BY DEF CloseSockets, TypeOK
<1>3. Held(p, {"active"})' = {} /\ Held(p, {"stranded"})' = {}
  BY <1>1 DEF Held
<1>4. \A q \in Pids \ {p} : /\ Held(q, {"active"})' = Held(q, {"active"})
                          /\ Held(q, {"stranded"})' = Held(q, {"stranded"})
  BY <1>1, NoPidAssumption DEF Held
<1>5. \A c \in Clients : client'[c].st \in {client[c].st, a, s} \/ c \in Held(p, {"active"})
  BY <1>1 DEF Held
<1> QED
  BY <1>2, <1>3, <1>4, <1>5

\* A worker that becomes a zombie or is collected leaves a well typed process.
LEMMA GoneEffect ==
  ASSUME TypeOK, NEW p \in Pids, NEW s \in {"free", "zombie"},
         proc' = [proc EXCEPT ![p] = Gone(s)]
  PROVE  /\ proc' \in [Pids -> [st : ProcStates, gen : Nat \cup {-1},
                                cfg : AnyConfig, conns : Nat]]
         /\ proc'[p].st = s /\ proc'[p].conns = 0
         /\ \A q \in Pids \ {p} : proc'[q] = proc[q]
BY DEF TypeOK, Gone, Process, ProcStates, AnyConfig

\* A step of one worker that moves it within its life keeps the types.
LEMMA EnterEffect ==
  ASSUME TypeOK, NEW p \in Pids, NEW s \in ProcStates, Enter(p, s)
  PROVE  /\ proc' \in [Pids -> [st : ProcStates, gen : Nat \cup {-1},
                                cfg : AnyConfig, conns : Nat]]
         /\ proc'[p].st = s /\ proc'[p].conns = proc[p].conns
         /\ \A q \in Pids \ {p} : proc'[q] = proc[q]
BY DEF TypeOK, Enter

\* A step that leaves the clients alone keeps the counters right when it touches
\* none but those of processes that hold nothing.
LEMMA ConnsKept ==
  ASSUME ConnsOK, client' = client,
         \A q \in Pids :
           \/ /\ proc'[q].conns = proc[q].conns
              /\ proc'[q].st \in Running \/ proc'[q].conns = 0
           \/ /\ proc[q].st \notin Running
              /\ proc'[q].conns = 0
  PROVE  ConnsOK'
<1>1. \A q \in Pids : Held(q, {"active"})' = Held(q, {"active"})
  BY DEF Held
<1>2. ASSUME NEW q \in Pids
      PROVE  Cardinality(Held(q, {"active"})') <= proc'[q].conns
  BY <1>1, <1>2 DEF ConnsOK
<1>3. ASSUME NEW q \in Pids
      PROVE  proc'[q].st \in Running \/ proc'[q].conns = 0
  BY <1>3 DEF ConnsOK
<1> QED
  BY <1>2, <1>3 DEF ConnsOK

\* The end of a worker keeps the counters right.
LEMMA ConnsClosed ==
  ASSUME TypeOK, ConnsOK, NEW p \in Pids, proc'[p].conns = 0,
         \A q \in Pids \ {p} : proc'[q] = proc[q],
         Held(p, {"active"})' = {},
         \A q \in Pids \ {p} : Held(q, {"active"})' = Held(q, {"active"})
  PROVE  ConnsOK'
<1>1. Cardinality(Held(p, {"active"})') <= proc'[p].conns
  BY FS_EmptySet
<1>2. \A q \in Pids \ {p} : Cardinality(Held(q, {"active"})') <= proc'[q].conns
  BY DEF ConnsOK
<1> QED
  BY <1>1, <1>2 DEF ConnsOK

\* What becomes of a client of one worker is nothing to what the others hold.
LEMMA HeldByOthers ==
  ASSUME NEW p \in Pids, NEW c \in Clients, client[c].at = p, client'[c].at \in {p, NoPid},
         \A d \in Clients \ {c} : client'[d] = client[d]
  PROVE  \A q \in Pids \ {p} : Held(q, {"active"})' = Held(q, {"active"})
BY NoPidAssumption DEF Held

\* A connection that gets a slot is counted.
LEMMA ServeEffect ==
  ASSUME TypeOK, ConnsOK, NEW p \in Pids, NEW c \in Clients,
         proc[p].st \in Running, c \in Held(p, {"queued"}), Serve(p, c)
  PROVE  /\ client' \in [Clients -> [st : ClientStates, at : Pids \cup {NoPid}]]
         /\ proc' \in [Pids -> [st : ProcStates, gen : Nat \cup {-1},
                                cfg : AnyConfig, conns : Nat]]
         /\ ConnsOK'
         /\ NoClientAborted => NoClientAborted'
<1> USE DEF TypeOK
<1>1. /\ client' \in [Clients -> [st : ClientStates, at : Pids \cup {NoPid}]]
      /\ client[c].at = p /\ client'[c].at = p /\ client'[c].st = "active"
      /\ \A d \in Clients \ {c} : client'[d] = client[d]
  BY DEF Serve, Held, ClientStates
<1>2. /\ proc' \in [Pids -> [st : ProcStates, gen : Nat \cup {-1},
                             cfg : AnyConfig, conns : Nat]]
      /\ proc'[p].st = "waiting" /\ proc'[p].conns = proc[p].conns + 1
      /\ \A q \in Pids \ {p} : proc'[q] = proc[q]
  BY DEF Serve, ProcStates, Live, Listening, Running
<1>3. Held(p, {"active"})' = Held(p, {"active"}) \cup {c}
  BY <1>1 DEF Held
<1>4. \A q \in Pids \ {p} : Held(q, {"active"})' = Held(q, {"active"})
  BY <1>1, HeldByOthers
<1>5. Cardinality(Held(p, {"active"})') <= proc'[p].conns
  <2> DEFINE H == Held(p, {"active"})
  <2>1. /\ Cardinality(H) \in Nat
        /\ Cardinality(H \cup {c}) \in Nat
        /\ Cardinality(H \cup {c}) <= Cardinality(H) + 1
    BY HeldFinite, OneMore
  <2>2. Cardinality(H') = Cardinality(H \cup {c})
    BY <1>3
  <2>3. Cardinality(H) <= proc[p].conns
    BY DEF ConnsOK
  <2>4. proc[p].conns \in Nat
    OBVIOUS
  <2> HIDE DEF H
  <2> QED
    BY <1>2, <2>1, <2>2, <2>3, <2>4 DEF H
<1>6. ConnsOK'
  BY <1>2, <1>4, <1>5 DEF ConnsOK, Running
<1>7. NoClientAborted => NoClientAborted'
  BY <1>1 DEF NoClientAborted
<1> QED
  BY <1>1, <1>2, <1>6, <1>7

\* accept() keeps the counters right, whether it serves, strands or fails.
LEMMA AcceptEffect ==
  ASSUME TypeOK, ConnsOK, NEW p \in Pids, NEW c \in Clients,
         proc[p].st \in Running, Accept(p, c)
  PROVE  /\ client' \in [Clients -> [st : ClientStates, at : Pids \cup {NoPid}]]
         /\ proc' \in [Pids -> [st : ProcStates, gen : Nat \cup {-1},
                                cfg : AnyConfig, conns : Nat]]
         /\ ConnsOK'
         /\ NoClientAborted => NoClientAborted'
<1>0. c \in Held(p, {"queued"})
  BY DEF Accept
<1>1. CASE Serve(p, c)
  BY <1>0, <1>1, ServeEffect
<1>2. CASE Strand(p, c) \/ AcceptFails(p)
  <2>1. /\ client' \in [Clients -> [st : ClientStates, at : Pids \cup {NoPid}]]
        /\ client[c].st = "queued" /\ client'[c].st \in {"queued", "stranded"}
        /\ \A d \in Clients \ {c} : client'[d] = client[d]
    BY <1>0, <1>2 DEF Strand, AcceptFails, Held, TypeOK, ClientStates
  <2>2. Enter(p, "waiting") /\ "waiting" \in ProcStates /\ "waiting" \in Running
    BY <1>2 DEF Strand, AcceptFails, ProcStates, Live, Listening, Running
  <2>3. /\ proc' \in [Pids -> [st : ProcStates, gen : Nat \cup {-1},
                               cfg : AnyConfig, conns : Nat]]
        /\ proc'[p].st = "waiting" /\ proc'[p].conns = proc[p].conns
        /\ \A q \in Pids \ {p} : proc'[q] = proc[q]
    BY <2>2, EnterEffect
  <2>4. \A q \in Pids : Held(q, {"active"})' = Held(q, {"active"})
    BY <2>1 DEF Held
  <2>5. ConnsOK'
    BY <2>2, <2>3, <2>4 DEF ConnsOK
  <2>6. NoClientAborted => NoClientAborted'
    BY <2>1 DEF NoClientAborted
  <2> QED
    BY <2>1, <2>3, <2>5, <2>6
<1> QED
  BY <1>1, <1>2 DEF Accept

\* close_client_conn takes the connection it closes from the counter; the path
\* that forgets to only makes the counter larger than the number of connections.
LEMMA CloseEffect ==
  ASSUME TypeOK, ConnsOK, NEW p \in Pids, NEW c \in Held(p, {"active"}),
         client' = [client EXCEPT ![c] = [st |-> "closed", at |-> NoPid]],
         \/ proc' = [proc EXCEPT ![p].conns = @ - 1]
         \/ proc' = proc
  PROVE  /\ client' \in [Clients -> [st : ClientStates, at : Pids \cup {NoPid}]]
         /\ proc' \in [Pids -> [st : ProcStates, gen : Nat \cup {-1},
                                cfg : AnyConfig, conns : Nat]]
         /\ ConnsOK'
         /\ NoClientAborted => NoClientAborted'
<1> USE DEF TypeOK
<1> DEFINE H == Held(p, {"active"})
<1>1. c \in Clients /\ client[c].at = p /\ client[c].st = "active"
  BY DEF Held
<1>2. /\ client' \in [Clients -> [st : ClientStates, at : Pids \cup {NoPid}]]
      /\ client'[c].st = "closed" /\ client'[c].at = NoPid
      /\ \A d \in Clients \ {c} : client'[d] = client[d]
  BY <1>1 DEF ClientStates
<1>3. H' = H \ {c}
  BY <1>1, <1>2 DEF Held
<1>4. \A q \in Pids \ {p} : Held(q, {"active"})' = Held(q, {"active"})
  BY <1>1, <1>2, HeldByOthers
<1>5. /\ Cardinality(H) \in Nat
      /\ Cardinality(H \ {c}) \in Nat
      /\ Cardinality(H \ {c}) = Cardinality(H) - 1
  BY HeldFinite, OneLess
<1>6. Cardinality(H') = Cardinality(H \ {c})
  BY <1>3
<1>7. Cardinality(H) <= proc[p].conns /\ (proc[p].st \in Running \/ proc[p].conns = 0)
  BY DEF ConnsOK
<1>8. proc[p].conns \in Nat
  OBVIOUS
<1> HIDE DEF H
<1>9. proc[p].conns # 0
  BY <1>5, <1>7, <1>8
<1>10. /\ proc' \in [Pids -> [st : ProcStates, gen : Nat \cup {-1},
                              cfg : AnyConfig, conns : Nat]]
       /\ proc'[p].st = proc[p].st
       /\ proc'[p].conns \in {proc[p].conns - 1, proc[p].conns}
       /\ \A q \in Pids \ {p} : proc'[q] = proc[q]
  <2>1. proc[p].conns - 1 \in Nat
    BY <1>8, <1>9
  <2>2. CASE proc' = [proc EXCEPT ![p].conns = @ - 1]
    BY <2>1, <2>2
  <2>3. CASE proc' = proc
    BY <2>3
  <2> QED
    BY <2>2, <2>3
<1>11. Cardinality(H') <= proc'[p].conns
  BY <1>5, <1>6, <1>7, <1>8, <1>10
<1>12. ConnsOK'
  BY <1>4, <1>7, <1>9, <1>10, <1>11 DEF ConnsOK, H
<1>13. NoClientAborted => NoClientAborted'
  BY <1>2 DEF NoClientAborted
<1> QED
  BY <1>2, <1>10, <1>12, <1>13

-----------------------------------------------------------------------------
(* CountInv is inductive.                                                  *)

LEMMA CountInit == Init => CountInv
<1> SUFFICES ASSUME Init PROVE CountInv
  OBVIOUS
<1>1. TypeOK
  <2>1. 0 \in Slots
    BY NAssumption DEF Slots
  <2>2. Gone("free") \in [st : ProcStates, gen : Nat \cup {-1}, cfg : AnyConfig, conns : Nat]
    BY DEF Gone, Process, ProcStates, AnyConfig
  <2>3. shadow \in [{0, 1} -> [version : Nat, data : AnyConfig]]
    BY DEF Init, AnyConfig
  <2>4. /\ proc \in [Pids -> [st : ProcStates, gen : Nat \cup {-1}, cfg : AnyConfig, conns : Nat]]
        /\ client \in [Clients -> [st : ClientStates, at : Pids \cup {NoPid}]]
    BY <2>2 DEF Init, ClientStates
  <2>5. /\ cur \in [Slots -> Pids \cup {NoPid, ForkErr}]
        /\ old \in [Slots -> Pids \cup {NoPid, ForkErr}]
    BY DEF Init
  <2>6. /\ deadline \in 0 .. DrainDeadline
        /\ hups \in 0 .. MaxSighups /\ crashes \in 0 .. MaxCrashes
        /\ forkFails \in 0 .. MaxForkFailures
        /\ drainGen \in Nat
    BY BoundsAssumption DEF Init
  <2>7. /\ mpc \in MasterStates /\ idx \in Slots
        /\ newCfg \in AnyConfig /\ activeSlot \in {0, 1} /\ shuttingDown \in {0, 1}
    BY <2>1 DEF Init, MasterStates, AnyConfig
  <2>8. alive \in BOOLEAN /\ sighup \in BOOLEAN
    BY DEF Init
  <2> QED
    BY <2>3, <2>4, <2>5, <2>6, <2>7, <2>8 DEF TypeOK
<1>2. ConnsOK
  <2>1. \A p \in Pids : Held(p, {"active"}) = {}
    BY DEF Init, Held
  <2>2. \A p \in Pids : proc[p].conns = 0
    BY DEF Init, Gone, Process
  <2> QED
    BY <2>1, <2>2, FS_EmptySet DEF ConnsOK
<1>3. DeadlineOK
  BY DEF Init, DeadlineOK
<1>4. NoClientAborted
  BY DEF Init, NoClientAborted
<1> QED
  BY <1>1, <1>2, <1>3, <1>4 DEF CountInv

\* The loop over the slots stays within the table.
LEMMA NextSlotEffect ==
  ASSUME TypeOK, NEW after, NextSlot(after)
  PROVE  /\ idx' \in Slots
         /\ mpc' = mpc \/ mpc' = after
BY NAssumption DEF TypeOK, NextSlot, Slots

\* The steps of the master up to the new table.
LEMMA CountMasterStart ==
  ASSUME CountInv,
         \/ BootSpawn \/ PollIdle \/ ReloadFails
         \/ \E c \in Configs : Reload(c)
         \/ BumpGeneration \/ RaiseFlag \/ SpawnNew
  PROVE  CountInv'
<1> USE DEF CountInv
<1>1. CASE BootSpawn
  <2> USE <1>1 DEF BootSpawn, restartVars, sharedVars
  <2>1. Fork(BootCfg, {}) /\ BootCfg \in AnyConfig
    BY DEF AnyConfig
  <2>2. TypeOK'
    BY <2>1, ForkEffect, NextSlotEffect DEF TypeOK, MasterStates
  <2>3. ConnsOK'
    BY <2>1, ForkEffect, ConnsKept DEF ConnsOK, Running
  <2>4. DeadlineOK' /\ NoClientAborted'
    BY NextSlotEffect DEF DeadlineOK, NoClientAborted
  <2> QED
    BY <2>2, <2>3, <2>4
<1>2. CASE PollIdle \/ ReloadFails \/ BumpGeneration \/ RaiseFlag
  <2> USE DEF PollIdle, ReloadFails, BumpGeneration, RaiseFlag, restartVars, sharedVars, boundVars
  <2>1. TypeOK'
    <3>1. CASE PollIdle \/ ReloadFails
      BY <3>1 DEF TypeOK, MasterStates
    <3>2. CASE BumpGeneration
      BY <3>2 DEF TypeOK, MasterStates
    <3>3. CASE RaiseFlag
      BY <3>3 DEF TypeOK, MasterStates, FreshTable
    <3> QED
      BY <1>2, <3>1, <3>2, <3>3
  <2>2. ConnsOK'
    BY <1>2, ConnsKept DEF ConnsOK
  <2>3. DeadlineOK' /\ NoClientAborted'
    BY <1>2 DEF DeadlineOK, NoClientAborted
  <2> QED
    BY <2>1, <2>2, <2>3
<1>3. CASE \E c \in Configs : Reload(c)
  <2> PICK c \in Configs : Reload(c)
    BY <1>3
  <2> USE DEF Reload, sharedVars, boundVars
  <2>1. InactiveSlot \in {0, 1}
    BY DEF TypeOK, InactiveSlot
  <2>2. shadow' \in [{0, 1} -> [version : Nat, data : AnyConfig]]
    BY <2>1 DEF TypeOK, AnyConfig
  <2>3. TypeOK'
    BY <2>1, <2>2 DEF TypeOK, MasterStates, AnyConfig
  <2>4. ConnsOK'
    BY ConnsKept DEF ConnsOK
  <2>5. DeadlineOK' /\ NoClientAborted'
    BY DEF DeadlineOK, NoClientAborted
  <2> QED
    BY <2>3, <2>4, <2>5
<1>4. CASE SpawnNew
  <2> USE <1>4 DEF SpawnNew, sharedVars
  <2>1. Fork(newCfg, {}) /\ newCfg \in AnyConfig
    BY DEF TypeOK
  <2>2. TypeOK'
    <3>1. deadline' \in 0 .. DrainDeadline
      BY BoundsAssumption
    <3>3. alive' \in BOOLEAN
      OBVIOUS
    <3>2. idx' \in Slots /\ mpc' \in MasterStates
      BY NextSlotEffect DEF TypeOK, MasterStates
    <3> QED
      BY <2>1, <3>1, <3>2, <3>3, ForkEffect DEF TypeOK
  <2>3. ConnsOK'
    BY <2>1, ForkEffect, ConnsKept DEF ConnsOK, Running
  <2>4. DeadlineOK' /\ NoClientAborted'
    BY BoundsAssumption DEF DeadlineOK, NoClientAborted
  <2> QED
    BY <2>2, <2>3, <2>4
<1> QED
  BY <1>1, <1>2, <1>3, <1>4

\* The draining and reaping loops of the master, and the signal.
LEMMA CountMasterLoops ==
  ASSUME CountInv,
         DrainSlot \/ DrainTick \/ KillSlot \/ LowerFlag \/ ReapSlot \/ Sighup
  PROVE  CountInv'
<1> USE DEF CountInv
<1>1. CASE DrainSlot
  <2> USE <1>1 DEF DrainSlot, sharedVars, boundVars
  <2>1. CASE old[idx] \in InState({"zombie"})
    <3> DEFINE p == old[idx]
    <3>1. p \in Pids /\ proc[p].st = "zombie" /\ proc' = [proc EXCEPT ![p] = Gone("free")]
      BY <2>1 DEF InState
    <3>2. /\ proc' \in [Pids -> [st : ProcStates, gen : Nat \cup {-1},
                                 cfg : AnyConfig, conns : Nat]]
          /\ proc'[p].st = "free" /\ proc'[p].conns = 0
          /\ \A q \in Pids \ {p} : proc'[q] = proc[q]
      BY <3>1, GoneEffect
    <3>3. ConnsOK'
      BY <3>1, <3>2, ConnsKept DEF ConnsOK, Running
    <3>4. old' \in [Slots -> Pids \cup {NoPid, ForkErr}]
      BY <2>1 DEF TypeOK
    <3>5. TypeOK'
      BY <2>1, <3>2, <3>4, NextSlotEffect DEF TypeOK, MasterStates
    <3>6. DeadlineOK' /\ NoClientAborted'
      BY NextSlotEffect DEF DeadlineOK, NoClientAborted
    <3> QED
      BY <3>3, <3>5, <3>6
  <2>2. CASE old[idx] \notin InState({"zombie"})
    <3>1. alive' \in BOOLEAN
      BY <2>2 DEF TypeOK
    <3>2. TypeOK'
      BY <2>2, <3>1, NextSlotEffect DEF TypeOK, MasterStates
    <3>3. ConnsOK'
      BY <2>2, ConnsKept DEF ConnsOK
    <3>4. DeadlineOK' /\ NoClientAborted'
      BY NextSlotEffect DEF DeadlineOK, NoClientAborted
    <3> QED
      BY <3>2, <3>3, <3>4
  <2> QED
    BY <2>1, <2>2
<1>2. CASE DrainTick
  <2> USE <1>2 DEF DrainTick, sharedVars, boundVars, TimeLeft
  <2>1. deadline \in 0 .. DrainDeadline /\ deadline > 0
    BY DEF TypeOK, DeadlineOK
  <2>2. deadline' \in 0 .. DrainDeadline
    BY <2>1, BoundsAssumption
  <2>3. alive' \in BOOLEAN
    OBVIOUS
  <2>4. mpc' \in MasterStates /\ DeadlineOK'
    BY DEF MasterStates, DeadlineOK
  <2>5. TypeOK'
    BY <2>2, <2>3, <2>4 DEF TypeOK
  <2>6. ConnsOK'
    BY ConnsKept DEF ConnsOK
  <2> QED
    BY <2>4, <2>5, <2>6 DEF NoClientAborted
<1>3. CASE KillSlot
  <2> USE <1>3 DEF KillSlot, Collected, sharedVars, restartVars
  <2>1. CASE Victim \in InState(Live \cup {"zombie"})
    <3>1. PICK p \in Pids :
             /\ CloseSockets(p, "killed", "killed", "killed")
             /\ \/ proc' = [proc EXCEPT ![p] = Gone("free")]
                \/ proc' = [proc EXCEPT ![p] = Gone("zombie")]
      <4>1. Victim \in Pids
        BY <2>1 DEF InState
      <4>2. /\ CloseSockets(Victim, "killed", "killed", "killed")
            /\ \/ proc' = [proc EXCEPT ![Victim] = Gone("free")]
               \/ proc' = [proc EXCEPT ![Victim] = Gone("zombie")]
        BY <2>1
      <4> QED
        BY <4>1, <4>2
    <3>0. TypeOK /\ ConnsOK /\ "killed" \in ClientStates \ {"queued", "stranded", "active"}
      BY DEF ClientStates
    <3>2. /\ proc' \in [Pids -> [st : ProcStates, gen : Nat \cup {-1},
                                 cfg : AnyConfig, conns : Nat]]
          /\ proc'[p].conns = 0
          /\ \A q \in Pids \ {p} : proc'[q] = proc[q]
      BY <3>1, GoneEffect
    <3>3. /\ client' \in [Clients -> [st : ClientStates, at : Pids \cup {NoPid}]]
          /\ Held(p, {"active"})' = {}
          /\ \A q \in Pids \ {p} : Held(q, {"active"})' = Held(q, {"active"})
      BY <3>0, <3>1, CloseSocketsEffect
    <3>4. \A c \in Clients : client'[c] = client[c] \/ client'[c].st = "killed"
      BY <3>1 DEF CloseSockets
    <3>5. ConnsOK'
      BY <3>0, <3>1, <3>2, <3>3, ConnsClosed
    <3>6. hups' \in 0 .. MaxSighups
      BY <2>1, BoundsAssumption DEF TypeOK
    <3>7. sighup' \in BOOLEAN
      BY <2>1 DEF TypeOK
    <3>8. TypeOK'
      BY <3>2, <3>3, <3>6, <3>7, NextSlotEffect DEF TypeOK, MasterStates
    <3>9. DeadlineOK' /\ NoClientAborted'
      BY <3>4, NextSlotEffect DEF DeadlineOK, NoClientAborted
    <3> QED
      BY <3>5, <3>8, <3>9
  <2>2. CASE Victim \notin InState(Live \cup {"zombie"})
    <3>1. TypeOK'
      BY <2>2, NextSlotEffect DEF TypeOK, MasterStates
    <3>2. ConnsOK'
      BY <2>2, ConnsKept DEF ConnsOK
    <3>3. DeadlineOK' /\ NoClientAborted'
      BY <2>2, NextSlotEffect DEF DeadlineOK, NoClientAborted
    <3> QED
      BY <3>1, <3>2, <3>3
  <2> QED
    BY <2>1, <2>2
<1>4. CASE LowerFlag
  <2> USE <1>4 DEF LowerFlag, boundVars
  <2>1. deadline' \in 0 .. DrainDeadline
    BY BoundsAssumption
  <2>2. TypeOK'
    BY <2>1 DEF TypeOK, MasterStates, AnyConfig
  <2>3. ConnsOK'
    BY ConnsKept DEF ConnsOK
  <2> QED
    BY <2>2, <2>3 DEF DeadlineOK, NoClientAborted
<1>5. CASE ReapSlot
  <2> USE <1>5 DEF ReapSlot, restartVars, sharedVars
  <2>1. /\ cur' \in [Slots -> Pids \cup {NoPid, ForkErr}]
        /\ proc' \in [Pids -> [st : ProcStates, gen : Nat \cup {-1},
                               cfg : AnyConfig, conns : Nat]]
        /\ forkFails' \in 0 .. MaxForkFailures
        /\ \A q \in Pids : \/ proc'[q] = proc[q]
                           \/ /\ proc[q].st \in {"free", "zombie"}
                              /\ proc'[q].st \in {"free", "forked"}
                              /\ proc'[q].conns = 0
    <3>1. CASE Died(idx) /\ Fork(BootCfg, {cur[idx]})
      BY <3>1, ForkEffect DEF Died, AnyConfig
    <3>2. CASE Fork(BootCfg, {})
      BY <3>2, ForkEffect DEF AnyConfig
    <3>3. CASE \E p \in InState({"zombie"}) :
                 /\ cur[idx] = ForkErr
                 /\ proc' = [proc EXCEPT ![p] = Gone("free")]
                 /\ UNCHANGED <<cur, forkFails>>
      <4>1. PICK p \in Pids : /\ proc[p].st = "zombie"
                              /\ proc' = [proc EXCEPT ![p] = Gone("free")]
                              /\ UNCHANGED <<cur, forkFails>>
        BY <3>3 DEF InState
      <4> QED
        BY <4>1, GoneEffect DEF TypeOK
    <3>4. CASE UNCHANGED <<cur, forkFails, proc>>
      BY <3>4 DEF TypeOK
    <3> QED
      BY <3>1, <3>2, <3>3, <3>4
  <2>2. TypeOK'
    BY <2>1, NextSlotEffect DEF TypeOK, MasterStates
  <2>3. ConnsOK'
    BY <2>1, ConnsKept DEF ConnsOK, Running
  <2>4. DeadlineOK' /\ NoClientAborted'
    BY NextSlotEffect DEF DeadlineOK, NoClientAborted
  <2> QED
    BY <2>2, <2>3, <2>4
<1>6. CASE Sighup
  <2> USE <1>6 DEF Sighup, restartVars, sharedVars
  <2>1. hups' \in 0 .. MaxSighups
    BY BoundsAssumption DEF TypeOK
  <2>2. sighup' \in BOOLEAN
    OBVIOUS
  <2>3. TypeOK'
    BY <2>1, <2>2 DEF TypeOK
  <2>4. ConnsOK'
    BY ConnsKept DEF ConnsOK
  <2> QED
    BY <2>3, <2>4 DEF DeadlineOK, NoClientAborted
<1> QED
  BY <1>1, <1>2, <1>3, <1>4, <1>5, <1>6

\* The steps of one worker.
LEMMA CountWorker ==
  ASSUME CountInv, NEW p \in Pids,
         \/ Start(p) \/ ReadGeneration(p) \/ LoadShutting(p) \/ LoadGeneration(p)
         \/ \E c \in Clients : ListenEvent(p, c) \/ ListenEventGeneration(p, c)
  PROVE  CountInv'
<1> USE DEF CountInv
<1>s. {"waiting", "accepting", "deciding"} = Running /\ Running \subseteq ProcStates
      /\ "listening" \in ProcStates
  BY DEF Running, ProcStates, Live, Listening
<1>0. ASSUME UNCHANGED <<restartVars, sharedVars, masterVars, boundVars>>,
             proc' \in [Pids -> [st : ProcStates, gen : Nat \cup {-1},
                                 cfg : AnyConfig, conns : Nat]],
             client' \in [Clients -> [st : ClientStates, at : Pids \cup {NoPid}]]
      PROVE  TypeOK' /\ DeadlineOK'
  BY <1>0 DEF TypeOK, DeadlineOK, restartVars, sharedVars, masterVars, boundVars
<1>e. ASSUME NEW s \in Running, proc[p].st \in Running, Enter(p, s), UNCHANGED client,
             UNCHANGED <<restartVars, sharedVars, masterVars, boundVars>>
      PROVE  CountInv'
  <2>1. /\ proc' \in [Pids -> [st : ProcStates, gen : Nat \cup {-1},
                               cfg : AnyConfig, conns : Nat]]
        /\ proc'[p].st = s /\ proc'[p].conns = proc[p].conns
        /\ \A q \in Pids \ {p} : proc'[q] = proc[q]
    BY <1>e, <1>s, EnterEffect
  <2>2. ConnsOK'
    BY <1>e, <2>1, ConnsKept DEF ConnsOK
  <2> QED
    BY <1>0, <1>e, <2>1, <2>2 DEF TypeOK, NoClientAborted
<1>a. ASSUME NEW c \in Clients, proc[p].st \in Running, Accept(p, c),
             UNCHANGED <<restartVars, sharedVars, masterVars, boundVars>>
      PROVE  CountInv'
  BY <1>0, <1>a, AcceptEffect
<1>1. CASE Start(p)
  <2> USE <1>1 DEF Start
  <2>1. proc[p].conns = 0
    BY DEF ConnsOK, Running
  <2>2. /\ proc' \in [Pids -> [st : ProcStates, gen : Nat \cup {-1},
                               cfg : AnyConfig, conns : Nat]]
        /\ proc'[p].conns = 0
        /\ \A q \in Pids \ {p} : proc'[q] = proc[q]
    BY <2>1, <1>s, GoneEffect, EnterEffect
  <2>3. ConnsOK'
    BY <2>1, <2>2, ConnsKept DEF ConnsOK
  <2> QED
    BY <1>0, <2>2, <2>3 DEF TypeOK, NoClientAborted
<1>2. CASE ReadGeneration(p)
  <2> USE <1>2 DEF ReadGeneration
  <2>1. /\ proc' \in [Pids -> [st : ProcStates, gen : Nat \cup {-1},
                               cfg : AnyConfig, conns : Nat]]
        /\ proc'[p].conns = proc[p].conns /\ proc'[p].st = "waiting"
        /\ \A q \in Pids \ {p} : proc'[q] = proc[q]
    BY <1>s, ZenonT(60) DEF TypeOK
  <2>2. ConnsOK'
    BY <1>s, <2>1, ConnsKept DEF ConnsOK
  <2> QED
    BY <1>0, <2>1, <2>2 DEF TypeOK, NoClientAborted
<1>3. CASE LoadShutting(p)
  BY <1>3, <1>e, <1>s DEF LoadShutting
<1>4. CASE LoadGeneration(p)
  <2> USE <1>4 DEF LoadGeneration
  <2>1. CASE Outdated(p) /\ Drained(p)
    <3>1. proc[p].conns = 0 /\ proc' = [proc EXCEPT ![p] = Gone("zombie")]
          /\ CloseSockets(p, "reset", "abandoned", "aborted")
      BY <2>1 DEF Drained
    <3>2. Held(p, {"active"}) = {}
      BY <3>1, NoneHeld DEF ConnsOK
    <3>3. {"reset", "abandoned", "aborted"} \subseteq ClientStates \ {"queued", "stranded", "active"}
      BY DEF ClientStates
    <3>4. /\ client' \in [Clients -> [st : ClientStates, at : Pids \cup {NoPid}]]
          /\ Held(p, {"active"})' = {}
          /\ \A q \in Pids \ {p} : Held(q, {"active"})' = Held(q, {"active"})
          /\ \A c \in Clients : client'[c].st \in {client[c].st, "reset", "abandoned"}
                                  \/ c \in Held(p, {"active"})
      BY <3>1, <3>3, CloseSocketsEffect
    <3>5. /\ proc' \in [Pids -> [st : ProcStates, gen : Nat \cup {-1},
                                 cfg : AnyConfig, conns : Nat]]
          /\ proc'[p].conns = 0
          /\ \A q \in Pids \ {p} : proc'[q] = proc[q]
      BY <3>1, GoneEffect
    <3>6. ConnsOK'
      BY <3>4, <3>5, ConnsClosed
    <3>7. NoClientAborted'
      BY <3>2, <3>4 DEF NoClientAborted
    <3> QED
      BY <1>0, <3>4, <3>5, <3>6, <3>7
  <2>2. CASE ~(Outdated(p) /\ Drained(p))
    BY <2>2, <1>e, <1>s
  <2> QED
    BY <2>1, <2>2
<1>5. CASE \E c \in Clients : ListenEvent(p, c) \/ ListenEventGeneration(p, c)
  <2>1. PICK c \in Clients : ListenEvent(p, c) \/ ListenEventGeneration(p, c)
    BY <1>5
  <2>2. proc[p].st \in Running
    BY <2>1, <1>s DEF ListenEvent, ListenEventGeneration
  <2>3. UNCHANGED <<restartVars, sharedVars, masterVars, boundVars>>
    BY <2>1 DEF ListenEvent, ListenEventGeneration
  <2>4. \/ Accept(p, c)
        \/ \E s \in Running : Enter(p, s) /\ UNCHANGED client
    BY <2>1, <1>s DEF ListenEvent, ListenEventGeneration
  <2> QED
    BY <2>2, <2>3, <2>4, <1>a, <1>e
<1> QED
  BY <1>1, <1>2, <1>3, <1>4, <1>5

\* What the clients and the faults of a worker do.
LEMMA CountEnvironment ==
  ASSUME CountInv,
         \/ \E p \in Pids : Crash(p) \/ Connections(p)
         \/ \E c \in Clients : Connect(c) \/ ConnectRefused(c)
  PROVE  CountInv'
<1> USE DEF CountInv
<1>1. CASE \E p \in Pids : Crash(p)
  <2>1. PICK p \in Pids : Crash(p)
    BY <1>1
  <2> USE <2>1 DEF Crash, restartVars, sharedVars, masterVars
  <2>2. "reset" \in ClientStates \ {"queued", "stranded", "active"}
    BY DEF ClientStates
  <2>3. /\ client' \in [Clients -> [st : ClientStates, at : Pids \cup {NoPid}]]
        /\ Held(p, {"active"})' = {}
        /\ \A q \in Pids \ {p} : Held(q, {"active"})' = Held(q, {"active"})
    BY <2>2, CloseSocketsEffect
  <2>4. /\ proc' \in [Pids -> [st : ProcStates, gen : Nat \cup {-1},
                               cfg : AnyConfig, conns : Nat]]
        /\ proc'[p].conns = 0
        /\ \A q \in Pids \ {p} : proc'[q] = proc[q]
    BY GoneEffect
  <2>5. ConnsOK'
    BY <2>3, <2>4, ConnsClosed
  <2>6. \A c \in Clients : client'[c] = client[c] \/ client'[c].st = "reset"
    BY DEF CloseSockets
  <2>7. crashes' \in 0 .. MaxCrashes
    BY BoundsAssumption DEF TypeOK
  <2>8. TypeOK'
    BY <2>3, <2>4, <2>7 DEF TypeOK
  <2>9. DeadlineOK' /\ NoClientAborted'
    BY <2>6 DEF DeadlineOK, NoClientAborted
  <2> QED
    BY <2>5, <2>8, <2>9
<1>2. CASE \E p \in Pids : Connections(p)
  <2>1. PICK p \in Pids, c \in Clients : CloseConn(p, c) \/ DropConn(p, c)
    BY <1>2 DEF Connections
  <2>2. /\ c \in Held(p, {"active"})
        /\ client' = [client EXCEPT ![c] = [st |-> "closed", at |-> NoPid]]
        /\ proc' = [proc EXCEPT ![p].conns = @ - 1] \/ proc' = proc
        /\ UNCHANGED <<restartVars, sharedVars, masterVars, boundVars>>
    BY <2>1 DEF CloseConn, DropConn
  <2>3. /\ client' \in [Clients -> [st : ClientStates, at : Pids \cup {NoPid}]]
        /\ proc' \in [Pids -> [st : ProcStates, gen : Nat \cup {-1},
                               cfg : AnyConfig, conns : Nat]]
        /\ ConnsOK'
        /\ NoClientAborted'
    BY <2>2, CloseEffect
  <2>4. TypeOK' /\ DeadlineOK'
    BY <2>2, <2>3 DEF TypeOK, DeadlineOK, restartVars, sharedVars, masterVars, boundVars
  <2> QED
    BY <2>3, <2>4
<1>3. CASE \E c \in Clients : Connect(c) \/ ConnectRefused(c)
  <2>1. PICK c \in Clients : Connect(c) \/ ConnectRefused(c)
    BY <1>3
  <2>2. /\ UNCHANGED <<restartVars, sharedVars, masterVars, boundVars, proc>>
        /\ client' \in [Clients -> [st : ClientStates, at : Pids \cup {NoPid}]]
        /\ client[c].st # "active" /\ client'[c].st \in {"queued", "reset"}
        /\ \A d \in Clients \ {c} : client'[d] = client[d]
    BY <2>1, SMTT(30) DEF Connect, ConnectRefused, TypeOK, ClientStates, InState
  <2>3. \A q \in Pids : Held(q, {"active"})' = Held(q, {"active"})
    BY <2>2 DEF Held
  <2>4. ConnsOK'
    BY <2>2, <2>3 DEF ConnsOK
  <2>5. NoClientAborted'
    BY <2>2 DEF NoClientAborted
  <2>6. TypeOK' /\ DeadlineOK'
    BY <2>2 DEF TypeOK, DeadlineOK, restartVars, sharedVars, masterVars, boundVars
  <2> QED
    BY <2>4, <2>5, <2>6
<1> QED
  BY <1>1, <1>2, <1>3

LEMMA CountStep == CountInv /\ [Next]_vars => CountInv'
<1> SUFFICES ASSUME CountInv, [Next]_vars PROVE CountInv'
  OBVIOUS
<1>1. CASE Master \/ Sighup
  BY <1>1, CountMasterStart, CountMasterLoops DEF Master
<1>2. CASE \E p \in Pids : Worker(p)
  BY <1>2, CountWorker DEF Worker
<1>3. CASE Environment
  BY <1>3, CountEnvironment, CountMasterLoops DEF Environment
<1>4. CASE UNCHANGED vars
  <2> USE <1>4 DEF vars, restartVars, sharedVars, masterVars, boundVars, CountInv
  <2>1. TypeOK' /\ DeadlineOK' /\ NoClientAborted'
    BY DEF TypeOK, DeadlineOK, NoClientAborted
  <2>2. ConnsOK'
    BY ConnsKept DEF ConnsOK
  <2> QED
    BY <2>1, <2>2
<1> QED
  BY <1>1, <1>2, <1>3, <1>4 DEF Next

\* Type correctness.
THEOREM TypeCorrect == Spec => []TypeOK
<1>1. CountInv => TypeOK
  BY DEF CountInv
<1> QED
  BY <1>1, CountInit, CountStep, PTL DEF Spec

\* A worker that leaves its loop aborts no connection in progress, whatever the
\* number of workers, clients, restarts and faults.
THEOREM NoAbort == Spec => []NoClientAborted
<1>1. CountInv => NoClientAborted
  BY DEF CountInv
<1> QED
  BY <1>1, CountInit, CountStep, PTL DEF Spec

-----------------------------------------------------------------------------
(* AccountInv is inductive: no worker is lost.                             *)

\* fork() writes slot idx only, and the only process it brings to life is there.
LEMMA ForkTables ==
  ASSUME TypeOK, NEW c, NEW reaped \in SUBSET InState({"zombie"}), Fork(c, reaped)
  PROVE  /\ \A i \in Slots \ {idx} : cur'[i] = cur[i]
         /\ \A q \in Pids : \/ proc'[q] = proc[q]
                            \/ proc'[q].st = "free" /\ q \in reaped
                            \/ /\ q = cur'[idx] /\ q \in InState({"free"}) \cup reaped
                               /\ proc'[q].st = "forked" /\ proc'[q].cfg = c
         /\ \/ /\ cur'[idx] \in InState({"free"}) \cup reaped
               /\ proc'[cur'[idx]].st = "forked" /\ proc'[cur'[idx]].cfg = c
            \/ cur'[idx] = ForkErr /\ forkFails' # 0
         /\ forkFails' >= forkFails
<1>b. /\ Gone("free").st = "free"
      /\ Process("forked", c).st = "forked" /\ Process("forked", c).cfg = c
  BY DEF Gone, Process
<1>t. /\ idx \in Slots /\ cur \in [Slots -> Pids \cup {NoPid, ForkErr}]
      /\ forkFails \in Nat /\ reaped \subseteq Pids
  BY BoundsAssumption DEF TypeOK, InState
<1>1. CASE \E p \in InState({"free"}) \cup reaped :
             /\ cur' = [cur EXCEPT ![idx] = p]
             /\ proc' = [q \in Pids |-> IF q = p THEN Process("forked", c)
                                        ELSE IF q \in reaped THEN Gone("free")
                                        ELSE proc[q]]
             /\ UNCHANGED forkFails
  <2>1. PICK p \in InState({"free"}) \cup reaped :
             /\ cur' = [cur EXCEPT ![idx] = p]
             /\ proc' = [q \in Pids |-> IF q = p THEN Process("forked", c)
                                        ELSE IF q \in reaped THEN Gone("free")
                                        ELSE proc[q]]
             /\ UNCHANGED forkFails
    BY <1>1
  <2>2. cur'[idx] = p /\ \A i \in Slots \ {idx} : cur'[i] = cur[i]
    BY <2>1, <1>t
  <2>3. \A q \in Pids : \/ proc'[q] = proc[q]
                        \/ proc'[q].st = "free" /\ q \in reaped
                        \/ q = p /\ proc'[q].st = "forked" /\ proc'[q].cfg = c
    BY <2>1, <1>b
  <2>4. p \in Pids /\ proc'[p].st = "forked" /\ proc'[p].cfg = c
    BY <2>1, <1>b, <1>t DEF InState
  <2> QED
    BY <2>1, <2>2, <2>3, <2>4, <1>t
<1>2. CASE /\ forkFails < MaxForkFailures
           /\ forkFails' = forkFails + 1
           /\ cur' = [cur EXCEPT ![idx] = ForkErr]
           /\ proc' = [q \in Pids |-> IF q \in reaped THEN Gone("free") ELSE proc[q]]
  BY <1>2, <1>b, <1>t
<1> QED
  BY <1>1, <1>2 DEF Fork

\* What a step of a worker, of its peers or of its faults does to the processes:
\* a process that ends has crashed, could not start, or belongs to an older
\* generation; one that goes on keeps its configuration.
LEMMA WorkerEffect ==
  ASSUME TypeOK, NEW p \in Pids, Worker(p) \/ Crash(p) \/ Connections(p)
  PROVE  /\ UNCHANGED <<restartVars, sharedVars, masterVars, hups, forkFails>>
         /\ crashes' = crashes \/ crashes' # 0
         /\ \A q \in Pids :
              \/ proc'[q] = proc[q]
              \/ /\ proc[q].st \in Live /\ proc'[q].st \in Live
                 /\ proc'[q].cfg = proc[q].cfg
                 /\ proc'[q].st \in Running =>
                      \/ proc'[q].gen = drainGen
                      \/ proc[q].st \in Running /\ proc'[q].gen = proc[q].gen
              \/ /\ proc[q].st \in Live /\ proc'[q].st = "zombie"
                 /\ \/ crashes' # 0
                    \/ proc[q].cfg \in BadConfigs
                    \/ proc[q].st \in Running /\ Outdated(q)
<1> USE DEF TypeOK
<1>s. /\ {"waiting", "accepting", "deciding"} = Running /\ Running \subseteq Live
      /\ "listening" \in Live /\ "forked" \in Live
      /\ "listening" \notin Running /\ Gone("zombie").st = "zombie"
  BY DEF Running, Live, Listening, Gone, Process
<1>e. ASSUME NEW s \in Running, proc[p].st \in Running, Enter(p, s)
      PROVE  \A q \in Pids : \/ proc'[q] = proc[q]
                             \/ /\ proc[q].st \in Running /\ proc'[q].st \in Running
                                /\ proc'[q].cfg = proc[q].cfg /\ proc'[q].gen = proc[q].gen
  BY <1>e DEF Enter
<1>1. CASE Start(p)
  BY <1>1, <1>s DEF Start, Enter, boundVars
<1>2. CASE ReadGeneration(p)
  BY <1>2, <1>s DEF ReadGeneration, boundVars
<1>3. CASE LoadShutting(p)
  BY <1>3, <1>e, <1>s DEF LoadShutting, boundVars
<1>4. CASE LoadGeneration(p)
  <2>1. CASE Outdated(p) /\ Drained(p)
    BY <1>4, <2>1, <1>s DEF LoadGeneration, boundVars
  <2>2. CASE ~(Outdated(p) /\ Drained(p))
    BY <1>4, <2>2, <1>e, <1>s DEF LoadGeneration, boundVars
  <2> QED
    BY <2>1, <2>2
<1>5. CASE \E c \in Clients : ListenEvent(p, c) \/ ListenEventGeneration(p, c)
  <2>1. PICK c \in Clients : ListenEvent(p, c) \/ ListenEventGeneration(p, c)
    BY <1>5
  <2>2. UNCHANGED <<restartVars, sharedVars, masterVars, boundVars>>
        /\ proc[p].st \in Running
    BY <2>1, <1>s DEF ListenEvent, ListenEventGeneration
  <2>3. Accept(p, c) \/ \E s \in Running : Enter(p, s)
    BY <2>1, <1>s DEF ListenEvent, ListenEventGeneration
  <2>4. CASE Accept(p, c)
    BY <2>2, <2>4, <1>s DEF Accept, Serve, Strand, AcceptFails, Enter, boundVars
  <2>5. CASE \E s \in Running : Enter(p, s)
    BY <2>2, <2>5, <1>e, <1>s DEF boundVars
  <2> QED
    BY <2>3, <2>4, <2>5
<1>6. CASE Crash(p)
  BY <1>6, <1>s DEF Crash
<1>7. CASE Connections(p)
  <2>1. PICK c \in Clients : CloseConn(p, c) \/ DropConn(p, c)
    BY <1>7 DEF Connections
  <2>2. UNCHANGED <<restartVars, sharedVars, masterVars, boundVars>>
        /\ proc[p].st \in Running
        /\ (proc' = proc \/ proc' = [proc EXCEPT ![p].conns = @ - 1])
    BY <2>1, <1>s DEF CloseConn, DropConn
  <2> QED
    BY <2>2, <1>s DEF boundVars
<1> QED
  BY <1>1, <1>2, <1>3, <1>4, <1>5, <1>6, <1>7 DEF Worker

\* Steps of the environment other than those of the worker processes.
LEMMA OtherSteps ==
  ASSUME Environment
  PROVE  \/ \E p \in Pids : Crash(p) \/ Connections(p)
         \/ /\ UNCHANGED <<mpc, idx, cur, old, proc, restartVars, sharedVars, crashes, forkFails>>
BY DEF Environment, Sighup, Connect, ConnectRefused, masterVars, boundVars

LEMMA AccountInit == Init => AccountInv
BY DEF Init, AccountInv, IndexOK, FillsEmptySlots, KilledAreGone, WorkersAccounted,
       InState, Live, Listening, Running, Gone, Process

\* Steps that leave the tables and the position of the master alone.
LEMMA AccountKept ==
  ASSUME AccountInv, UNCHANGED <<mpc, idx, cur, old>>,
         \A q \in Pids : proc'[q].st \in Live => proc[q].st \in Live
  PROVE  AccountInv'
BY DEF AccountInv, IndexOK, FillsEmptySlots, KilledAreGone, WorkersAccounted,
       InState, Listed, Restarting

LEMMA AccountStep == TypeOK /\ AccountInv /\ [Next]_vars => AccountInv'
<1> SUFFICES ASSUME TypeOK, AccountInv, [Next]_vars PROVE AccountInv'
  OBVIOUS
<1>t. /\ idx \in Slots /\ N \in Nat \ {0}
      /\ cur \in [Slots -> Pids \cup {NoPid, ForkErr}]
      /\ old \in [Slots -> Pids \cup {NoPid, ForkErr}]
      /\ "free" \notin Live /\ "zombie" \notin Live /\ Gone("free").st = "free"
  BY NAssumption DEF TypeOK, Live, Listening, Running, Gone, Process
<1>i. /\ IndexOK /\ FillsEmptySlots /\ KilledAreGone
      /\ \A p \in Pids : proc[p].st \in Live =>
           \/ \E i \in Slots : p = cur[i]
           \/ Restarting /\ \E i \in Slots : p = old[i]
  BY DEF AccountInv, WorkersAccounted, InState, Listed
<1>g. ASSUME \A p \in Pids : proc'[p].st \in Live =>
               \/ \E i \in Slots : p = cur'[i]
               \/ Restarting' /\ \E i \in Slots : p = old'[i]
      PROVE  WorkersAccounted'
  BY <1>g DEF WorkersAccounted, InState, Listed
<1>n. Slots = {i \in Nat : i < N}
  BY NAssumption DEF Slots
<1>1. CASE BootSpawn \/ SpawnNew
  <2>1. PICK c : Fork(c, {}) /\ old' = old
    BY <1>1 DEF BootSpawn, SpawnNew
  <2>2. /\ \A i \in Slots \ {idx} : cur'[i] = cur[i]
        /\ \A q \in Pids : \/ proc'[q] = proc[q]
                           \/ proc'[q].st = "free"
                           \/ q = cur'[idx]
    BY <2>1, ForkTables
  <2>3. cur[idx] = NoPid
    BY <1>1, <1>t, <1>i, <1>n DEF BootSpawn, SpawnNew, FillsEmptySlots
  <2>4. WorkersAccounted'
    <3>1. Restarting => Restarting'
      BY <1>1 DEF BootSpawn, SpawnNew, NextSlot, Restarting
    <3> QED
      BY <1>t, <1>i, <1>g, <2>1, <2>2, <2>3, <3>1, NoPidAssumption
  <2>5. IndexOK'
    BY <1>1 DEF BootSpawn, SpawnNew, NextSlot, IndexOK
  <2>6. FillsEmptySlots'
    BY <1>1, <1>t, <1>i, <1>n, <2>2 DEF BootSpawn, SpawnNew, NextSlot, FillsEmptySlots
  <2>7. KilledAreGone'
    BY <1>1 DEF BootSpawn, SpawnNew, NextSlot, KilledAreGone
  <2> QED
    BY <2>4, <2>5, <2>6, <2>7 DEF AccountInv
<1>2. CASE \/ PollIdle \/ ReloadFails \/ (\E c \in Configs : Reload(c)) \/ BumpGeneration
  <2>1. /\ UNCHANGED <<idx, cur, old, proc>>
        /\ mpc \in {"poll", "bump"} /\ mpc' \in {"poll", "reap", "bump", "flag"}
    BY <1>2 DEF PollIdle, ReloadFails, Reload, BumpGeneration
  <2>2. WorkersAccounted'
    BY <1>i, <1>g, <2>1 DEF Restarting
  <2> QED
    BY <1>i, <2>1, <2>2 DEF AccountInv, IndexOK, FillsEmptySlots, KilledAreGone
<1>3. CASE RaiseFlag
  <2>1. /\ UNCHANGED <<idx, proc>> /\ old' = cur /\ mpc = "flag" /\ mpc' = "spawn"
        /\ cur' = [i \in Slots |-> NoPid]
    BY <1>3 DEF RaiseFlag, FreshTable
  <2>2. WorkersAccounted'
    BY <1>i, <1>g, <2>1 DEF Restarting
  <2> QED
    BY <1>i, <2>1, <2>2 DEF AccountInv, IndexOK, FillsEmptySlots, KilledAreGone
<1>4. CASE DrainSlot
  <2>1. /\ mpc = "drain" /\ mpc' \in {"drain", "tick"} /\ cur' = cur
        /\ mpc' = "tick" => idx' = 0
    BY <1>4 DEF DrainSlot, NextSlot
  <2>2. \/ /\ proc[old[idx]].st = "zombie" /\ old[idx] \in Pids
           /\ proc' = [proc EXCEPT ![old[idx]] = Gone("free")]
           /\ old' = [old EXCEPT ![idx] = NoPid]
        \/ UNCHANGED <<proc, old>>
    BY <1>4 DEF DrainSlot, InState
  <2>3. \A p \in Pids : proc'[p].st \in Live =>
           proc[p].st \in Live /\ \A i \in Slots : p = old[i] => p = old'[i]
    BY <1>t, <2>2 DEF TypeOK
  <2>4. WorkersAccounted'
    BY <1>i, <1>g, <2>1, <2>3 DEF Restarting
  <2> QED
    BY <2>1, <2>4 DEF AccountInv, IndexOK, FillsEmptySlots, KilledAreGone
<1>5. CASE DrainTick
  <2>1. /\ mpc = "tick" /\ mpc' \in {"drain", "kill"} /\ UNCHANGED <<idx, cur, old, proc>>
    BY <1>5 DEF DrainTick
  <2>2. WorkersAccounted'
    BY <1>i, <1>g, <2>1 DEF Restarting
  <2>3. KilledAreGone'
    BY <1>i, <1>n, <2>1 DEF IndexOK, KilledAreGone
  <2> QED
    BY <2>1, <2>2, <2>3 DEF AccountInv, IndexOK, FillsEmptySlots
<1>6. CASE KillSlot
  <2>1. /\ mpc = "kill" /\ UNCHANGED <<cur, old>>
        /\ \/ mpc' = "kill" /\ idx' = idx + 1
           \/ mpc' = "clear" /\ idx' = 0 /\ idx + 1 >= N
    BY <1>6, <1>n, <1>t DEF KillSlot, NextSlot
  <2>2. /\ old[idx] \in Pids => proc'[old[idx]].st \notin Live
        /\ \A p \in Pids : proc'[p].st \in Live => proc[p].st \in Live
    <3>1. CASE Victim \in InState(Live \cup {"zombie"})
      BY <1>6, <1>t, <3>1 DEF KillSlot, Victim, Collected, InState, TypeOK, Gone, Process
    <3>2. CASE Victim \notin InState(Live \cup {"zombie"})
      BY <1>6, <1>t, <3>2 DEF KillSlot, Victim, Collected, InState
    <3> QED
      BY <3>1, <3>2
  <2>3. \A i \in Slots : i <= idx /\ old[i] \in Pids => proc'[old[i]].st \notin Live
    BY <1>i, <1>n, <1>t, <2>1, <2>2 DEF KilledAreGone, InState
  <2>4. KilledAreGone'
    BY <1>n, <1>t, <2>1, <2>3 DEF KilledAreGone, InState
  <2>5. WorkersAccounted'
    <3>1. CASE mpc' = "kill"
      BY <1>i, <1>g, <2>1, <2>2, <3>1 DEF Restarting
    <3>2. CASE mpc' = "clear"
      BY <1>i, <1>g, <1>n, <1>t, <2>1, <2>2, <2>3, <3>2
    <3> QED
      BY <2>1, <3>1, <3>2
  <2> QED
    BY <2>1, <2>4, <2>5 DEF AccountInv, IndexOK, FillsEmptySlots
<1>7. CASE LowerFlag
  <2>1. /\ mpc = "clear" /\ mpc' = "reap" /\ UNCHANGED <<idx, cur, proc>>
    BY <1>7 DEF LowerFlag
  <2>2. WorkersAccounted'
    BY <1>i, <1>g, <2>1 DEF Restarting
  <2> QED
    BY <2>1, <2>2 DEF AccountInv, IndexOK, FillsEmptySlots, KilledAreGone
<1>8. CASE ReapSlot
  <2>1. /\ mpc = "reap" /\ mpc' \in {"reap", "poll"} /\ old' = old
        /\ mpc' = "poll" => idx' = 0
    BY <1>8 DEF ReapSlot, NextSlot
  <2>2. /\ \A i \in Slots : cur[i] \in Pids /\ proc[cur[i]].st \in Live => cur'[i] = cur[i]
        /\ \A q \in Pids : proc'[q].st \in Live => proc[q].st \in Live \/ q = cur'[idx]
    <3>1. CASE Died(idx) /\ Fork(BootCfg, {cur[idx]})
      BY <1>t, <3>1, ForkTables DEF Died, InState
    <3>2. CASE cur[idx] = ForkErr /\ Fork(BootCfg, {})
      BY <1>t, <3>2, ForkTables, NoPidAssumption
    <3>3. CASE \E p \in InState({"zombie"}) :
                 /\ cur[idx] = ForkErr
                 /\ proc' = [proc EXCEPT ![p] = Gone("free")]
                 /\ UNCHANGED <<cur, forkFails>>
      BY <1>t, <3>3 DEF InState, TypeOK
    <3>4. CASE UNCHANGED <<cur, forkFails, proc>>
      BY <3>4
    <3> QED
      BY <1>8, <3>1, <3>2, <3>3, <3>4 DEF ReapSlot
  <2>3. WorkersAccounted'
    BY <1>i, <1>g, <1>t, <2>1, <2>2 DEF Restarting
  <2> QED
    BY <2>1, <2>3 DEF AccountInv, IndexOK, FillsEmptySlots, KilledAreGone
<1>9. CASE \E p \in Pids : Worker(p) \/ Crash(p) \/ Connections(p)
  BY <1>9, <1>t, WorkerEffect, AccountKept DEF masterVars
<1>10. CASE UNCHANGED <<mpc, idx, cur, old, proc>>
  BY <1>10, AccountKept
<1>11. CASE UNCHANGED vars
  BY <1>10, <1>11 DEF vars, masterVars
<1> QED
  BY <1>1, <1>2, <1>3, <1>4, <1>5, <1>6, <1>7, <1>8, <1>9, <1>10, <1>11, OtherSteps
     DEF Next, Master

\* The master never loses track of a live worker, whatever fails.
THEOREM NoWorkerLost == Spec => []WorkersAccounted
<1>1. TypeOK /\ AccountInv => WorkersAccounted
  BY DEF AccountInv
<1>2. Init => CountInv /\ AccountInv
  BY CountInit, AccountInit
<1>3. (CountInv /\ AccountInv) /\ [Next]_vars => (CountInv /\ AccountInv)'
  BY CountStep, AccountStep DEF CountInv
<1>4. CountInv /\ AccountInv => WorkersAccounted
  BY <1>1 DEF CountInv
<1> QED
  BY <1>2, <1>3, <1>4, PTL DEF Spec

-----------------------------------------------------------------------------
(* TableInv is inductive: no two slots share a worker.                     *)

LEMMA TableInit == Init => TableInv
<1> SUFFICES ASSUME Init PROVE TableInv
  OBVIOUS
<1>1. OneSlotPerWorker /\ ListedAreChildren
  BY NoPidAssumption DEF Init, OneSlotPerWorker, ListedAreChildren, InState
<1>2. OldOnlyWhileRestarting /\ PassFoundAlive
  BY DEF Init, OldOnlyWhileRestarting, PassFoundAlive
<1> QED
  BY <1>1, <1>2 DEF TableInv

\* Steps that leave the master's variables alone and collect no child.
LEMMA TableKept ==
  ASSUME TableInv, UNCHANGED <<mpc, idx, cur, old, alive, deadline, forkFails>>,
         \A q \in Pids : proc'[q].st = "free" => proc[q].st = "free"
  PROVE  TableInv'
BY DEF TableInv, OneSlotPerWorker, ListedAreChildren, OldOnlyWhileRestarting,
       PassFoundAlive, InState, Restarting

LEMMA TableStep == TypeOK /\ AccountInv /\ TableInv /\ [Next]_vars => TableInv'
<1> SUFFICES ASSUME TypeOK, AccountInv, TableInv, [Next]_vars PROVE TableInv'
  OBVIOUS
<1>t. /\ idx \in Slots /\ N \in Nat \ {0}
      /\ cur \in [Slots -> Pids \cup {NoPid, ForkErr}]
      /\ old \in [Slots -> Pids \cup {NoPid, ForkErr}]
      /\ forkFails \in Nat
      /\ Gone("free").st = "free" /\ Gone("zombie").st = "zombie"
  BY NAssumption, BoundsAssumption DEF TypeOK, Gone, Process
<1>n. Slots = {i \in Nat : i < N}
  BY NAssumption DEF Slots
<1>i. /\ IndexOK /\ FillsEmptySlots
      /\ OneSlotPerWorker /\ ListedAreChildren
      /\ OldOnlyWhileRestarting /\ PassFoundAlive
  BY DEF AccountInv, TableInv
<1>1. CASE BootSpawn \/ SpawnNew
  <2>1. PICK c : Fork(c, {}) /\ old' = old
    BY <1>1 DEF BootSpawn, SpawnNew
  <2>0. \/ mpc = "boot" /\ mpc' \in {"boot", "poll"}
        \/ /\ mpc = "spawn" /\ mpc' \in {"spawn", "drain"}
           /\ mpc' = "drain" => idx' = 0
    BY <1>1 DEF BootSpawn, SpawnNew, NextSlot
  <2>2. /\ \A i \in Slots \ {idx} : cur'[i] = cur[i]
        /\ \A q \in Pids : \/ proc'[q] = proc[q]
                           \/ q = cur'[idx] /\ proc'[q].st = "forked"
        /\ cur'[idx] \in InState({"free"}) \/ forkFails' # 0
        /\ forkFails' = 0 => forkFails = 0
    BY <1>t, <2>1, ForkTables DEF TypeOK
  <2>3. forkFails' = 0 =>
          /\ cur'[idx] \in Pids
          /\ \A i \in Slots \ {idx} : cur[i] # cur'[idx]
          /\ \A i \in Slots : old[i] # cur'[idx]
    BY <1>i, <2>0, <2>1, <2>2, NoPidAssumption
       DEF ListedAreChildren, OldOnlyWhileRestarting, Restarting, InState
  <2>4. OneSlotPerWorker'
    BY <1>i, <1>t, <2>1, <2>2, <2>3 DEF OneSlotPerWorker
  <2>5. ListedAreChildren'
    <3>1. SUFFICES ASSUME forkFails' = 0
                   PROVE  /\ \A i \in Slots : /\ cur'[i] # ForkErr /\ old'[i] # ForkErr
                                              /\ cur'[i] \notin {q \in Pids : proc'[q].st \in {"free"}}
                          /\ mpc' \in {"spawn", "drain", "tick"} =>
                               \A i \in Slots : old'[i] \notin {q \in Pids : proc'[q].st \in {"free"}}
      BY DEF ListedAreChildren, InState
    <3>2. /\ \A i \in Slots : cur[i] # ForkErr /\ old[i] # ForkErr
          /\ \A i \in Slots : cur[i] \in Pids => proc[cur[i]].st # "free"
          /\ mpc = "spawn" => \A i \in Slots : old[i] \in Pids => proc[old[i]].st # "free"
      BY <1>i, <2>2, <3>1 DEF ListedAreChildren, InState
    <3>3. \A q \in Pids : proc[q].st # "free" => proc'[q].st # "free"
      BY <2>2
    <3>4. proc'[cur'[idx]].st # "free"
      BY <2>1, <3>1, ForkTables DEF InState
    <3> QED
      BY <1>t, <2>0, <2>1, <2>2, <2>3, <3>1, <3>2, <3>3, <3>4, NoPidAssumption
  <2>6. OldOnlyWhileRestarting'
    BY <1>i, <2>0, <2>1 DEF OldOnlyWhileRestarting, Restarting
  <2>7. PassFoundAlive'
    BY <1>n, <2>0 DEF PassFoundAlive
  <2> QED
    BY <2>4, <2>5, <2>6, <2>7 DEF TableInv
<1>2. CASE \/ PollIdle \/ ReloadFails \/ (\E c \in Configs : Reload(c)) \/ BumpGeneration
  <2>1. /\ UNCHANGED <<idx, cur, old, proc, forkFails>>
        /\ mpc \in {"poll", "bump"} /\ mpc' \in {"poll", "reap", "bump", "flag"}
    BY <1>2 DEF PollIdle, ReloadFails, Reload, BumpGeneration, boundVars
  <2> QED
    BY <1>i, <2>1 DEF TableInv, OneSlotPerWorker, ListedAreChildren,
                      OldOnlyWhileRestarting, PassFoundAlive, InState, Restarting
<1>3. CASE RaiseFlag
  <2>1. /\ UNCHANGED <<proc, forkFails>> /\ old' = cur /\ mpc = "flag" /\ mpc' = "spawn"
        /\ cur' = [i \in Slots |-> NoPid]
    BY <1>3 DEF RaiseFlag, FreshTable, boundVars
  <2> QED
    BY <1>i, <1>t, <2>1, NoPidAssumption
       DEF TableInv, OneSlotPerWorker, ListedAreChildren,
           OldOnlyWhileRestarting, PassFoundAlive, InState, Restarting
<1>4. CASE DrainSlot
  <2>1. /\ mpc = "drain" /\ cur' = cur /\ UNCHANGED <<deadline, forkFails>>
        /\ \/ mpc' = "drain" /\ idx' = idx + 1
           \/ mpc' = "tick" /\ idx' = 0 /\ idx + 1 >= N
    BY <1>4, <1>n, <1>t DEF DrainSlot, NextSlot, boundVars
  <2>2. \/ /\ proc[old[idx]].st = "zombie" /\ old[idx] \in Pids
           /\ proc' = [proc EXCEPT ![old[idx]] = Gone("free")]
           /\ old' = [old EXCEPT ![idx] = NoPid]
           /\ alive' = alive
        \/ /\ UNCHANGED <<proc, old>>
           /\ ~alive' => ~alive /\ old[idx] \notin Pids
    BY <1>4 DEF DrainSlot, InState
  <2>3. /\ \A i \in Slots : old'[i] = old[i] \/ (i = idx /\ old'[i] = NoPid)
        /\ ~alive' => ~alive /\ old'[idx] \notin Pids
        /\ \A q \in Pids : proc'[q] = proc[q] \/ (q = old[idx] /\ old'[idx] = NoPid)
    BY <1>t, <2>2, NoPidAssumption DEF TypeOK
  <2>4. OneSlotPerWorker'
    BY <1>i, <2>1, <2>3, NoPidAssumption DEF OneSlotPerWorker
  <2>5. ListedAreChildren'
    BY <1>i, <1>t, <2>1, <2>3, NoPidAssumption DEF ListedAreChildren, OneSlotPerWorker, InState
  <2>6. OldOnlyWhileRestarting'
    BY <2>1 DEF OldOnlyWhileRestarting, Restarting
  <2>7. PassFoundAlive'
    BY <1>i, <1>n, <1>t, <2>1, <2>3, NoPidAssumption DEF PassFoundAlive
  <2> QED
    BY <2>4, <2>5, <2>6, <2>7 DEF TableInv
<1>5. CASE DrainTick
  <2>1. /\ mpc = "tick" /\ mpc' \in {"drain", "kill"} /\ idx' = 0
        /\ UNCHANGED <<cur, old, proc, forkFails>>
        /\ mpc' = "kill" /\ deadline' > 0 => ~alive
    BY <1>5, <1>i DEF DrainTick, IndexOK, boundVars
  <2>2. PassFoundAlive'
    BY <1>i, <1>n, <2>1 DEF PassFoundAlive
  <2> QED
    BY <1>i, <2>1, <2>2 DEF TableInv, OneSlotPerWorker, ListedAreChildren,
                            OldOnlyWhileRestarting, InState, Restarting
<1>6. CASE KillSlot
  <2>1. /\ mpc = "kill" /\ mpc' \in {"kill", "clear"}
        /\ UNCHANGED <<cur, old, deadline, forkFails>>
    BY <1>6 DEF KillSlot, NextSlot, restartVars
  <2>2. \A q \in Pids : proc'[q] = proc[q] \/ q = old[idx]
    <3>1. CASE Victim \in InState(Live \cup {"zombie"})
      BY <1>6, <3>1 DEF KillSlot, Victim, Collected, InState, TypeOK
    <3>2. CASE Victim \notin InState(Live \cup {"zombie"})
      BY <1>6, <3>2 DEF KillSlot
    <3> QED
      BY <3>1, <3>2
  <2>3. ListedAreChildren'
    BY <1>i, <1>t, <2>1, <2>2 DEF ListedAreChildren, OneSlotPerWorker, InState
  <2> QED
    BY <1>i, <2>1, <2>3 DEF TableInv, OneSlotPerWorker,
                            OldOnlyWhileRestarting, PassFoundAlive, Restarting
<1>7. CASE LowerFlag
  <2>1. /\ mpc = "clear" /\ mpc' = "reap" /\ UNCHANGED <<cur, proc, forkFails>>
        /\ \A i \in Slots : old'[i] = NoPid
    BY <1>7 DEF LowerFlag, boundVars
  <2> QED
    BY <1>i, <2>1, NoPidAssumption
       DEF TableInv, OneSlotPerWorker, ListedAreChildren,
           OldOnlyWhileRestarting, PassFoundAlive, InState, Restarting
<1>8. CASE ReapSlot
  <2>1. /\ mpc = "reap" /\ mpc' \in {"reap", "poll"} /\ old' = old
        /\ \A i \in Slots : old[i] = NoPid
    BY <1>8, <1>i DEF ReapSlot, NextSlot, OldOnlyWhileRestarting, Restarting
  <2>2. CASE Died(idx) /\ Fork(BootCfg, {cur[idx]})
    <3>1. /\ \A i \in Slots \ {idx} : cur'[i] = cur[i]
          /\ \A q \in Pids : \/ proc'[q] = proc[q]
                             \/ proc'[q].st = "free" /\ q = cur[idx]
                             \/ q = cur'[idx] /\ proc'[q].st = "forked"
          /\ cur'[idx] \in InState({"free"}) \cup {cur[idx]} \/ forkFails' # 0
          /\ forkFails' = 0 => forkFails = 0
          /\ cur[idx] \in Pids /\ proc[cur[idx]].st = "zombie"
      BY <1>t, <2>2, ForkTables DEF Died, InState
    <3>2. forkFails' = 0 =>
            /\ cur'[idx] \in Pids
            /\ \A i \in Slots \ {idx} : cur[i] # cur'[idx] /\ cur[i] # cur[idx]
      BY <1>i, <1>t, <3>1 DEF ListedAreChildren, OneSlotPerWorker, InState
    <3>3. forkFails' = 0 => \A q \in Pids : proc'[q].st = "free" =>
              proc[q].st = "free" \/ q = cur[idx]
      BY <3>1
    <3>4. forkFails' = 0 => proc'[cur'[idx]].st # "free"
      BY <2>2, ForkTables DEF Died, InState
    <3>5. OneSlotPerWorker'
      BY <1>i, <1>t, <2>1, <3>1, <3>2, NoPidAssumption DEF OneSlotPerWorker
    <3>6. ListedAreChildren'
      BY <1>i, <1>t, <2>1, <3>1, <3>2, <3>3, <3>4, NoPidAssumption DEF ListedAreChildren, InState
    <3> QED
      BY <2>1, <3>5, <3>6 DEF TableInv, OldOnlyWhileRestarting, PassFoundAlive
  <2>3. CASE cur[idx] = ForkErr /\ forkFails' >= forkFails
    <3>1. forkFails' # 0
      BY <1>i, <1>t, <1>8, <2>3, BoundsAssumption DEF ListedAreChildren, TypeOK
    <3> QED
      BY <2>1, <3>1 DEF TableInv, OneSlotPerWorker, ListedAreChildren,
                        OldOnlyWhileRestarting, PassFoundAlive
  <2>4. CASE UNCHANGED <<cur, forkFails, proc>>
    BY <1>i, <2>1, <2>4, NoPidAssumption
       DEF TableInv, OneSlotPerWorker, ListedAreChildren,
           OldOnlyWhileRestarting, PassFoundAlive, InState, Restarting
  <2> QED
    <3>1. Fork(BootCfg, {}) => forkFails' >= forkFails
      BY ForkTables DEF InState
    <3>2. UNCHANGED forkFails => forkFails' >= forkFails
      BY <1>t
    <3> QED
      BY <1>8, <2>2, <2>3, <2>4, <3>1, <3>2 DEF ReapSlot
<1>9. CASE \E p \in Pids : Worker(p) \/ Crash(p) \/ Connections(p)
  <2>1. "zombie" # "free" /\ "free" \notin Live
    BY DEF Live, Listening, Running
  <2> QED
    BY <1>9, <2>1, WorkerEffect, TableKept DEF masterVars, restartVars
<1>10. CASE UNCHANGED <<mpc, idx, cur, old, proc, restartVars, forkFails>>
  BY <1>10, TableKept DEF restartVars
<1>11. CASE UNCHANGED vars
  BY <1>10, <1>11 DEF vars, masterVars, boundVars
<1> QED
  BY <1>1, <1>2, <1>3, <1>4, <1>5, <1>6, <1>7, <1>8, <1>9, <1>10, <1>11, OtherSteps
     DEF Next, Master

\* While no fork fails, the slots of both tables hold different workers.
THEOREM SlotsDistinct == Spec => []OneSlotPerWorker
<1>1. Init => CountInv /\ AccountInv /\ TableInv
  BY CountInit, AccountInit, TableInit
<1>2. (CountInv /\ AccountInv /\ TableInv) /\ [Next]_vars => (CountInv /\ AccountInv /\ TableInv)'
  BY CountStep, AccountStep, TableStep DEF CountInv
<1>3. CountInv /\ AccountInv /\ TableInv => OneSlotPerWorker
  BY DEF TableInv
<1> QED
  BY <1>1, <1>2, <1>3, PTL DEF Spec

\* Clients are killed by the kill loop only.
LEMMA OnlyKillSlotKills ==
  ASSUME [Next]_vars, ~KillSlot, NEW c \in Clients, client \in [Clients -> [st : ClientStates, at : Pids \cup {NoPid}]]
  PROVE  client'[c].st = "killed" => client[c].st = "killed"
<1>a. ASSUME NEW p \in Pids, NEW a \in {"reset", "abandoned"}, NEW b \in {"reset", "aborted"},
             CloseSockets(p, "reset", a, b)
      PROVE  client'[c].st = "killed" => client[c].st = "killed"
  BY <1>a DEF CloseSockets
<1>1. CASE Master
  BY <1>1 DEF Master, BootSpawn, PollIdle, ReloadFails, Reload, BumpGeneration, RaiseFlag,
              SpawnNew, DrainSlot, DrainTick, LowerFlag, ReapSlot
<1>2. CASE \E p \in Pids : Worker(p)
  <2>1. PICK p \in Pids : Worker(p)
    BY <1>2
  <2>2. CASE Start(p) \/ ReadGeneration(p) \/ LoadShutting(p)
    BY <2>2 DEF Start, ReadGeneration, LoadShutting
  <2>3. CASE LoadGeneration(p)
    BY <2>3, <1>a DEF LoadGeneration
  <2>4. CASE \E d \in Clients : ListenEvent(p, d) \/ ListenEventGeneration(p, d)
    <3>1. PICK d \in Clients : Accept(p, d) \/ UNCHANGED client
      BY <2>4 DEF ListenEvent, ListenEventGeneration
    <3> QED
      BY <3>1 DEF Accept, Serve, Strand, AcceptFails
  <2> QED
    BY <2>1, <2>2, <2>3, <2>4 DEF Worker
<1>3. CASE \E p \in Pids : Crash(p)
  BY <1>3, <1>a DEF Crash
<1>4. CASE \E p \in Pids : Connections(p)
  BY <1>4 DEF Connections, CloseConn, DropConn
<1>5. CASE \E d \in Clients : Connect(d) \/ ConnectRefused(d)
  BY <1>5 DEF Connect, ConnectRefused
<1>6. CASE Sighup \/ UNCHANGED vars
  BY <1>6 DEF Sighup, vars
<1> QED
  BY <1>1, <1>2, <1>3, <1>4, <1>5, <1>6 DEF Next, Environment

\* SIGKILL takes only clients of old workers that outlived the deadline.
THEOREM OnlyStragglersKilled == Spec => KillOnlyStragglers
<1> DEFINE Killed == forkFails = 0 =>
             \A c \in Clients :
               client'[c].st = "killed" /\ client[c].st # "killed" =>
                 deadline = 0 /\ client[c].at \in Listed(old) \ Listed(cur)
           Inv == CountInv /\ AccountInv /\ TableInv
<1>1. Init => Inv
  BY CountInit, AccountInit, TableInit
<1>2. Inv /\ [Next]_vars => Inv'
  BY CountStep, AccountStep, TableStep DEF CountInv
<1>3. Inv /\ [Next]_vars => [Killed]_vars
  <2> SUFFICES ASSUME Inv, [Next]_vars, forkFails = 0, NEW c \in Clients,
                      client'[c].st = "killed", client[c].st # "killed"
               PROVE  deadline = 0 /\ client[c].at \in Listed(old) \ Listed(cur)
    OBVIOUS
  <2>1. KillSlot
    BY OnlyKillSlotKills DEF CountInv, TypeOK
  <2>2. Victim \in Pids /\ CloseSockets(Victim, "killed", "killed", "killed") /\ mpc = "kill"
    BY <2>1 DEF KillSlot, InState
  <2>3. client[c].at = old[idx]
    BY <2>2 DEF CloseSockets, Held, Victim
  <2>4. idx \in Slots /\ deadline \in Nat
    BY BoundsAssumption DEF CountInv, TypeOK
  <2>5. deadline = 0
    BY <2>2, <2>4 DEF TableInv, PassFoundAlive, Victim
  <2>6. old[idx] \in Listed(old) \ Listed(cur)
    BY <2>2, <2>4 DEF TableInv, OneSlotPerWorker, Listed, Victim
  <2> QED
    BY <2>3, <2>5, <2>6
<1> QED
  BY <1>1, <1>2, <1>3, PTL DEF Spec, KillOnlyStragglers

-----------------------------------------------------------------------------
(* ReplaceInv is inductive: the new workers serve and are there at the end. *)

LEMMA ReplaceInit == Init => ReplaceInv
BY NoPidAssumption DEF Init, ReplaceInv, NewWorkersKeepServing, ActiveIsNew, NewWorkersLive,
     InState, Restarting

LEMMA KeepServingStep ==
  TypeOK /\ NewWorkersKeepServing /\ [Next]_vars => NewWorkersKeepServing'
<1> SUFFICES ASSUME TypeOK, NewWorkersKeepServing, [Next]_vars,
                    mpc' # "flag", NEW i \in Slots, cur'[i] \in Pids,
                    proc'[cur'[i]].st \in Running
             PROVE  ~(drainGen' > proc'[cur'[i]].gen)
  BY DEF NewWorkersKeepServing, InState, Outdated
<1>t. /\ idx \in Slots /\ drainGen \in Nat
      /\ cur \in [Slots -> Pids \cup {NoPid, ForkErr}]
      /\ "free" \notin Running /\ "zombie" \notin Running /\ "forked" \notin Running
      /\ Gone("free").st = "free" /\ Gone("zombie").st = "zombie"
  BY DEF TypeOK, Running, Gone, Process
<1>i. mpc # "flag" /\ cur[i] \in Pids /\ proc[cur[i]].st \in Running =>
        ~(drainGen > proc[cur[i]].gen)
  BY DEF NewWorkersKeepServing, InState, Outdated
<1>k. ASSUME mpc # "flag", drainGen' = drainGen,
             cur'[i] = cur[i] /\ proc'[cur[i]] = proc[cur[i]]
      PROVE  ~(drainGen' > proc'[cur'[i]].gen)
  BY <1>i, <1>k
<1>f. ASSUME NEW c, NEW reaped \in SUBSET InState({"zombie"}), Fork(c, reaped)
      PROVE  cur'[i] = cur[i] /\ proc'[cur[i]] = proc[cur[i]]
  BY <1>f, <1>t, ForkTables, NoPidAssumption DEF InState
<1>1. CASE BootSpawn \/ SpawnNew
  BY <1>1, <1>f, <1>k DEF BootSpawn, SpawnNew, sharedVars
<1>2. CASE PollIdle \/ ReloadFails \/ (\E c \in Configs : Reload(c)) \/ DrainTick \/ LowerFlag
  BY <1>2, <1>k DEF PollIdle, ReloadFails, Reload, DrainTick, LowerFlag, sharedVars
<1>3. CASE BumpGeneration
  BY <1>3 DEF BumpGeneration
<1>4. CASE RaiseFlag
  BY <1>4, NoPidAssumption DEF RaiseFlag, FreshTable
<1>5. CASE DrainSlot
  BY <1>5, <1>k, <1>t DEF DrainSlot, sharedVars, InState, TypeOK
<1>6. CASE KillSlot
  BY <1>6, <1>k, <1>t DEF KillSlot, Collected, sharedVars, InState, TypeOK
<1>7. CASE ReapSlot
  <2>1. CASE Died(idx) /\ Fork(BootCfg, {cur[idx]})
    BY <1>7, <2>1, <1>f, <1>k DEF ReapSlot, Died, sharedVars
  <2>2. CASE Fork(BootCfg, {})
    BY <1>7, <2>2, <1>f, <1>k DEF ReapSlot, sharedVars
  <2>3. CASE UNCHANGED cur
          /\ (UNCHANGED proc \/ \E p \in InState({"zombie"}) : proc' = [proc EXCEPT ![p] = Gone("free")])
    BY <1>7, <2>3, <1>k, <1>t DEF ReapSlot, sharedVars, InState, TypeOK
  <2> QED
    BY <1>7, <2>1, <2>2, <2>3 DEF ReapSlot
<1>8. CASE \E p \in Pids : Worker(p) \/ Crash(p) \/ Connections(p)
  <2>1. /\ UNCHANGED <<mpc, cur, drainGen>>
        /\ \/ proc'[cur[i]] = proc[cur[i]]
           \/ proc'[cur[i]].gen = drainGen
           \/ proc[cur[i]].st \in Running /\ proc'[cur[i]].gen = proc[cur[i]].gen
    BY <1>8, <1>t, WorkerEffect DEF masterVars, sharedVars
  <2> QED
    BY <1>i, <1>t, <2>1
<1>9. CASE UNCHANGED <<mpc, cur, proc, drainGen>>
  BY <1>9, <1>k
<1>10. CASE UNCHANGED vars
  BY <1>9, <1>10 DEF vars, masterVars, sharedVars
<1> QED
  BY <1>1, <1>2, <1>3, <1>4, <1>5, <1>6, <1>7, <1>8, <1>9, <1>10, OtherSteps
     DEF Next, Master, sharedVars

LEMMA ActiveIsNewStep == TypeOK /\ ActiveIsNew /\ [Next]_vars => ActiveIsNew'
<1> SUFFICES ASSUME TypeOK, ActiveIsNew, [Next]_vars PROVE ActiveIsNew'
  OBVIOUS
<1>1. CASE \E c \in Configs : Reload(c)
  <2>1. PICK c \in Configs : Reload(c)
    BY <1>1
  <2>2. shadow'[activeSlot'].data = c /\ newCfg' = c
    BY <2>1 DEF Reload, TypeOK, InactiveSlot
  <2> QED
    BY <2>2 DEF ActiveIsNew
<1>2. CASE LowerFlag \/ PollIdle
  BY <1>2 DEF LowerFlag, PollIdle, ActiveIsNew, Restarting
<1>3. CASE UNCHANGED <<shadow, activeSlot, newCfg>>
           /\ (Restarting' \/ mpc' \in {"bump", "flag", "clear"} => Restarting \/ mpc \in {"bump", "flag", "clear"})
  BY <1>3 DEF ActiveIsNew
<1>4. CASE BootSpawn \/ ReloadFails \/ BumpGeneration \/ RaiseFlag \/ SpawnNew
  BY <1>3, <1>4 DEF BootSpawn, ReloadFails, BumpGeneration, RaiseFlag, SpawnNew, NextSlot,
                    Restarting, restartVars
<1>5. CASE DrainSlot \/ DrainTick \/ KillSlot \/ ReapSlot
  BY <1>3, <1>5 DEF DrainSlot, DrainTick, KillSlot, ReapSlot, NextSlot, Restarting, restartVars
<1>6. CASE \E p \in Pids : Worker(p) \/ Crash(p) \/ Connections(p)
  BY <1>3, <1>6, WorkerEffect DEF masterVars, restartVars, Restarting
<1>7. CASE UNCHANGED <<mpc, restartVars>>
  BY <1>3, <1>7 DEF restartVars, Restarting
<1> QED
  BY <1>1, <1>2, <1>4, <1>5, <1>6, <1>7, OtherSteps DEF Next, Master, vars, masterVars

LEMMA NewWorkersLiveStep ==
  TypeOK /\ AccountInv /\ TableInv /\ ReplaceInv /\ [Next]_vars => NewWorkersLive'
<1> SUFFICES ASSUME TypeOK, AccountInv, TableInv, ReplaceInv, [Next]_vars,
                    crashes' = 0, forkFails' = 0, newCfg' \notin BadConfigs,
                    NEW i \in Slots,
                    (mpc' = "spawn" /\ i < idx') \/ mpc' \in {"drain", "tick", "kill", "clear"}
             PROVE  /\ cur'[i] \in Pids /\ proc'[cur'[i]].st \in Live
                    /\ proc'[cur'[i]].cfg = newCfg'
  BY DEF NewWorkersLive, InState
<1>t. /\ idx \in Slots /\ N \in Nat \ {0} /\ drainGen \in Nat
      /\ cur \in [Slots -> Pids \cup {NoPid, ForkErr}]
      /\ forkFails \in Nat /\ crashes \in Nat
      /\ "free" \notin Live /\ "zombie" \notin Live /\ "forked" \in Live
      /\ Gone("free").st = "free" /\ Gone("zombie").st = "zombie"
  BY NAssumption, BoundsAssumption DEF TypeOK, Live, Listening, Running, Gone, Process
<1>n. Slots = {j \in Nat : j < N}
  BY NAssumption DEF Slots
<1>i. crashes = 0 /\ forkFails = 0 /\ newCfg \notin BadConfigs =>
        \A j \in Slots :
          (mpc = "spawn" /\ j < idx) \/ mpc \in {"drain", "tick", "kill", "clear"} =>
            cur[j] \in Pids /\ proc[cur[j]].st \in Live /\ proc[cur[j]].cfg = newCfg
  BY DEF ReplaceInv, NewWorkersLive, InState
<1>1. CASE SpawnNew
  <2>1. /\ Fork(newCfg, {}) /\ newCfg' = newCfg /\ crashes' = crashes /\ mpc = "spawn"
        /\ \/ mpc' = "spawn" /\ idx' = idx + 1
           \/ mpc' = "drain" /\ idx + 1 >= N
    BY <1>1, <1>n, <1>t DEF SpawnNew, NextSlot
  <2>2. /\ forkFails = 0
        /\ cur'[idx] \in Pids /\ proc'[cur'[idx]].st = "forked" /\ proc'[cur'[idx]].cfg = newCfg
        /\ \A j \in Slots \ {idx} : cur'[j] = cur[j]
        /\ \A q \in Pids : proc'[q] = proc[q] \/ q = cur'[idx]
    BY <1>t, <2>1, ForkTables DEF InState
  <2>3. i = idx \/ i < idx
    BY <1>n, <1>t, <2>1
  <2> QED
    BY <1>i, <1>t, <2>1, <2>2, <2>3
<1>2. CASE DrainSlot \/ DrainTick
  <2>1. /\ UNCHANGED <<cur, newCfg, crashes, forkFails>> /\ mpc \in {"drain", "tick"}
        /\ \A q \in Pids : proc'[q] = proc[q] \/ proc[q].st = "zombie"
    BY <1>2 DEF DrainSlot, DrainTick, boundVars, InState, TypeOK
  <2> QED
    BY <1>i, <1>t, <2>1
<1>3. CASE KillSlot
  <2>1. /\ UNCHANGED <<cur, newCfg, crashes, forkFails>> /\ mpc = "kill"
        /\ \A q \in Pids : proc'[q] = proc[q] \/ q = old[idx]
    <3>1. CASE Victim \in InState(Live \cup {"zombie"})
      BY <1>3, <3>1 DEF KillSlot, Victim, Collected, InState, TypeOK, restartVars
    <3>2. CASE Victim \notin InState(Live \cup {"zombie"})
      BY <1>3, <3>2 DEF KillSlot, restartVars
    <3> QED
      BY <3>1, <3>2
  <2>2. cur[i] # old[idx] \/ cur[i] \notin Pids
    BY <1>t, <2>1 DEF TableInv, OneSlotPerWorker
  <2> QED
    BY <1>i, <2>1, <2>2
<1>4. CASE RaiseFlag
  BY <1>4, <1>n DEF RaiseFlag, AccountInv, IndexOK
<1>5. CASE \/ BootSpawn \/ PollIdle \/ ReloadFails \/ (\E c \in Configs : Reload(c))
           \/ BumpGeneration \/ LowerFlag \/ ReapSlot
  BY <1>5 DEF BootSpawn, PollIdle, ReloadFails, Reload, BumpGeneration, LowerFlag, ReapSlot, NextSlot
<1>6. CASE \E p \in Pids : Worker(p) \/ Crash(p) \/ Connections(p)
  <2>1. /\ UNCHANGED <<mpc, idx, cur, newCfg, forkFails>> /\ crashes = 0
        /\ \A q \in Pids :
             \/ proc'[q] = proc[q]
             \/ proc'[q].st \in Live /\ proc'[q].cfg = proc[q].cfg
             \/ /\ proc[q].st \in Live
                /\ proc[q].cfg \in BadConfigs \/ (proc[q].st \in Running /\ Outdated(q))
    BY <1>6, <1>t, WorkerEffect DEF masterVars, restartVars
  <2>2. cur[i] \in Pids /\ proc[cur[i]].st \in Live /\ proc[cur[i]].cfg = newCfg
    BY <1>i, <2>1
  <2>3. ~(proc[cur[i]].st \in Running /\ Outdated(cur[i]))
    BY <2>1, <2>2 DEF ReplaceInv, NewWorkersKeepServing, InState
  <2> QED
    BY <2>1, <2>2, <2>3
<1>7. CASE UNCHANGED <<mpc, idx, cur, proc, newCfg, crashes, forkFails>>
  BY <1>7, <1>i
<1> QED
  BY <1>1, <1>2, <1>3, <1>4, <1>5, <1>6, <1>7, OtherSteps
     DEF Next, Master, vars, masterVars, restartVars, boundVars

LEMMA ReplaceStep ==
  TypeOK /\ AccountInv /\ TableInv /\ ReplaceInv /\ [Next]_vars => ReplaceInv'
BY KeepServingStep, ActiveIsNewStep, NewWorkersLiveStep DEF ReplaceInv

\* The conjunction of the four groups is an inductive invariant.
LEMMA AllInvariant ==
  Spec => [](CountInv /\ AccountInv /\ TableInv /\ ReplaceInv)
<1> DEFINE Inv == CountInv /\ AccountInv /\ TableInv /\ ReplaceInv
<1>1. Init => Inv
  BY CountInit, AccountInit, TableInit, ReplaceInit
<1>2. Inv /\ [Next]_vars => Inv'
  BY CountStep, AccountStep, TableStep, ReplaceStep DEF CountInv
<1> QED
  BY <1>1, <1>2, PTL DEF Spec

\* New workers never drain on the signal meant for the old ones.
THEOREM KeepServing == Spec => []NewWorkersKeepServing
<1>1. CountInv /\ AccountInv /\ TableInv /\ ReplaceInv => NewWorkersKeepServing
  BY DEF ReplaceInv
<1> QED
  BY <1>1, AllInvariant, PTL

\* A fault-free restart ends with N live workers of the new, active configuration.
THEOREM WorkersReplaced == Spec => []RestartReplacesWorkers
<1>1. CountInv /\ AccountInv /\ TableInv /\ ReplaceInv => RestartReplacesWorkers
  BY DEF ReplaceInv, NewWorkersLive, ActiveIsNew, RestartReplacesWorkers
<1> QED
  BY <1>1, AllInvariant, PTL

-----------------------------------------------------------------------------
(* FullInv is inductive: outside of restarts the table stays full.         *)

LEMMA FullInit == Init => FullInv
<1> SUFFICES ASSUME Init PROVE FullInv
  OBVIOUS
<1>1. mpc = "boot" /\ idx = 0 /\ shadow[activeSlot].data = BootCfg
  BY DEF Init
<1>2. \A i \in Slots : ~(i < 0)
  BY NAssumption DEF Slots
<1> QED
  BY <1>1, <1>2 DEF FullInv, FilledSlotsLive, BootedActive

LEMMA BootedActiveStep == TypeOK /\ BootedActive /\ [Next]_vars => BootedActive'
<1> SUFFICES ASSUME TypeOK, BootedActive, [Next]_vars, mpc' = "boot"
             PROVE  shadow'[activeSlot'].data = BootCfg
  BY DEF BootedActive
<1>1. CASE BootSpawn
  BY <1>1 DEF BootSpawn, restartVars, BootedActive
<1>2. CASE \/ PollIdle \/ ReloadFails \/ (\E c \in Configs : Reload(c)) \/ BumpGeneration
           \/ RaiseFlag \/ SpawnNew \/ DrainSlot \/ DrainTick \/ KillSlot \/ LowerFlag \/ ReapSlot
  BY <1>2 DEF PollIdle, ReloadFails, Reload, BumpGeneration, RaiseFlag, SpawnNew, DrainSlot,
              DrainTick, KillSlot, LowerFlag, ReapSlot, NextSlot
<1>3. CASE \E p \in Pids : Worker(p) \/ Crash(p) \/ Connections(p)
  BY <1>3, WorkerEffect DEF masterVars, restartVars, BootedActive
<1>4. CASE UNCHANGED <<mpc, restartVars>>
  BY <1>4 DEF restartVars, BootedActive
<1> QED
  BY <1>1, <1>2, <1>3, <1>4, OtherSteps DEF Next, Master, vars, masterVars

LEMMA FilledSlotsLiveStep ==
  TypeOK /\ AccountInv /\ ReplaceInv /\ FullInv /\ [Next]_vars => FilledSlotsLive'
<1> SUFFICES ASSUME TypeOK, AccountInv, ReplaceInv, FullInv, [Next]_vars,
                    crashes' = 0, forkFails' = 0, ConfigInUse' \notin BadConfigs,
                    NEW i \in Slots,
                    (mpc' = "boot" /\ i < idx') \/ mpc' \in {"poll", "bump", "reap"}
             PROVE  /\ cur'[i] \in Pids /\ proc'[cur'[i]].st \in Live
                    /\ proc'[cur'[i]].cfg = ConfigInUse'
  BY DEF FilledSlotsLive, InState
<1>t. /\ idx \in Slots /\ N \in Nat \ {0} /\ drainGen \in Nat
      /\ cur \in [Slots -> Pids \cup {NoPid, ForkErr}]
      /\ forkFails \in Nat /\ crashes \in Nat
      /\ "free" \notin Live /\ "zombie" \notin Live /\ "forked" \in Live
      /\ activeSlot \in {0, 1}
  BY NAssumption, BoundsAssumption DEF TypeOK, Live, Listening, Running
<1>n. Slots = {j \in Nat : j < N}
  BY NAssumption DEF Slots
<1>i. crashes = 0 /\ forkFails = 0 /\ ConfigInUse \notin BadConfigs =>
        \A j \in Slots :
          (mpc = "boot" /\ j < idx) \/ mpc \in {"poll", "bump", "reap"} =>
            cur[j] \in Pids /\ proc[cur[j]].st \in Live /\ proc[cur[j]].cfg = ConfigInUse
  BY DEF FullInv, FilledSlotsLive, InState
<1>f. ASSUME NEW c, NEW reaped \in SUBSET InState({"zombie"}), Fork(c, reaped)
      PROVE  forkFails = 0
  BY <1>f, <1>t, ForkTables
<1>1. CASE BootSpawn
  <2>1. /\ Fork(BootCfg, {}) /\ crashes' = crashes /\ mpc = "boot"
        /\ \/ mpc' = "boot" /\ idx' = idx + 1
           \/ mpc' = "poll" /\ idx + 1 >= N
        /\ UNCHANGED <<shadow, activeSlot>>
    BY <1>1, <1>n, <1>t DEF BootSpawn, NextSlot, restartVars
  <2>2. ConfigInUse = BootCfg /\ ConfigInUse' = BootCfg
    BY <2>1 DEF ConfigInUse, FullInv, BootedActive
  <2>3. /\ forkFails = 0
        /\ cur'[idx] \in Pids /\ proc'[cur'[idx]].st = "forked" /\ proc'[cur'[idx]].cfg = BootCfg
        /\ \A j \in Slots \ {idx} : cur'[j] = cur[j]
        /\ \A q \in Pids : proc'[q] = proc[q] \/ q = cur'[idx]
    BY <1>t, <2>1, ForkTables DEF InState
  <2>4. i = idx \/ i < idx
    BY <1>n, <1>t, <2>1
  <2> QED
    BY <1>i, <1>t, <2>1, <2>2, <2>3, <2>4
<1>2. CASE PollIdle \/ ReloadFails
  <2>1. /\ UNCHANGED <<cur, proc, crashes, forkFails, shadow, activeSlot>>
        /\ mpc = "poll" /\ mpc' \in {"poll", "reap"}
    BY <1>2 DEF PollIdle, ReloadFails, restartVars, boundVars
  <2>2. ConfigInUse' = ConfigInUse
    BY <2>1 DEF ConfigInUse
  <2> QED
    BY <1>i, <2>1, <2>2
<1>3. CASE \E c \in Configs : Reload(c)
  <2>1. PICK c \in Configs : Reload(c)
    BY <1>3
  <2>2. /\ UNCHANGED <<cur, proc, crashes, forkFails>>
        /\ mpc = "poll" /\ mpc' = "bump"
        /\ activeSlot' = 1 - activeSlot /\ shadow'[activeSlot] = shadow[activeSlot]
        /\ 1 - activeSlot' = activeSlot
    BY <2>1, <1>t DEF Reload, InactiveSlot, TypeOK, boundVars
  <2>3. ConfigInUse' = ConfigInUse
    BY <2>2 DEF ConfigInUse, InactiveSlot
  <2> QED
    BY <1>i, <2>2, <2>3
<1>4. CASE LowerFlag
  <2>1. /\ UNCHANGED <<cur, proc, crashes, forkFails, shadow, activeSlot>>
        /\ mpc = "clear" /\ mpc' = "reap"
    BY <1>4 DEF LowerFlag, boundVars
  <2>2. ConfigInUse' = newCfg
    BY <2>1 DEF ConfigInUse, ReplaceInv, ActiveIsNew
  <2> QED
    BY <2>1, <2>2 DEF ReplaceInv, NewWorkersLive, InState
<1>5. CASE ReapSlot
  <2>1. /\ crashes' = crashes /\ mpc = "reap" /\ mpc' \in {"reap", "poll"}
        /\ UNCHANGED <<shadow, activeSlot>>
    BY <1>5 DEF ReapSlot, NextSlot, restartVars
  <2>2. ConfigInUse' = ConfigInUse
    BY <2>1 DEF ConfigInUse
  <2>3. forkFails = 0
    <3>1. CASE Died(idx) /\ Fork(BootCfg, {cur[idx]})
      BY <3>1, <1>f DEF Died
    <3>2. CASE Fork(BootCfg, {})
      BY <3>2, <1>f
    <3>3. CASE UNCHANGED forkFails
      BY <3>3
    <3> QED
      BY <1>5, <3>1, <3>2, <3>3 DEF ReapSlot
  <2>4. cur[idx] \in Pids /\ proc[cur[idx]].st \in Live
    BY <1>i, <1>t, <2>1, <2>2, <2>3
  <2>5. UNCHANGED <<cur, proc>>
    BY <1>5, <1>t, <2>4, NoPidAssumption DEF ReapSlot, Died, InState
  <2> QED
    BY <1>i, <2>1, <2>2, <2>3, <2>5
<1>6. CASE \E p \in Pids : Worker(p) \/ Crash(p) \/ Connections(p)
  <2>1. /\ UNCHANGED <<mpc, idx, cur, shadow, activeSlot, forkFails>> /\ crashes = 0
        /\ \A q \in Pids :
             \/ proc'[q] = proc[q]
             \/ proc'[q].st \in Live /\ proc'[q].cfg = proc[q].cfg
             \/ /\ proc[q].st \in Live
                /\ proc[q].cfg \in BadConfigs \/ (proc[q].st \in Running /\ Outdated(q))
    BY <1>6, <1>t, WorkerEffect DEF masterVars, restartVars
  <2>2. ConfigInUse' = ConfigInUse
    BY <2>1 DEF ConfigInUse, InactiveSlot
  <2>3. cur[i] \in Pids /\ proc[cur[i]].st \in Live /\ proc[cur[i]].cfg = ConfigInUse
    BY <1>i, <2>1, <2>2
  <2>4. ~(proc[cur[i]].st \in Running /\ Outdated(cur[i]))
    BY <2>1, <2>3 DEF ReplaceInv, NewWorkersKeepServing, InState
  <2> QED
    BY <2>1, <2>2, <2>3, <2>4
<1>7. CASE UNCHANGED <<mpc, idx, cur, proc, shadow, activeSlot, crashes, forkFails>>
  BY <1>7, <1>i DEF ConfigInUse, InactiveSlot
<1>8. CASE BumpGeneration \/ RaiseFlag \/ SpawnNew \/ DrainSlot \/ DrainTick \/ KillSlot
  BY <1>8 DEF BumpGeneration, RaiseFlag, SpawnNew, DrainSlot, DrainTick, KillSlot, NextSlot
<1> QED
  BY <1>1, <1>2, <1>3, <1>4, <1>5, <1>6, <1>7, <1>8, OtherSteps
     DEF Next, Master, vars, masterVars, restartVars, boundVars

LEMMA FullStep ==
  TypeOK /\ AccountInv /\ ReplaceInv /\ FullInv /\ [Next]_vars => FullInv'
BY BootedActiveStep, FilledSlotsLiveStep DEF FullInv

\* A fault-free gateway has N live workers whenever it is not handing over from one
\* generation to the next.
THEOREM TableFull == Spec => []TableStaysFull
<1> DEFINE Inv == CountInv /\ AccountInv /\ TableInv /\ ReplaceInv
<1>1. Init => FullInv
  BY FullInit
<1>2. Inv /\ FullInv /\ [Next]_vars => FullInv'
  BY FullStep DEF CountInv
<1>3. Inv /\ FullInv => TableStaysFull
  <2> SUFFICES ASSUME Inv, FullInv, crashes = 0, forkFails = 0, ConfigInUse \notin BadConfigs,
                      mpc \notin {"boot", "flag", "spawn"}, NEW i \in Slots
               PROVE  cur[i] \in InState(Live)
    BY DEF TableStaysFull
  <2>1. CASE mpc \in {"poll", "bump", "reap"}
    BY <2>1 DEF FullInv, FilledSlotsLive
  <2>2. CASE mpc \in {"drain", "tick", "kill", "clear"}
    <3>1. newCfg \notin BadConfigs
      BY <2>2 DEF ReplaceInv, ActiveIsNew, Restarting, ConfigInUse
    <3> QED
      BY <2>2, <3>1 DEF ReplaceInv, NewWorkersLive
  <2> QED
    BY <2>1, <2>2 DEF CountInv, TypeOK, MasterStates
<1> QED
  BY <1>1, <1>2, <1>3, AllInvariant, PTL DEF Spec

-----------------------------------------------------------------------------
(* LeftInv is inductive: a killed child is left unreaped only for a SIGHUP. *)

LEMMA LeftFinite ==
  ASSUME NEW S \in SUBSET Pids
  PROVE  IsFiniteSet(S) /\ Cardinality(S) \in Nat
BY PidsAssumption, FS_Subset, FS_CardinalityType

\* Steps that leave no more children behind.
LEMMA LeftKept ==
  ASSUME hups \in Nat, hups' \in Nat, LeftInv, HupSeen', LeftBehind' \subseteq LeftBehind, hups' >= hups
  PROVE  LeftInv'
<1>1. LeftBehind \subseteq Pids
  BY DEF LeftBehind, InState
<1>2. IsFiniteSet(LeftBehind) /\ Cardinality(LeftBehind) \in Nat /\ Cardinality(LeftBehind') \in Nat
  BY <1>1, LeftFinite
<1>3. Cardinality(LeftBehind') <= Cardinality(LeftBehind)
  BY <1>2, FS_Subset
<1>4. LeftBehind' = {} \/ Cardinality(LeftBehind') < hups'
  BY <1>2, <1>3 DEF LeftInv
<1> QED
  BY <1>4 DEF LeftInv

\* A step that leaves one more, for a SIGHUP more.
LEMMA LeftOneMore ==
  ASSUME hups \in Nat, hups > 0, LeftInv, HupSeen', NEW q \in Pids,
         LeftBehind' \subseteq LeftBehind \cup {q}, hups' = hups + 1
  PROVE  LeftInv'
<1>1. LeftBehind \subseteq Pids
  BY DEF LeftBehind, InState
<1>2. /\ IsFiniteSet(LeftBehind) /\ Cardinality(LeftBehind) \in Nat /\ Cardinality(LeftBehind') \in Nat
      /\ IsFiniteSet(LeftBehind \cup {q})
  BY <1>1, LeftFinite
<1>3. /\ Cardinality(LeftBehind \cup {q}) \in Nat
      /\ Cardinality(LeftBehind \cup {q}) <= Cardinality(LeftBehind) + 1
  BY <1>2, OneMore
<1>4. Cardinality(LeftBehind') <= Cardinality(LeftBehind \cup {q})
  BY <1>2, FS_Subset
<1>5. LeftBehind = {} => Cardinality(LeftBehind) = 0
  BY FS_EmptySet
<1>6. Cardinality(LeftBehind') < hups'
  BY <1>2, <1>3, <1>4, <1>5 DEF LeftInv
<1> QED
  BY <1>6 DEF LeftInv

LEMMA LeftInit == Init => LeftInv
BY DEF Init, LeftInv, HupSeen, LeftBehind, InState, Restarting, Gone, Process

LEMMA HupSeenStep == TypeOK /\ HupSeen /\ [Next]_vars => HupSeen' /\ hups' \in Nat /\ hups' >= hups
<1> SUFFICES ASSUME TypeOK, HupSeen, [Next]_vars PROVE HupSeen' /\ hups' \in Nat /\ hups' >= hups
  OBVIOUS
<1>t. hups \in Nat
  BY BoundsAssumption DEF TypeOK
<1> USE DEF HupSeen, Restarting
<1>1. CASE BootSpawn \/ SpawnNew
  BY <1>1, <1>t DEF BootSpawn, SpawnNew, NextSlot
<1>2. CASE \/ PollIdle \/ ReloadFails \/ (\E c \in Configs : Reload(c)) \/ BumpGeneration \/ RaiseFlag
  BY <1>2, <1>t DEF PollIdle, ReloadFails, Reload, BumpGeneration, RaiseFlag, boundVars
<1>3. CASE DrainSlot \/ DrainTick \/ LowerFlag
  BY <1>3, <1>t DEF DrainSlot, DrainTick, LowerFlag, NextSlot, boundVars
<1>4. CASE KillSlot
  <2>1. mpc = "kill" /\ hups > 0
    BY <1>4 DEF KillSlot
  <2>2. hups' = hups \/ hups' = hups + 1
    BY <1>4 DEF KillSlot
  <2> QED
    BY <1>t, <2>1, <2>2
<1>5. CASE ReapSlot
  <2>1. mpc = "reap" /\ mpc' \in {"reap", "poll"} /\ UNCHANGED <<sighup, hups>>
    BY <1>5 DEF ReapSlot, NextSlot
  <2> QED
    BY <1>t, <2>1
<1>6. CASE \E p \in Pids : Worker(p) \/ Crash(p) \/ Connections(p)
  BY <1>6, <1>t, WorkerEffect DEF masterVars
<1>7. CASE Sighup
  BY <1>7, <1>t DEF Sighup
<1>8. CASE \E c \in Clients : Connect(c) \/ ConnectRefused(c)
  BY <1>8, <1>t DEF Connect, ConnectRefused, masterVars, boundVars
<1>9. CASE UNCHANGED vars
  BY <1>9, <1>t DEF vars, masterVars, boundVars
<1> QED
  BY <1>1, <1>2, <1>3, <1>4, <1>5, <1>6, <1>7, <1>8, <1>9 DEF Next, Master, Environment

LEMMA LeftStep == TypeOK /\ AccountInv /\ TableInv /\ LeftInv /\ [Next]_vars => LeftInv'
<1> SUFFICES ASSUME TypeOK, AccountInv, TableInv, LeftInv, [Next]_vars PROVE LeftInv'
  OBVIOUS
<1>t. /\ idx \in Slots /\ N \in Nat \ {0} /\ hups \in Nat
      /\ cur \in [Slots -> Pids \cup {NoPid, ForkErr}]
      /\ old \in [Slots -> Pids \cup {NoPid, ForkErr}]
      /\ "zombie" \notin Live /\ Gone("free").st = "free"
  BY NAssumption, BoundsAssumption DEF TypeOK, Live, Listening, Running, Gone, Process
<1>n. Slots = {i \in Nat : i < N}
  BY NAssumption DEF Slots
<1>h. HupSeen' /\ hups' \in Nat /\ hups' >= hups
  BY HupSeenStep DEF LeftInv
<1>i. /\ FillsEmptySlots /\ KilledAreGone /\ OldOnlyWhileRestarting /\ IndexOK
      /\ \A p \in Pids : proc[p].st \in Live =>
           \/ \E i \in Slots : p = cur[i]
           \/ Restarting /\ \E i \in Slots : p = old[i]
  BY DEF AccountInv, TableInv, WorkersAccounted, InState, Listed
<1> DEFINE Ahead(i) == mpc # "clear" /\ (mpc = "kill" => i >= idx)
           Left(q)  == /\ q \in Pids /\ proc[q].st = "zombie"
                       /\ \A i \in Slots : q # cur[i] /\ (Ahead(i) => q # old[i])
<1>l. /\ \A q : q \in LeftBehind <=> Left(q)
      /\ \A q : q \in LeftBehind' <=> Left(q)'
  <2>1. \A q : q \in LeftBehind <=> Left(q)
    BY DEF LeftBehind, OldAhead, InState, Listed
  <2>2. \A q : q \in LeftBehind' <=> Left(q)'
    BY DEF LeftBehind, OldAhead, InState, Listed
  <2> QED
    BY <2>1, <2>2
<1>k. ASSUME \A q \in Pids : Left(q)' => Left(q)
      PROVE  LeftInv'
  <2>1. LeftBehind' \subseteq LeftBehind
    BY <1>l, <1>k
  <2> QED
    BY <1>t, <1>h, <2>1, LeftKept
<1>1. CASE BootSpawn \/ SpawnNew
  <2>1. PICK c : Fork(c, {}) /\ old' = old
    BY <1>1 DEF BootSpawn, SpawnNew
  <2>2. /\ \A i \in Slots \ {idx} : cur'[i] = cur[i]
        /\ \A q \in Pids : proc'[q].st = "zombie" => proc[q].st = "zombie"
    BY <2>1, ForkTables
  <2>3. cur[idx] = NoPid
    BY <1>1, <1>t, <1>i, <1>n DEF BootSpawn, SpawnNew, FillsEmptySlots
  <2>4. mpc \notin {"kill", "clear"} /\ mpc' \notin {"kill", "clear"}
    BY <1>1 DEF BootSpawn, SpawnNew, NextSlot
  <2>5. \A q \in Pids : Left(q)' => Left(q)
    BY <2>1, <2>2, <2>3, <2>4, NoPidAssumption
  <2> QED
    BY <1>k, <2>5
<1>2. CASE \/ PollIdle \/ ReloadFails \/ (\E c \in Configs : Reload(c)) \/ BumpGeneration
  <2>1. /\ UNCHANGED <<cur, old, proc>> /\ mpc \notin {"kill", "clear"} /\ mpc' \notin {"kill", "clear"}
    BY <1>2 DEF PollIdle, ReloadFails, Reload, BumpGeneration
  <2>2. \A q \in Pids : Left(q)' => Left(q)
    BY <2>1
  <2> QED
    BY <1>k, <2>2
<1>3. CASE RaiseFlag
  <2>1. /\ UNCHANGED proc /\ old' = cur /\ mpc = "flag" /\ mpc' = "spawn"
    BY <1>3 DEF RaiseFlag
  <2>2. \A i \in Slots : old[i] = NoPid
    BY <1>i, <2>1 DEF OldOnlyWhileRestarting, Restarting
  <2>3. \A q \in Pids : Left(q)' => Left(q)
    BY <2>1, <2>2, NoPidAssumption
  <2> QED
    BY <1>k, <2>3
<1>4. CASE DrainSlot
  <2>1. mpc \notin {"kill", "clear"} /\ mpc' \notin {"kill", "clear"} /\ cur' = cur
    BY <1>4 DEF DrainSlot, NextSlot
  <2>2. \/ /\ old[idx] \in Pids
           /\ proc' = [proc EXCEPT ![old[idx]] = Gone("free")]
           /\ old' = [old EXCEPT ![idx] = NoPid]
        \/ UNCHANGED <<proc, old>>
    BY <1>4 DEF DrainSlot, InState
  <2>3. \A q \in Pids : Left(q)' => Left(q)
    BY <1>t, <2>1, <2>2 DEF TypeOK
  <2> QED
    BY <1>k, <2>3
<1>5. CASE DrainTick
  <2>1. /\ mpc = "tick" /\ mpc' \in {"drain", "kill"} /\ idx' = 0 /\ UNCHANGED <<cur, old, proc>>
    BY <1>5, <1>i DEF DrainTick, IndexOK
  <2>2. \A q \in Pids : Left(q)' => Left(q)
    BY <1>n, <2>1
  <2> QED
    BY <1>k, <2>2
<1>6. CASE KillSlot
  <2>1. /\ mpc = "kill" /\ UNCHANGED <<cur, old>>
        /\ \/ mpc' = "kill" /\ idx' = idx + 1
           \/ mpc' = "clear" /\ idx' = 0 /\ idx + 1 >= N
    BY <1>6, <1>n, <1>t DEF KillSlot, NextSlot
  <2>2. \A i \in Slots : Ahead(i) => Ahead(i)' \/ i = idx
    BY <1>n, <1>t, <2>1
  <2>3. CASE Victim \in InState(Live \cup {"zombie"})
    <3>1. /\ old[idx] \in Pids
          /\ \/ proc' = [proc EXCEPT ![old[idx]] = Gone("free")]
             \/ hups' = hups + 1 /\ proc' = [proc EXCEPT ![old[idx]] = Gone("zombie")]
      BY <1>6, <2>3 DEF KillSlot, Victim, Collected, InState
    <3>2. CASE proc' = [proc EXCEPT ![old[idx]] = Gone("free")]
      <4>1. \A q \in Pids : Left(q)' => Left(q)
        BY <1>t, <2>1, <2>2, <3>1, <3>2 DEF TypeOK
      <4> QED
        BY <1>k, <4>1
    <3>3. CASE hups' = hups + 1 /\ proc' = [proc EXCEPT ![old[idx]] = Gone("zombie")]
      <4>1. \A q \in Pids : Left(q)' => Left(q) \/ q = old[idx]
        BY <1>t, <2>1, <2>2, <3>1, <3>3 DEF TypeOK
      <4>2. LeftBehind' \subseteq LeftBehind \cup {old[idx]}
        BY <1>l, <4>1
      <4>3. hups > 0
        BY <2>1 DEF LeftInv, HupSeen, Restarting
      <4> QED
        BY <1>h, <1>t, <3>1, <3>3, <4>2, <4>3, LeftOneMore
    <3> QED
      BY <3>1, <3>2, <3>3
  <2>4. CASE Victim \notin InState(Live \cup {"zombie"})
    <3>1. UNCHANGED proc
      BY <1>6, <2>4 DEF KillSlot
    <3>2. old[idx] \in Pids => proc[old[idx]].st # "zombie"
      BY <2>4 DEF Victim, InState
    <3>3. \A q \in Pids : Left(q)' => Left(q)
      BY <2>1, <2>2, <3>1, <3>2
    <3> QED
      BY <1>k, <3>3
  <2> QED
    BY <2>3, <2>4
<1>7. CASE LowerFlag
  <2>1. /\ mpc = "clear" /\ UNCHANGED <<cur, proc>>
    BY <1>7 DEF LowerFlag
  <2>2. \A q \in Pids : Left(q)' => Left(q)
    BY <2>1
  <2> QED
    BY <1>k, <2>2
<1>8. CASE ReapSlot
  <2>1. /\ mpc \notin {"kill", "clear"} /\ mpc' \notin {"kill", "clear"} /\ old' = old
    BY <1>8 DEF ReapSlot, NextSlot
  <2>2. /\ \A q \in Pids : proc'[q].st = "zombie" => proc[q].st = "zombie"
        /\ \A q \in Pids : proc'[q].st = "zombie" => \A i \in Slots : q = cur[i] => q = cur'[i]
    <3>1. CASE Died(idx) /\ Fork(BootCfg, {cur[idx]})
      <4>1. cur[idx] \in Pids /\ cur[idx] \in InState({"zombie"})
        BY <3>1 DEF Died, InState
      <4>2. /\ \A i \in Slots \ {idx} : cur'[i] = cur[i]
            /\ \A q \in Pids : proc'[q].st = "zombie" => proc'[q] = proc[q]
        BY <3>1, <4>1, ForkTables
      <4>3. proc'[cur[idx]].st # "zombie"
        BY <3>1, <4>1 DEF Fork, Gone, Process
      <4> QED
        BY <4>2, <4>3
    <3>2. CASE cur[idx] = ForkErr /\ Fork(BootCfg, {})
      BY <3>2, ForkTables, NoPidAssumption
    <3>3. CASE \E p \in InState({"zombie"}) :
                 /\ cur[idx] = ForkErr
                 /\ proc' = [proc EXCEPT ![p] = Gone("free")]
                 /\ UNCHANGED <<cur, forkFails>>
      BY <1>t, <3>3 DEF InState, TypeOK
    <3>4. CASE UNCHANGED <<cur, forkFails, proc>>
      BY <3>4
    <3> QED
      BY <1>8, <3>1, <3>2, <3>3, <3>4 DEF ReapSlot
  <2>3. \A q \in Pids : Left(q)' => Left(q)
    BY <2>1, <2>2
  <2> QED
    BY <1>k, <2>3
<1>9. CASE \E p \in Pids : Worker(p) \/ Crash(p) \/ Connections(p)
  <2>1. /\ UNCHANGED <<mpc, idx, cur, old>>
        /\ \A q \in Pids : proc'[q].st = "zombie" => proc[q].st = "zombie" \/ proc[q].st \in Live
    BY <1>9, <1>t, WorkerEffect DEF masterVars
  <2>2. \A q \in Pids : proc[q].st \in Live =>
          \E i \in Slots : q = cur[i] \/ (Ahead(i) /\ q = old[i])
    <3> SUFFICES ASSUME NEW q \in Pids, proc[q].st \in Live, Restarting, NEW i \in Slots, q = old[i]
                 PROVE  Ahead(i)
      BY <1>i
    <3>1. mpc = "kill" /\ i < idx => FALSE
      BY <1>i DEF KilledAreGone, InState
    <3> QED
      BY <1>n, <1>t, <3>1 DEF Restarting
  <2>3. \A q \in Pids : Left(q)' => Left(q)
    BY <2>1, <2>2
  <2> QED
    BY <1>k, <2>3
<1>10. CASE UNCHANGED <<mpc, idx, cur, old, proc>>
  <2>1. \A q \in Pids : Left(q)' => Left(q)
    BY <1>10
  <2> QED
    BY <1>k, <2>1
<1>11. CASE UNCHANGED vars
  BY <1>10, <1>11 DEF vars, masterVars
<1> QED
  BY <1>1, <1>2, <1>3, <1>4, <1>5, <1>6, <1>7, <1>8, <1>9, <1>10, <1>11, OtherSteps
     DEF Next, Master

\* Whatever forks fail, workers crash and restarts follow each other: the children that the
\* master will never wait for are fewer than the SIGHUPs it got.
THEOREM UnreapedBounded == Spec => []UnreapedChildrenBounded
<1> DEFINE Inv == CountInv /\ AccountInv /\ TableInv /\ ReplaceInv
<1>1. Init => LeftInv
  BY LeftInit
<1>2. Inv /\ LeftInv /\ [Next]_vars => LeftInv'
  BY LeftStep DEF CountInv
<1>3. Inv /\ LeftInv => UnreapedChildrenBounded
  <2> SUFFICES ASSUME TypeOK, LeftInv PROVE UnreapedChildrenBounded
    BY DEF CountInv
  <2> DEFINE U == InState({"zombie"}) \ (Listed(cur) \cup Listed(old))
  <2>1. U \subseteq LeftBehind /\ LeftBehind \subseteq Pids
    BY DEF LeftBehind, OldAhead, Listed, InState
  <2>2. /\ IsFiniteSet(LeftBehind) /\ Cardinality(LeftBehind) \in Nat
        /\ IsFiniteSet(U) /\ Cardinality(U) \in Nat
    BY <2>1, LeftFinite
  <2>3. Cardinality(U) <= Cardinality(LeftBehind)
    BY <2>1, <2>2, FS_Subset
  <2>4. hups \in Nat
    BY BoundsAssumption DEF TypeOK
  <2>5. U = {} \/ Cardinality(U) < hups
    <3> HIDE DEF U
    <3> QED
      BY <2>1, <2>2, <2>3, <2>4 DEF LeftInv
  <2> QED
    BY <2>5 DEF UnreapedChildrenBounded
<1> QED
  BY <1>1, <1>2, <1>3, AllInvariant, PTL DEF Spec
-----------------------------------------------------------------------------
(* Every life of a worker keeps the contract of its connections.           *)

KeepsContract(p) == UNCHANGED ownConns(p) \/ Born(p) \/ Dies(p) \/ Conns(p)!Next

Active(p)   == Held(p, {"active"})
Stranded(p) == Held(p, {"stranded"})
Mine(p)     == <<Active(p), Stranded(p)>>

\* Only a worker in its loop has connections it found no slot for.
StrandedOK == \A p \in Pids : proc[p].st \in Running \/ Stranded(p) = {}

\* A step that is none of p's, and touches nothing the workers share.
LEMMA OthersUnmoved ==
  ASSUME NEW p \in Pids, proc'[p] = proc[p], Mine(p)' = Mine(p), UNCHANGED sharedVars
  PROVE  KeepsContract(p)
<1>1. (p \in InState(Running))' <=> p \in InState(Running)
  BY DEF InState
<1>2. Told(p)' <=> Told(p)
  BY DEF Told, Outdated, Drained, sharedVars
<1>3. UNCHANGED ownConns(p)
  BY <1>1, <1>2 DEF ownConns, Mine, Active, Stranded
<1> QED
  BY <1>3 DEF KeepsContract

\* Outside of its loop a process has no connections and is told nothing.
LEMMA OutsideLoop ==
  ASSUME NEW p \in Pids, proc[p].st \notin Running, proc'[p].st \notin Running,
         proc'[p].conns = proc[p].conns, Mine(p)' = Mine(p)
  PROVE  KeepsContract(p)
<1>1. p \notin InState(Running) /\ ~ (p \in InState(Running))'
  BY DEF InState
<1>2. UNCHANGED ownConns(p)
  BY <1>1 DEF ownConns, Mine, Active, Stranded
<1> QED
  BY <1>2 DEF KeepsContract

\* A process outside of its loop, or one that has counted down to 0, holds nothing.
LEMMA HoldsNothing ==
  ASSUME TypeOK, ConnsOK, NEW p \in Pids, proc[p].st \notin Running \/ proc[p].conns = 0
  PROVE  proc[p].conns = 0 /\ Active(p) = {}
<1>1. proc[p].conns = 0 /\ Cardinality(Held(p, {"active"})) <= 0
  BY DEF ConnsOK
<1> QED
  BY <1>1, NoneHeld DEF Active

\* What a process has descriptors for is what it serves and what it found no slot for.
LEMMA OpenParts ==
  ASSUME NEW p \in Pids
  PROVE  /\ Active(p) = {} /\ Stranded(p) = {} => Open(p) = {}
         /\ Active(p)' = {} /\ Stranded(p)' = {} => Open(p)' = {}
         /\ Open(p)' = {} => Stranded(p)' = {}
BY DEF Active, Stranded, Open, Held

\* A worker moves within its loop, and is told no more by it than before.
LEMMA MovesInLoop ==
  ASSUME TypeOK, NEW p \in Pids, NEW s \in Running, proc[p].st \in Running, Enter(p, s),
         client' = client, UNCHANGED sharedVars,
         Told(p) <=> Outdated(p) /\ (shuttingDown = 1 \/ (s = "deciding" /\ Drained(p)))
  PROVE  KeepsContract(p)
<1>1. /\ proc'[p].st = s /\ proc'[p].gen = proc[p].gen /\ proc'[p].conns = proc[p].conns
  BY DEF TypeOK, Enter
<1>2. p \in InState(Running) /\ (p \in InState(Running))'
  BY <1>1 DEF InState
<1>3. Told(p)' <=> Told(p)
  BY <1>1 DEF Told, Outdated, Drained, sharedVars
<1>4. UNCHANGED ownConns(p)
  BY <1>1, <1>2, <1>3 DEF ownConns, Held
<1> QED
  BY <1>4 DEF KeepsContract

\* The two stores of the master, which tell a worker to drain but never the contrary.
LEMMA MasterTells ==
  ASSUME TypeOK, NEW p \in Pids, proc' = proc, client' = client,
         drainGen' \in {drainGen, drainGen + 1}, shuttingDown' \in {shuttingDown, 1}
  PROVE  KeepsContract(p)
<1>1. Told(p) => Told(p)'
  BY DEF TypeOK, Told, Outdated, Drained
<1>2. /\ Mine(p)' = Mine(p) /\ proc'[p].conns = proc[p].conns
      /\ (p \in InState(Running))' <=> p \in InState(Running)
  BY DEF Mine, Active, Stranded, Held, InState
<1>3. CASE p \in InState(Running) /\ Told(p)' /\ ~ Told(p)
  <2>1. Conns(p)!BeginDrain
    BY <1>2, <1>3 DEF Conns!BeginDrain, Held
  <2> QED
    BY <2>1 DEF KeepsContract, Conns!Next
<1>4. CASE ~ (p \in InState(Running) /\ Told(p)' /\ ~ Told(p))
  <2>1. UNCHANGED ownConns(p)
    BY <1>1, <1>2, <1>4 DEF ownConns, Mine, Active, Stranded
  <2> QED
    BY <2>1 DEF KeepsContract
<1> QED
  BY <1>3, <1>4

\* The flag is lowered when no worker is left that it tells anything: the old ones are gone,
\* and the current ones have read the present generation.
LEMMA LowerFlagTellsNobody ==
  ASSUME TypeOK, AccountInv, NewWorkersKeepServing, LowerFlag, NEW p \in Pids
  PROVE  KeepsContract(p)
<1>1. proc' = proc /\ client' = client /\ drainGen' = drainGen /\ mpc = "clear"
  BY DEF LowerFlag
<1>2. /\ Mine(p)' = Mine(p) /\ proc'[p].conns = proc[p].conns
      /\ (p \in InState(Running))' <=> p \in InState(Running)
  BY <1>1 DEF Mine, Active, Stranded, Held, InState
<1>3. p \in InState(Running) => ~ Outdated(p)
  <2> SUFFICES ASSUME p \in InState(Running) PROVE ~ Outdated(p)
    OBVIOUS
  <2>1. p \in InState(Live)
    BY DEF InState, Live, Listening
  <2>2. p \in Listed(cur)
    BY <1>1, <2>1 DEF AccountInv, WorkersAccounted, Restarting
  <2> QED
    BY <1>1, <2>2 DEF Listed, NewWorkersKeepServing
<1>4. p \in InState(Running) => ~ Told(p) /\ ~ Told(p)'
  BY <1>1, <1>3 DEF Told, Outdated
<1>5. UNCHANGED ownConns(p)
  BY <1>2, <1>4 DEF ownConns, Mine, Active, Stranded
<1> QED
  BY <1>5 DEF KeepsContract

\* The forks and the waits of the master: they reach no process in its loop.
LEMMA ChildrenKeepContract ==
  ASSUME TypeOK, ConnsOK, NEW p \in Pids, client' = client, UNCHANGED sharedVars,
         \/ proc'[p] = proc[p]
         \/ /\ proc[p].st \in {"free", "zombie"} /\ proc'[p].st \in {"free", "forked"}
            /\ proc'[p].conns = 0
  PROVE  KeepsContract(p)
<1>1. Mine(p)' = Mine(p)
  BY DEF Mine, Active, Stranded, Held
<1>2. CASE proc'[p] = proc[p]
  BY <1>1, <1>2, OthersUnmoved
<1>3. CASE /\ proc[p].st \in {"free", "zombie"} /\ proc'[p].st \in {"free", "forked"}
           /\ proc'[p].conns = 0
  <2>1. proc[p].st \notin Running /\ proc'[p].st \notin Running
    BY <1>3 DEF Running
  <2> QED
    BY <1>1, <1>3, <2>1, HoldsNothing, OutsideLoop
<1> QED
  BY <1>2, <1>3

\* A worker dies with its sockets: the others keep theirs.
LEMMA DeathKeepsContract ==
  ASSUME TypeOK, ConnsOK, StrandedOK, NEW v \in Pids, NEW p \in Pids, UNCHANGED sharedVars,
         proc'[v].st \in {"free", "zombie"}, proc'[v].conns = 0, Active(v)' = {}, Stranded(v)' = {},
         \A q \in Pids \ {v} : proc'[q] = proc[q] /\ Mine(q)' = Mine(q),
         crashes' > crashes \/ (mpc = "kill" /\ v \in Listed(old))
  PROVE  KeepsContract(p)
<1>1. CASE p # v
  BY <1>1, OthersUnmoved
<1>2. CASE p = v /\ proc[p].st \in Running
  <2>1. Open(p)' = {}
    BY <1>2, OpenParts
  <2> QED
    BY <1>2, <2>1 DEF KeepsContract, Dies, InState, Running
<1>3. CASE p = v /\ proc[p].st \notin Running
  <2>1. proc'[p].st \notin Running
    BY <1>3 DEF Running
  <2>2. Mine(p)' = Mine(p) /\ proc'[p].conns = proc[p].conns
    BY <1>3, HoldsNothing DEF Mine, StrandedOK
  <2> QED
    BY <1>3, <2>1, <2>2, OutsideLoop
<1> QED
  BY <1>1, <1>2, <1>3

\* accept(): only a worker that is not told to drain gets there.
LEMMA AcceptKeepsContract ==
  ASSUME TypeOK, NEW w \in Pids, NEW c \in Clients, NEW p \in Pids, UNCHANGED sharedVars,
         proc[w].st \in Running, ~ Told(w), ~ Outdated(w) \/ shuttingDown # 1, Accept(w, c)
  PROVE  KeepsContract(p)
<1>0. /\ client[c] \in [st : ClientStates, at : Pids \cup {NoPid}]
      /\ client[c].st = "queued" /\ client[c].at = w
  BY DEF TypeOK, Accept, Held
<1>1. CASE Serve(w, c) \/ Strand(w, c)
  <2>1. /\ client'[c].at = w
        /\ \/ Serve(w, c) /\ client'[c].st = "active" /\ proc'[w].conns = proc[w].conns + 1
           \/ Strand(w, c) /\ client'[c].st = "stranded" /\ proc'[w].conns = proc[w].conns
        /\ \A d \in Clients \ {c} : client'[d] = client[d]
    BY <1>0, <1>1 DEF TypeOK, Serve, Strand, Enter
  <2>2. /\ proc'[w].st = "waiting" /\ proc'[w].gen = proc[w].gen
        /\ \A q \in Pids \ {w} : proc'[q] = proc[q]
    BY <1>1 DEF TypeOK, Serve, Strand, Enter
  <2>3. CASE p # w
    <3>1. Mine(p)' = Mine(p)
      BY <1>0, <2>1, <2>3 DEF Mine, Active, Stranded, Held
    <3> QED
      BY <2>2, <2>3, <3>1, OthersUnmoved
  <2>4. CASE p = w
    <3>1. p \in InState(Running) /\ (p \in InState(Running))'
      BY <2>2, <2>4 DEF InState, Running
    <3>2. ~ Told(p) /\ ~ Told(p)'
      BY <2>2, <2>4 DEF Told, Outdated, sharedVars
    <3>3. CASE client'[c].st = "active" /\ proc'[w].conns = proc[w].conns + 1
      <4>1. Conns(p)!Moves(c, "waiting", "served")
        BY <1>0, <2>1, <2>4, <3>3 DEF Conns!Moves, Held
      <4>2. Conns(p)!Accept(c)
        BY <2>4, <3>1, <3>2, <3>3, <4>1 DEF Conns!Accept
      <4> QED
        BY <4>2 DEF KeepsContract, Conns!Next
    <3>4. CASE client'[c].st = "stranded" /\ proc'[w].conns = proc[w].conns
      <4>1. Conns(p)!Moves(c, "waiting", "stranded")
        BY <1>0, <2>1, <2>4, <3>4 DEF Conns!Moves, Held
      <4>2. Conns(p)!Strand(c)
        BY <2>4, <3>1, <3>2, <3>4, <4>1 DEF Conns!Strand
      <4> QED
        BY <4>2 DEF KeepsContract, Conns!Next
    <3> QED
      BY <2>1, <3>3, <3>4
  <2> QED
    BY <2>3, <2>4
<1>2. CASE AcceptFails(w)
  <2>1. Enter(w, "waiting") /\ client' = client /\ "waiting" \in Running
    BY <1>2 DEF AcceptFails, Running
  <2>2. CASE p = w
    BY <2>1, <2>2, MovesInLoop DEF Told
  <2>3. CASE p # w
    <3>1. proc'[p] = proc[p] /\ Mine(p)' = Mine(p)
      BY <2>1, <2>3 DEF TypeOK, Enter, Mine, Active, Stranded, Held
    <3> QED
      BY <3>1, OthersUnmoved
  <2> QED
    BY <2>2, <2>3
<1> QED
  BY <1>1, <1>2 DEF Accept

\* A connection ends, and the count goes down with it or does not.
LEMMA CloseKeepsContract ==
  ASSUME TypeOK, NEW w \in Pids, NEW c \in Clients, NEW p \in Pids, CloseConn(w, c) \/ DropConn(w, c)
  PROVE  KeepsContract(p)
<1>1. /\ c \in Active(w) /\ client[c].st = "active" /\ client[c].at = w /\ proc[w].st = "waiting"
      /\ client'[c].st = "closed" /\ client'[c].at = NoPid
      /\ \A d \in Clients \ {c} : client'[d] = client[d]
      /\ UNCHANGED sharedVars
  BY DEF TypeOK, CloseConn, DropConn, Held, Active
<1>2. /\ proc'[w].st = "waiting" /\ proc'[w].gen = proc[w].gen
      /\ \A q \in Pids \ {w} : proc'[q] = proc[q]
      /\ \/ CloseConn(w, c) /\ proc'[w].conns = proc[w].conns - 1
         \/ DropConn(w, c) /\ proc'[w].conns = proc[w].conns
  BY <1>1 DEF TypeOK, CloseConn, DropConn
<1>3. CASE p # w
  <2>1. Mine(p)' = Mine(p)
    BY <1>1, <1>3, NoPidAssumption DEF Mine, Active, Stranded, Held
  <2> QED
    BY <1>1, <1>2, <1>3, <2>1, OthersUnmoved
<1>4. CASE p = w
  <2>1. p \in InState(Running) /\ (p \in InState(Running))'
    BY <1>1, <1>2, <1>4 DEF InState, Running
  <2>2. Told(p)' <=> Told(p)
    BY <1>1, <1>2, <1>4 DEF Told, Outdated, sharedVars
  <2>3. Conns(p)!Moves(c, "served", "closed")
    BY <1>1, <1>4, NoPidAssumption DEF Conns!Moves, Held, Active
  <2>4. Conns(p)!Finish(c) \/ Conns(p)!Drop(c)
    BY <1>2, <1>4, <2>1, <2>2, <2>3 DEF Conns!Finish, Conns!Drop
  <2> QED
    BY <2>4 DEF KeepsContract, Conns!Next
<1> QED
  BY <1>3, <1>4

\* A worker leaves its loop told to drain, with nobody left.
LEMMA ExitKeepsContract ==
  ASSUME TypeOK, ConnsOK, NEW w \in Pids, NEW p \in Pids, LoadGeneration(w), Outdated(w), Drained(w)
  PROVE  KeepsContract(p)
<1>1. /\ proc[w].st = "deciding" /\ proc[w].conns = 0 /\ UNCHANGED sharedVars
      /\ proc' = [proc EXCEPT ![w] = Gone("zombie")] /\ CloseSockets(w, "reset", "abandoned", "aborted")
  BY DEF LoadGeneration, Drained
<1>2. /\ proc'[w].st = "zombie" /\ proc'[w].conns = 0
      /\ \A q \in Pids \ {w} : proc'[q] = proc[q]
  BY <1>1, GoneEffect
<1>3. /\ \A q \in Pids \ {w} : Mine(q)' = Mine(q)
      /\ Active(w)' = {} /\ Stranded(w)' = {}
  BY <1>1, CloseSocketsEffect DEF Mine, Active, Stranded, ClientStates
<1>4. Active(w) = {}
  BY <1>1, HoldsNothing
<1>5. CASE p # w
  BY <1>1, <1>2, <1>3, <1>5, OthersUnmoved
<1>6. CASE p = w
  <2>1. p \in InState(Running) /\ ~ (p \in InState(Running))'
    BY <1>1, <1>2, <1>6 DEF InState, Running
  <2>2. Told(p)
    BY <1>1, <1>6 DEF Told
  <2>3. \A c \in Clients :
          \/ c \in Stranded(w) /\ client'[c].st = "abandoned"
          \/ c \notin Stranded(w) /\ client[c].st = "queued" /\ client'[c].st = "reset"
          \/ c \notin Stranded(w) /\ client'[c] = client[c]
    BY <1>1, <1>4 DEF CloseSockets, Held, Active, Stranded
  <2>4. Held(p, {"active"}) = {} /\ Held(p, {"active"})' = {} /\ Held(p, {"stranded"})' = {}
    BY <1>3, <1>4, <1>6 DEF Active, Stranded
  <2>5. Conns(p)!Exit
    BY <1>1, <1>2, <1>6, <2>1, <2>2, <2>3, <2>4 DEF Conns!Exit, Stranded, Held
  <2> QED
    BY <2>5 DEF KeepsContract, Conns!Next
<1> QED
  BY <1>5, <1>6

\* The steps of a worker.
LEMMA WorkerKeepsContract ==
  ASSUME TypeOK, ConnsOK, StrandedOK, NEW w \in Pids, NEW p \in Pids, Worker(w)
  PROVE  KeepsContract(p)
<1>r. /\ {"waiting", "accepting", "deciding"} = Running
      /\ "forked" \notin Running /\ "listening" \notin Running /\ "zombie" \notin Running
  BY DEF Running
<1>s. UNCHANGED sharedVars
  BY DEF Worker, Start, ReadGeneration, LoadShutting, LoadGeneration, ListenEvent, ListenEventGeneration
<1>o. ASSUME p # w, client' = client, \A q \in Pids \ {w} : proc'[q] = proc[q]
      PROVE  KeepsContract(p)
  <2>1. Mine(p)' = Mine(p)
    BY <1>o DEF Mine, Active, Stranded, Held
  <2> QED
    BY <1>o, <1>s, <2>1, OthersUnmoved
<1>e. ASSUME NEW s \in Running, proc[w].st \in Running, Enter(w, s), client' = client,
             Told(w) <=> Outdated(w) /\ (shuttingDown = 1 \/ (s = "deciding" /\ Drained(w)))
      PROVE  KeepsContract(p)
  <2>1. CASE p = w
    BY <1>e, <1>s, <2>1, MovesInLoop
  <2>2. CASE p # w
    <3>1. \A q \in Pids \ {w} : proc'[q] = proc[q]
      BY <1>e, EnterEffect DEF ProcStates, Live, Listening
    <3> QED
      BY <1>e, <1>o, <2>2, <3>1
  <2> QED
    BY <2>1, <2>2
<1>1. CASE Start(w)
  <2>1. /\ proc[w].st \notin Running /\ proc'[w].st \notin Running /\ client' = client
        /\ \A q \in Pids \ {w} : proc'[q] = proc[q]
    BY <1>1, <1>r DEF TypeOK, Start, Enter, Gone, Process
  <2>2. proc'[w].conns = proc[w].conns
    <3>1. proc[w].conns = 0
      BY <2>1, HoldsNothing
    <3> QED
      BY <1>1, <3>1 DEF TypeOK, Start, Enter, Gone, Process
  <2>3. Mine(w)' = Mine(w)
    BY <2>1 DEF Mine, Active, Stranded, Held
  <2> QED
    BY <1>o, <2>1, <2>2, <2>3, OutsideLoop
<1>2. CASE ReadGeneration(w)
  <2>1. /\ proc[w].st = "listening" /\ proc'[w].st = "waiting" /\ proc'[w].gen = drainGen
        /\ proc'[w].conns = proc[w].conns /\ client' = client /\ drainGen' = drainGen
        /\ \A q \in Pids \ {w} : proc'[q] = proc[q]
    BY <1>2 DEF TypeOK, ReadGeneration, sharedVars
  <2>2. CASE p = w
    <3>1. proc'[p].conns = 0 /\ Open(p)' = {}
      <4>1. proc[p].conns = 0 /\ Active(p) = {} /\ Stranded(p) = {}
        BY <1>r, <2>1, <2>2, HoldsNothing DEF StrandedOK
      <4> QED
        BY <2>1, <2>2, <4>1, OpenParts DEF Open, Held
    <3>2. ~ Told(p)'
      BY <2>1, <2>2 DEF Told, Outdated, TypeOK
    <3>3. p \notin InState(Running) /\ (p \in InState(Running))'
      BY <1>r, <2>1, <2>2 DEF InState
    <3> QED
      BY <3>1, <3>2, <3>3 DEF KeepsContract, Born
  <2> QED
    BY <1>o, <2>1, <2>2
<1>3. CASE LoadShutting(w)
  <2>1. proc[w].st = "waiting" /\ shuttingDown = 1 /\ Enter(w, "deciding") /\ client' = client
    BY <1>3 DEF LoadShutting
  <2>2. Told(w) <=> Outdated(w)
    BY <2>1 DEF Told
  <2> QED
    BY <1>e, <1>r, <2>1, <2>2
<1>4. CASE LoadGeneration(w)
  <2>1. CASE Outdated(w) /\ Drained(w)
    BY <1>4, <2>1, ExitKeepsContract
  <2>2. CASE ~ (Outdated(w) /\ Drained(w))
    <3>1. proc[w].st = "deciding" /\ Enter(w, "waiting") /\ client' = client
      BY <1>4, <2>2 DEF LoadGeneration
    <3>2. Told(w) <=> Outdated(w) /\ shuttingDown = 1
      BY <2>2 DEF Told
    <3> QED
      BY <1>e, <1>r, <3>1, <3>2
  <2> QED
    BY <2>1, <2>2
<1>5. CASE \E c \in Clients : ListenEvent(w, c)
  <2>1. PICK c \in Clients : ListenEvent(w, c)
    BY <1>5
  <2>2. proc[w].st = "waiting"
    BY <2>1 DEF ListenEvent
  <2>3. CASE shuttingDown = 0
    <3>1. Accept(w, c) /\ ~ Told(w)
      BY <2>1, <2>2, <2>3 DEF ListenEvent, Told
    <3> QED
      BY <1>r, <1>s, <2>2, <2>3, <3>1, AcceptKeepsContract
  <2>4. CASE shuttingDown # 0
    <3>1. Enter(w, "accepting") /\ client' = client
      BY <2>1, <2>4 DEF ListenEvent
    <3>2. Told(w) <=> Outdated(w) /\ shuttingDown = 1
      BY <2>2 DEF Told
    <3> QED
      BY <1>e, <1>r, <2>2, <3>1, <3>2
  <2> QED
    BY <2>3, <2>4
<1>6. CASE \E c \in Clients : ListenEventGeneration(w, c)
  <2>1. PICK c \in Clients : ListenEventGeneration(w, c)
    BY <1>6
  <2>2. proc[w].st = "accepting"
    BY <2>1 DEF ListenEventGeneration
  <2>3. CASE Outdated(w)
    <3>1. Enter(w, "waiting") /\ client' = client
      BY <2>1, <2>3 DEF ListenEventGeneration
    <3>2. Told(w) <=> Outdated(w) /\ shuttingDown = 1
      BY <2>2 DEF Told
    <3> QED
      BY <1>e, <1>r, <2>2, <3>1, <3>2
  <2>4. CASE ~ Outdated(w)
    <3>1. Accept(w, c) /\ ~ Told(w)
      BY <2>1, <2>4 DEF ListenEventGeneration, Told
    <3> QED
      BY <1>r, <1>s, <2>2, <2>4, <3>1, AcceptKeepsContract
  <2> QED
    BY <2>3, <2>4
<1> QED
  BY <1>1, <1>2, <1>3, <1>4, <1>5, <1>6 DEF Worker

\* The steps of the master.
LEMMA MasterKeepsContract ==
  ASSUME TypeOK, ConnsOK, StrandedOK, AccountInv, NewWorkersKeepServing, NEW p \in Pids, Master
  PROVE  KeepsContract(p)
<1>f. ASSUME NEW c \in AnyConfig, NEW reaped \in SUBSET InState({"zombie"}), Fork(c, reaped),
             client' = client, UNCHANGED sharedVars
      PROVE  KeepsContract(p)
  <2>1. \/ proc'[p] = proc[p]
        \/ /\ proc[p].st \in {"free", "zombie"} /\ proc'[p].st \in {"free", "forked"}
           /\ proc'[p].conns = 0
    BY <1>f, ForkEffect
  <2> QED
    BY <1>f, <2>1, ChildrenKeepContract
<1>w. ASSUME NEW q \in InState({"zombie"}), proc' = [proc EXCEPT ![q] = Gone("free")],
             client' = client, UNCHANGED sharedVars
      PROVE  KeepsContract(p)
  <2>1. q \in Pids /\ proc[q].st = "zombie"
    BY DEF InState
  <2>2. /\ proc'[q].st = "free" /\ proc'[q].conns = 0
        /\ \A r \in Pids \ {q} : proc'[r] = proc[r]
    BY <1>w, <2>1, GoneEffect
  <2> QED
    BY <1>w, <2>1, <2>2, ChildrenKeepContract
<1>u. ASSUME UNCHANGED <<proc, client, sharedVars>> PROVE KeepsContract(p)
  BY <1>u, ChildrenKeepContract
<1>1. CASE BootSpawn \/ SpawnNew
  <2>1. \E c \in AnyConfig : Fork(c, {})
    BY <1>1 DEF BootSpawn, SpawnNew, TypeOK, AnyConfig
  <2>2. client' = client /\ UNCHANGED sharedVars
    BY <1>1 DEF BootSpawn, SpawnNew
  <2> QED
    BY <1>f, <2>1, <2>2
<1>2. CASE PollIdle \/ ReloadFails \/ (\E c \in Configs : Reload(c)) \/ DrainTick
  BY <1>2, <1>u DEF PollIdle, ReloadFails, Reload, DrainTick
<1>3. CASE BumpGeneration
  <2>1. proc' = proc /\ client' = client /\ drainGen' = drainGen + 1 /\ shuttingDown' = shuttingDown
    BY <1>3 DEF BumpGeneration
  <2> QED
    BY <2>1, MasterTells
<1>4. CASE RaiseFlag
  <2>1. proc' = proc /\ client' = client /\ drainGen' = drainGen /\ shuttingDown' = 1
    BY <1>4 DEF RaiseFlag
  <2> QED
    BY <2>1, MasterTells
<1>5. CASE LowerFlag
  BY <1>5, LowerFlagTellsNobody
<1>6. CASE DrainSlot
  <2>1. client' = client /\ UNCHANGED sharedVars
    BY <1>6 DEF DrainSlot
  <2>2. CASE old[idx] \in InState({"zombie"})
    BY <1>6, <1>w, <2>1, <2>2 DEF DrainSlot
  <2>3. CASE old[idx] \notin InState({"zombie"})
    BY <1>6, <1>u, <2>1, <2>3 DEF DrainSlot
  <2> QED
    BY <2>2, <2>3
<1>7. CASE KillSlot
  <2>1. mpc = "kill" /\ UNCHANGED sharedVars /\ idx \in Slots
    BY <1>7 DEF KillSlot, TypeOK
  <2>2. CASE Victim \in InState(Live \cup {"zombie"})
    <3>0. PICK v \in Pids : v = Victim
      BY <2>2 DEF InState
    <3>1. /\ CloseSockets(v, "killed", "killed", "killed") /\ v \in Listed(old)
          /\ \E s \in {"free", "zombie"} : proc' = [proc EXCEPT ![v] = Gone(s)]
      BY <1>7, <2>1, <2>2, <3>0 DEF KillSlot, Collected, InState, Victim, Listed
    <3>2. Active(v)' = {} /\ Stranded(v)' = {} /\ \A q \in Pids \ {v} : Mine(q)' = Mine(q)
      BY <3>1, CloseSocketsEffect DEF Mine, Active, Stranded, ClientStates
    <3>3. /\ proc'[v].st \in {"free", "zombie"} /\ proc'[v].conns = 0
          /\ \A q \in Pids \ {v} : proc'[q] = proc[q]
      BY <3>1, GoneEffect
    <3> QED
      BY <2>1, <3>1, <3>2, <3>3, DeathKeepsContract
  <2>3. CASE Victim \notin InState(Live \cup {"zombie"})
    BY <1>7, <1>u, <2>1, <2>3 DEF KillSlot
  <2> QED
    BY <2>2, <2>3
<1>8. CASE ReapSlot
  <2>1. client' = client /\ UNCHANGED sharedVars /\ BootCfg \in AnyConfig
    BY <1>8 DEF ReapSlot, AnyConfig
  <2>2. CASE Died(idx) /\ Fork(BootCfg, {cur[idx]})
    BY <1>f, <2>1, <2>2 DEF Died
  <2>3. CASE Fork(BootCfg, {})
    BY <1>f, <2>1, <2>3
  <2>4. CASE \E q \in InState({"zombie"}) : proc' = [proc EXCEPT ![q] = Gone("free")]
    BY <1>w, <2>1, <2>4
  <2>5. CASE UNCHANGED proc
    BY <1>u, <2>1, <2>5
  <2> QED
    BY <1>8, <2>2, <2>3, <2>4, <2>5 DEF ReapSlot
<1> QED
  BY <1>1, <1>2, <1>3, <1>4, <1>5, <1>6, <1>7, <1>8 DEF Master

\* Signals, crashes and peers.
LEMMA EnvironmentKeepsContract ==
  ASSUME TypeOK, ConnsOK, StrandedOK, NEW p \in Pids, Environment
  PROVE  KeepsContract(p)
<1>1. CASE Sighup
  <2>1. UNCHANGED <<proc, client, sharedVars>>
    BY <1>1 DEF Sighup
  <2> QED
    BY <2>1, ChildrenKeepContract
<1>2. CASE \E w \in Pids : Crash(w)
  <2>1. PICK w \in Pids : Crash(w)
    BY <1>2
  <2>2. /\ proc' = [proc EXCEPT ![w] = Gone("zombie")] /\ CloseSockets(w, "reset", "reset", "reset")
        /\ UNCHANGED sharedVars /\ crashes' > crashes
    BY <2>1, BoundsAssumption DEF Crash, TypeOK
  <2>3. Active(w)' = {} /\ Stranded(w)' = {} /\ \A q \in Pids \ {w} : Mine(q)' = Mine(q)
    BY <2>2, CloseSocketsEffect DEF Mine, Active, Stranded, ClientStates
  <2>4. /\ proc'[w].st = "zombie" /\ proc'[w].conns = 0
        /\ \A q \in Pids \ {w} : proc'[q] = proc[q]
    BY <2>2, GoneEffect
  <2> QED
    BY <2>2, <2>3, <2>4, DeathKeepsContract
<1>3. CASE \E w \in Pids : Connections(w)
  BY <1>3, CloseKeepsContract DEF Connections
<1>4. CASE \E c \in Clients : Connect(c) \/ ConnectRefused(c)
  <2>1. PICK c \in Clients : Connect(c) \/ ConnectRefused(c)
    BY <1>4
  <2>2. /\ UNCHANGED <<proc, sharedVars>> /\ client[c].st = "away" /\ client'[c].st \in {"queued", "reset"}
        /\ \A d \in Clients \ {c} : client'[d] = client[d]
    BY <2>1 DEF Connect, ConnectRefused, TypeOK
  <2>3. Mine(p)' = Mine(p)
    BY <2>2 DEF Mine, Active, Stranded, Held
  <2> QED
    BY <2>2, <2>3, OthersUnmoved
<1> QED
  BY <1>1, <1>2, <1>3, <1>4 DEF Environment

\* What keeps the contract leaves nothing stranded with a process that is out of its loop.
LEMMA StrandedKept ==
  ASSUME StrandedOK, \A p \in Pids : KeepsContract(p)
  PROVE  StrandedOK'
<1> SUFFICES ASSUME NEW p \in Pids, ~ (p \in InState(Running))' PROVE Held(p, {"stranded"})' = {}
  BY DEF StrandedOK, Stranded, InState
<1>1. CASE UNCHANGED ownConns(p)
  <2>1. p \notin InState(Running) /\ Held(p, {"stranded"})' = Held(p, {"stranded"})
    BY <1>1 DEF ownConns
  <2> QED
    BY <2>1 DEF StrandedOK, Stranded, InState
<1>2. CASE Born(p) \/ Dies(p)
  BY <1>2, OpenParts DEF Born, Dies, Stranded
<1>3. CASE Conns(p)!Next
  <2>1. CASE Conns(p)!Exit
    <3>1. \A c \in Clients : c \in Held(p, {"stranded"})' => FALSE
      BY <2>1 DEF Conns!Exit, Held
    <3> QED
      BY <3>1 DEF Held
  <2>2. CASE ~ Conns(p)!Exit
    <3>1. p \notin InState(Running)
      BY <1>3, <2>2 DEF Conns!Next, Conns!BeginDrain, Conns!Accept, Conns!Strand,
                        Conns!Finish, Conns!Drop
    <3>2. PICK c \in Clients, end \in {"answered", "closed"} : Conns(p)!Moves(c, "served", end)
      BY <1>3, <2>2, <3>1 DEF Conns!Next, Conns!BeginDrain, Conns!Accept, Conns!Strand,
                              Conns!Finish, Conns!Drop
    <3>3. \A d \in Clients : d \in Held(p, {"stranded"})' => d \in Held(p, {"stranded"})
      BY <3>2 DEF Conns!Moves, Held
    <3>4. Held(p, {"stranded"}) = {}
      BY <3>1 DEF StrandedOK, Stranded, InState
    <3> QED
      BY <3>3, <3>4 DEF Held
  <2> QED
    BY <2>1, <2>2
<1> QED
  BY <1>1, <1>2, <1>3 DEF KeepsContract

\* Every life of every worker keeps the contract that ProxyWorker implements, whatever the
\* master, the other workers, the faults and the peers do in between; none is told to drain
\* and later not to, accepts after it was told, or leaves by itself with a client to serve.
THEOREM ContractKept == Spec => LivesKeepContract
<1> DEFINE Inv == CountInv /\ AccountInv /\ TableInv /\ ReplaceInv
<1>1. Init => StrandedOK
  BY NoPidAssumption DEF Init, StrandedOK, Stranded, Held
<1>2. Inv /\ StrandedOK /\ [Next]_vars => \A p \in Pids : KeepsContract(p)
  <2> SUFFICES ASSUME CountInv, AccountInv, ReplaceInv, StrandedOK, [Next]_vars, NEW p \in Pids
               PROVE  KeepsContract(p)
    OBVIOUS
  <2>1. TypeOK /\ ConnsOK /\ NewWorkersKeepServing
    BY DEF CountInv, ReplaceInv
  <2>2. CASE UNCHANGED vars
    BY <2>1, <2>2, ChildrenKeepContract DEF vars
  <2> QED
    BY <2>1, <2>2, MasterKeepsContract, WorkerKeepsContract, EnvironmentKeepsContract DEF Next
<1>3. Inv /\ StrandedOK /\ [Next]_vars => StrandedOK'
  BY <1>2, StrandedKept
<1>4. Inv /\ StrandedOK /\ [Next]_vars
        => [\A p \in Pids : UNCHANGED ownConns(p) \/ Born(p) \/ Dies(p) \/ Conns(p)!Next]_vars
  BY <1>2 DEF KeepsContract
<1> QED
  BY <1>1, <1>3, <1>4, AllInvariant, PTL DEF Spec, LivesKeepContract
=============================================================================
