-------------------------- MODULE GracefulRestart --------------------------
(***************************************************************************)
(* The master process of the gateway (src/src/master.c) and the part of    *)
(* each worker process the master steers (start-up, accepting, draining:   *)
(* nexus_worker_run and the listening branch of on_event in worker.c).     *)
(*                                                                         *)
(* The master forks N workers, reaps and respawns the dead ones once per   *)
(* turn of its loop and, on SIGHUP, performs a graceful restart: write the *)
(* new configuration to the inactive shadow slot, bump the drain           *)
(* generation, raise shutting_down, fork N new workers, wait for the old   *)
(* ones, SIGKILL the stragglers, lower shutting_down.  Master and workers  *)
(* share nothing but three atomic integers, which a worker loads one at a  *)
(* time, so every pair of loads is two steps here.                         *)
(*                                                                         *)
(* A worker's connections are abstracted to g_active_conns and to what     *)
(* becomes of each client; module ProxyWorker models them in detail.       *)
(***************************************************************************)
EXTENDS Integers, FiniteSets

CONSTANTS
  N,                \* g_worker_count
  Pids,             \* process ids fork() can return; reused once reaped
  Clients,          \* client connections, each made at most once
  Configs,          \* contents the configuration file can have at a reload
  BadConfigs,       \* configurations nexus_worker_run returns 1 for
  BootCfg,          \* the configuration the master was started with
  NoCfg,            \* no configuration
  NoPid,            \* the 0 of a fresh or collected slot of a pid table
  ForkErr,          \* the -1 of a failed fork(), stored in the pid table
  PoolSize,         \* PROXY_POOL_SIZE
  DrainDeadline,    \* the 30 of drain_deadline = 30
  MaxSighups,       \* bound on SIGHUPs
  MaxCrashes,       \* bound on workers that die by themselves
  MaxForkFailures   \* bound on failing fork() calls

ASSUME NAssumption == N \in Nat \ {0}
ASSUME NoPidAssumption == NoPid \notin Pids /\ ForkErr \notin Pids /\ NoPid # ForkErr
ASSUME ConfigAssumption == NoCfg \notin Configs \cup {BootCfg}
ASSUME BoundsAssumption == /\ PoolSize \in Nat \ {0}
                           /\ DrainDeadline \in Nat \ {0}
                           /\ MaxSighups \in Nat
                           /\ MaxCrashes \in Nat
                           /\ MaxForkFailures \in Nat
\* The kernel never runs out of pids: two tables of workers, and the children an
\* interrupted waitpid leaves behind.
ASSUME PidsAssumption == IsFiniteSet(Pids) /\ Cardinality(Pids) + 1 >= 2 * N + MaxSighups
ASSUME ClientsAssumption == IsFiniteSet(Clients)

VARIABLES
  mpc,          \* where the master is in nexus_master_run
  idx,          \* i of the loop the master is in
  alive,        \* alive > 0 in the draining loop
  deadline,     \* drain_deadline
  sighup,       \* g_sighup
  newCfg,       \* new_cfg
  cur,          \* g_worker_pids
  old,          \* old_pids
  activeSlot,   \* *g_active_slot
  shadow,       \* g_shadow[0..1]: version, and the configuration in data
  shuttingDown, \* *g_shutting_down
  drainGen,     \* *g_drain_generation
  proc,         \* the worker processes
  client,       \* the clients, and the worker that holds each one
  hups,         \* SIGHUPs so far
  crashes,      \* crashes so far
  forkFails     \* failed forks so far

restartVars == <<alive, deadline, newCfg, activeSlot, shadow>>
sharedVars  == <<shuttingDown, drainGen>>
masterVars  == <<mpc, idx, sighup, cur, old>>
boundVars   == <<hups, crashes, forkFails>>
vars == <<restartVars, sharedVars, masterVars, boundVars, proc, client>>

-----------------------------------------------------------------------------
(* Worker processes.                                                       *)

Slots == 0 .. N - 1

\* Of a process, "free": not a child; "forked": before nexus_acceptor_listen; "listening":
\* before line 395; "waiting": in epoll_wait or a handler; "accepting" and
\* "deciding": shutting_down loaded as 1 by on_event or by the loop, the
\* generation not loaded yet; "zombie": exited, not waited for.
Running    == {"waiting", "accepting", "deciding"}
Listening  == {"listening"} \cup Running
Live       == {"forked"} \cup Listening
ProcStates == {"free", "zombie"} \cup Live

Process(s, c) == [st |-> s, gen |-> -1, cfg |-> c, conns |-> 0]
Gone(s) == Process(s, NoCfg)

InState(S) == {p \in Pids : proc[p].st \in S}

\* A client is "away" until it connects, "queued" in an accept queue, "active" in a slot
\* of its worker or "stranded" without one. It ends "closed" by its worker, "killed" with
\* it, "aborted" or "abandoned" when its worker leaves, or "reset" in every other case.
Held(p, S) == {c \in Clients : client[c].at = p /\ client[c].st \in S}

\* p's sockets are closed by the kernel: what the clients in its queue see, those it
\* had no slot for and those it serves.
CloseSockets(p, queued, stranded, active) ==
  client' = [c \in Clients |->
               CASE c \in Held(p, {"queued"})   -> [st |-> queued, at |-> NoPid]
                 [] c \in Held(p, {"stranded"}) -> [st |-> stranded, at |-> NoPid]
                 [] c \in Held(p, {"active"})   -> [st |-> active, at |-> NoPid]
                 [] OTHER -> client[c]]

-----------------------------------------------------------------------------
Init ==
  /\ mpc = "boot" /\ idx = 0 /\ alive = FALSE /\ deadline = 0
  /\ sighup = FALSE /\ newCfg = NoCfg
  /\ cur = [i \in Slots |-> NoPid] /\ old = [i \in Slots |-> NoPid]
  /\ activeSlot = 0
  /\ shadow = [s \in {0, 1} |-> IF s = 0 THEN [version |-> 1, data |-> BootCfg]
                                         ELSE [version |-> 0, data |-> NoCfg]]
  /\ shuttingDown = 0 /\ drainGen = 0
  /\ proc = [p \in Pids |-> Gone("free")]
  /\ client = [c \in Clients |-> [st |-> "away", at |-> NoPid]]
  /\ hups = 0 /\ crashes = 0 /\ forkFails = 0

-----------------------------------------------------------------------------
(* The master.                                                             *)

\* The end of an iteration of a loop over the slots.
NextSlot(after) ==
  IF idx + 1 < N THEN idx' = idx + 1 /\ mpc' = mpc
                 ELSE idx' = 0 /\ mpc' = after

\* fork() for slot idx, after waitpid has reaped the processes in reaped.
Fork(c, reaped) ==
  \/ \E p \in InState({"free"}) \cup reaped :
       /\ cur' = [cur EXCEPT ![idx] = p]
       /\ proc' = [q \in Pids |-> IF q = p THEN Process("forked", c)
                                  ELSE IF q \in reaped THEN Gone("free")
                                  ELSE proc[q]]
       /\ UNCHANGED forkFails
  \/ /\ forkFails < MaxForkFailures
     /\ forkFails' = forkFails + 1
     /\ cur' = [cur EXCEPT ![idx] = ForkErr]
     /\ proc' = [q \in Pids |-> IF q \in reaped THEN Gone("free") ELSE proc[q]]

BootSpawn ==
  /\ mpc = "boot"
  /\ Fork(BootCfg, {})
  /\ NextSlot("poll")
  /\ UNCHANGED <<restartVars, sharedVars, sighup, old, client, hups, crashes>>

\* No signal: on to the reaping loop.
PollIdle ==
  /\ mpc = "poll" /\ ~sighup
  /\ mpc' = "reap"
  /\ UNCHANGED <<restartVars, sharedVars, idx, sighup, cur, old, boundVars, proc, client>>

\* nexus_config_load cannot open the file: continue.
ReloadFails ==
  /\ mpc = "poll" /\ sighup
  /\ sighup' = FALSE
  /\ UNCHANGED <<restartVars, sharedVars, mpc, idx, cur, old, boundVars, proc, client>>

InactiveSlot == 1 - activeSlot

\* nexus_config_load and reload_config. Nothing but the master reads the slots,
\* so their two stores and the switch are one step.
Reload(c) ==
  /\ mpc = "poll" /\ sighup
  /\ sighup' = FALSE
  /\ newCfg' = c
  /\ shadow' = [shadow EXCEPT ![InactiveSlot] =
                  [version |-> shadow[InactiveSlot].version + 1, data |-> c]]
  /\ activeSlot' = InactiveSlot
  /\ mpc' = "bump"
  /\ UNCHANGED <<alive, deadline, sharedVars, idx, cur, old, boundVars, proc, client>>

BumpGeneration ==
  /\ mpc = "bump"
  /\ drainGen' = drainGen + 1
  /\ mpc' = "flag"
  /\ UNCHANGED <<restartVars, shuttingDown, idx, sighup, cur, old, boundVars, proc, client>>

\* Mutant of FreshTable: g_worker_pids is not replaced by a new table.
SameTable == cur

\* The calloc'ed g_worker_pids of a restart.
FreshTable == [i \in Slots |-> NoPid]

RaiseFlag ==
  /\ mpc = "flag"
  /\ shuttingDown' = 1
  /\ old' = cur
  /\ cur' = FreshTable
  /\ mpc' = "spawn"
  /\ UNCHANGED <<restartVars, drainGen, idx, sighup, boundVars, proc, client>>

SpawnNew ==
  /\ mpc = "spawn"
  /\ Fork(newCfg, {})
  /\ NextSlot("drain")
  /\ alive' = FALSE
  /\ deadline' = DrainDeadline
  /\ UNCHANGED <<newCfg, activeSlot, shadow, sharedVars, sighup, old, client, hups, crashes>>

\* One waitpid(.., WNOHANG) of the draining loop. It returns 0 for a live child
\* and -1 for a pid that is no longer a child: both count as alive.
DrainSlot ==
  /\ mpc = "drain"
  /\ IF old[idx] \in InState({"zombie"})
       THEN /\ proc' = [proc EXCEPT ![old[idx]] = Gone("free")]
            /\ old' = [old EXCEPT ![idx] = NoPid]
            /\ UNCHANGED alive
       ELSE /\ alive' = (alive \/ old[idx] \in Pids)
            /\ UNCHANGED <<proc, old>>
  /\ NextSlot("tick")
  /\ UNCHANGED <<deadline, newCfg, activeSlot, shadow, sharedVars, sighup, cur, client, boundVars>>

\* Mutant of TimeLeft: the pass does not count.
TimeFrozen == deadline

TimeLeft == deadline - 1

\* The end of a draining pass: all gone, or one second less to wait.
DrainTick ==
  /\ mpc = "tick"
  /\ deadline' = IF alive THEN TimeLeft ELSE deadline
  /\ mpc' = IF alive /\ deadline' > 0 THEN "drain" ELSE "kill"
  /\ alive' = FALSE
  /\ UNCHANGED <<newCfg, activeSlot, shadow, sharedVars, idx, sighup, cur, old, boundVars, proc, client>>

\* Mutant of Victim: the loop walks the new table.
VictimInNewTable == cur[idx]

Victim == old[idx]

\* Mutant of Collected: the waitpid after the kill does not block.
NotCollected == "zombie"

Collected == "free"

\* kill(SIGKILL) and the blocking waitpid. The SIGHUP handler is installed
\* without SA_RESTART, so a SIGHUP can end the waitpid before the child is reaped.
KillSlot ==
  /\ mpc = "kill"
  /\ IF Victim \in InState(Live \cup {"zombie"})
       THEN /\ CloseSockets(Victim, "killed", "killed", "killed")
            /\ \/ /\ proc' = [proc EXCEPT ![Victim] = Gone(Collected)]
                  /\ UNCHANGED <<sighup, hups>>
               \/ /\ hups < MaxSighups /\ proc[Victim].st \in Live
                  /\ hups' = hups + 1
                  /\ sighup' = TRUE
                  /\ proc' = [proc EXCEPT ![Victim] = Gone("zombie")]
       ELSE UNCHANGED <<proc, client, sighup, hups>>
  /\ NextSlot("clear")
  /\ UNCHANGED <<restartVars, sharedVars, cur, old, crashes, forkFails>>

LowerFlag ==
  /\ mpc = "clear"
  /\ shuttingDown' = 0
  /\ old' = [i \in Slots |-> NoPid]
  /\ newCfg' = NoCfg
  /\ deadline' = 0
  /\ mpc' = "reap"
  /\ UNCHANGED <<alive, activeSlot, shadow, drainGen, idx, sighup, cur, boundVars, proc, client>>

\* Mutant of Died: the reaping loop starts at slot 1.
DiedSkippingFirst(i) == i > 0 /\ cur[i] \in InState({"zombie"})

Died(i) == cur[i] \in InState({"zombie"})

\* One waitpid(.., WNOHANG) of the reaping loop. A slot holding the -1 of a failed
\* fork waits for any child: it takes the status of another slot's worker, and it
\* is respawned only when the master has no child left (-1 returned for -1).
ReapSlot ==
  /\ mpc = "reap"
  /\ \/ /\ Died(idx)
        /\ Fork(BootCfg, {cur[idx]})
     \/ /\ cur[idx] = ForkErr /\ InState({"free"}) = Pids
        /\ Fork(BootCfg, {})
     \/ \E p \in InState({"zombie"}) :
          /\ cur[idx] = ForkErr
          /\ proc' = [proc EXCEPT ![p] = Gone("free")]
          /\ UNCHANGED <<cur, forkFails>>
     \/ /\ ~Died(idx)
        /\ cur[idx] = ForkErr => /\ InState({"free"}) # Pids
                                 /\ InState({"zombie"}) = {}
        /\ UNCHANGED <<cur, forkFails, proc>>
  /\ NextSlot("poll")
  /\ UNCHANGED <<restartVars, sharedVars, sighup, old, client, hups, crashes>>

\* on_sighup
Sighup ==
  /\ hups < MaxSighups
  /\ hups' = hups + 1
  /\ sighup' = TRUE
  /\ UNCHANGED <<restartVars, sharedVars, mpc, idx, cur, old, crashes, forkFails, proc, client>>

-----------------------------------------------------------------------------
(* A worker.                                                               *)

Enter(p, s) == proc' = [proc EXCEPT ![p].st = s]

\* nexus_worker_run up to the listening socket: a missing or malformed listen
\* address, or one that cannot be bound, ends the process.
Start(p) ==
  /\ proc[p].st = "forked"
  /\ IF proc[p].cfg \in BadConfigs THEN proc' = [proc EXCEPT ![p] = Gone("zombie")]
                                   ELSE Enter(p, "listening")
  /\ UNCHANGED <<restartVars, sharedVars, masterVars, boundVars, client>>

\* Mutant of ReadGeneration: g_my_generation stays -1.
ReadNoGeneration(p) ==
  /\ proc[p].st = "listening"
  /\ Enter(p, "waiting")
  /\ UNCHANGED <<restartVars, sharedVars, masterVars, boundVars, client>>

\* g_my_generation = atomic_load(g_drain_generation), after the listen.
ReadGeneration(p) ==
  /\ proc[p].st = "listening"
  /\ proc' = [proc EXCEPT ![p].st = "waiting", ![p].gen = drainGen]
  /\ UNCHANGED <<restartVars, sharedVars, masterVars, boundVars, client>>

\* Every slot of g_proxy_pool is taken.
Full(p) == Cardinality(Held(p, {"active"})) >= PoolSize

\* proxy_alloc finds a slot and g_active_conns++.
Serve(p, c) ==
  /\ ~Full(p)
  /\ client' = [client EXCEPT ![c].st = "active"]
  /\ proc' = [proc EXCEPT ![p].st = "waiting", ![p].conns = @ + 1]

\* It finds none: the connection is neither counted nor watched, and stays open.
Strand(p, c) ==
  /\ Full(p)
  /\ client' = [client EXCEPT ![c].st = "stranded"]
  /\ Enter(p, "waiting")

\* accept4() fails, for want of descriptors or of the connection: nothing happens.
AcceptFails(p) == Enter(p, "waiting") /\ UNCHANGED client

Accept(p, c) ==
  /\ c \in Held(p, {"queued"})
  /\ Serve(p, c) \/ Strand(p, c) \/ AcceptFails(p)

\* Mutant of ListenEvent: a draining worker goes on accepting.
ListenEventAlways(p, c) ==
  /\ proc[p].st = "waiting"
  /\ Accept(p, c)
  /\ UNCHANGED <<restartVars, sharedVars, masterVars, boundVars>>

\* The listening socket is readable and shutting_down is loaded: 0 accepts at
\* once, 1 goes on to load the generation.
ListenEvent(p, c) ==
  /\ proc[p].st = "waiting"
  /\ IF shuttingDown = 0
       THEN Accept(p, c)
       ELSE c \in Held(p, {"queued"}) /\ Enter(p, "accepting") /\ UNCHANGED client
  /\ UNCHANGED <<restartVars, sharedVars, masterVars, boundVars>>

\* Mutant of Outdated: >= for >.
OutdatedOrEqual(p) == drainGen >= proc[p].gen

\* The generation this worker was started in is over.
Outdated(p) == drainGen > proc[p].gen

ListenEventGeneration(p, c) ==
  /\ proc[p].st = "accepting"
  /\ IF Outdated(p) THEN Enter(p, "waiting") /\ UNCHANGED client
                    ELSE Accept(p, c)
  /\ UNCHANGED <<restartVars, sharedVars, masterVars, boundVars>>

\* The bottom of the worker's loop: current_shutting is loaded (0 changes nothing).
LoadShutting(p) ==
  /\ proc[p].st = "waiting" /\ shuttingDown = 1
  /\ Enter(p, "deciding")
  /\ UNCHANGED <<restartVars, sharedVars, masterVars, boundVars, client>>

\* Mutant of Drained: the loop is left without looking at g_active_conns.
DrainedAlways(p) == TRUE

Drained(p) == proc[p].conns = 0

\* current_generation is loaded; should_drain with no connection leaves the loop.
\* Exiting closes the listening socket and resets what is still in its queue.
LoadGeneration(p) ==
  /\ proc[p].st = "deciding"
  /\ IF Outdated(p) /\ Drained(p)
       THEN proc' = [proc EXCEPT ![p] = Gone("zombie")] /\ CloseSockets(p, "reset", "abandoned", "aborted")
       ELSE Enter(p, "waiting") /\ UNCHANGED client
  /\ UNCHANGED <<restartVars, sharedVars, masterVars, boundVars>>

\* A connection reaches close_client_conn: served, refused by a filter, or failed.
CloseConn(p, c) ==
  /\ proc[p].st = "waiting"
  /\ c \in Held(p, {"active"})
  /\ client' = [client EXCEPT ![c] = [st |-> "closed", at |-> NoPid]]
  /\ proc' = [proc EXCEPT ![p].conns = @ - 1]
  /\ UNCHANGED <<restartVars, sharedVars, masterVars, boundVars>>

\* A failed read of the upstream closes the client without g_active_conns--.
DropConn(p, c) ==
  /\ proc[p].st = "waiting"
  /\ c \in Held(p, {"active"})
  /\ client' = [client EXCEPT ![c] = [st |-> "closed", at |-> NoPid]]
  /\ UNCHANGED <<restartVars, sharedVars, masterVars, boundVars, proc>>

\* A worker dies: a fault, an abort, a signal from outside.
Crash(p) ==
  /\ crashes < MaxCrashes
  /\ proc[p].st \in Live
  /\ crashes' = crashes + 1
  /\ proc' = [proc EXCEPT ![p] = Gone("zombie")]
  /\ CloseSockets(p, "reset", "reset", "reset")
  /\ UNCHANGED <<restartVars, sharedVars, masterVars, hups, forkFails>>

-----------------------------------------------------------------------------
(* Clients. SO_REUSEPORT hands a connection to any listening worker, which  *)
(* keeps it in its accept queue.                                            *)

Connect(c) ==
  /\ client[c].st = "away"
  /\ \E p \in InState(Listening) : client' = [client EXCEPT ![c] = [st |-> "queued", at |-> p]]
  /\ UNCHANGED <<restartVars, sharedVars, masterVars, boundVars, proc>>

ConnectRefused(c) ==
  /\ client[c].st = "away"
  /\ InState(Listening) = {}
  /\ client' = [client EXCEPT ![c].st = "reset"]
  /\ UNCHANGED <<restartVars, sharedVars, masterVars, boundVars, proc>>

-----------------------------------------------------------------------------
Master ==
  \/ BootSpawn \/ PollIdle \/ ReloadFails
  \/ \E c \in Configs : Reload(c)
  \/ BumpGeneration \/ RaiseFlag \/ SpawnNew
  \/ DrainSlot \/ DrainTick \/ KillSlot \/ LowerFlag \/ ReapSlot

Worker(p) ==
  \/ Start(p) \/ ReadGeneration(p) \/ LoadShutting(p) \/ LoadGeneration(p)
  \/ \E c \in Clients : ListenEvent(p, c) \/ ListenEventGeneration(p, c)

\* What the peers of a worker, and its faults, make it do.
Connections(p) == \E c \in Clients : CloseConn(p, c) \/ DropConn(p, c)

Environment ==
  \/ Sighup
  \/ \E p \in Pids : Crash(p) \/ Connections(p)
  \/ \E c \in Clients : Connect(c) \/ ConnectRefused(c)

Next == Master \/ (\E p \in Pids : Worker(p)) \/ Environment

Spec == Init /\ [][Next]_vars

\* The connections p has descriptors for.
Open(p) == Held(p, {"active", "stranded"})

\* What a worker does whenever it is scheduled: all it can, but that accept4() may go on
\* failing (EMFILE) for as long as connections it has accepted before are open.
Scheduled(p) ==
  /\ Worker(p)
  /\ Open(p) # {} => UNCHANGED client \/ proc'[p].st = "zombie"

\* The kernel schedules the master and every worker; nothing else is promised.
Fairness == WF_vars(Master) /\ \A p \in Pids : WF_vars(Scheduled(p))
FairSpec == Spec /\ Fairness

-----------------------------------------------------------------------------
(* What must hold.                                                          *)

Restarting == mpc \in {"spawn", "drain", "tick", "kill"}

Listed(table) == {table[i] : i \in Slots}

MasterStates == {"boot", "poll", "bump", "flag", "clear", "reap"}
                  \cup {"spawn", "drain", "tick", "kill"}
ClientStates == {"away", "queued", "stranded", "active", "closed",
                 "reset", "abandoned", "aborted", "killed"}
AnyConfig == Configs \cup {BootCfg, NoCfg}

\* Every variable keeps the type its comment gives it.
TypeOK ==
  /\ mpc \in MasterStates
  /\ idx \in Slots
  /\ alive \in BOOLEAN
  /\ deadline \in 0 .. DrainDeadline
  /\ sighup \in BOOLEAN
  /\ newCfg \in AnyConfig
  /\ cur \in [Slots -> Pids \cup {NoPid, ForkErr}]
  /\ old \in [Slots -> Pids \cup {NoPid, ForkErr}]
  /\ activeSlot \in {0, 1}
  /\ shadow \in [{0, 1} -> [version : Nat, data : AnyConfig]]
  /\ shuttingDown \in {0, 1}
  /\ drainGen \in Nat
  /\ proc \in [Pids -> [st : ProcStates, gen : Nat \cup {-1}, cfg : AnyConfig, conns : Nat]]
  /\ client \in [Clients -> [st : ClientStates, at : Pids \cup {NoPid}]]
  /\ hups \in 0 .. MaxSighups
  /\ crashes \in 0 .. MaxCrashes
  /\ forkFails \in 0 .. MaxForkFailures

\* A worker of the current table never takes the shutdown of an earlier restart
\* for its own: outside the window between the two stores of the master (the
\* generation is bumped, the flag not raised), a current worker that has read its
\* generation has read the latest one. Master lines 199-204, worker lines 408, 418.
NewWorkersKeepServing ==
  mpc # "flag" => \A i \in Slots : cur[i] \in InState(Running) => ~Outdated(cur[i])

\* g_active_conns never falls below the connections in the slots of the pool, so leaving
\* the loop at 0 (worker.c 418) aborts no connection in progress. Those accepted when the
\* pool was full have no slot and no count (worker.c 317): they are not served, and they
\* are abandoned when their worker leaves.
NoClientAborted == \A c \in Clients : client[c].st # "aborted"

\* No worker is lost by the master: every live one is in g_worker_pids or, during a
\* restart, in old_pids; once the kill loop is over, in g_worker_pids. Whatever
\* forks fail, workers crash and SIGHUPs arrive.
WorkersAccounted ==
  \A p \in InState(Live) : p \in Listed(cur) \/ (Restarting /\ p \in Listed(old))

\* While no fork has failed, a pid is in one slot of one table, although the kernel
\* reuses pids: no waitpid or kill of the master can reach a worker of another slot.
OneSlotPerWorker ==
  forkFails = 0 =>
    /\ \A i, j \in Slots : cur[i] = cur[j] /\ cur[i] \in Pids => i = j
    /\ \A i, j \in Slots : old[i] = old[j] /\ old[i] \in Pids => i = j
    /\ \A i, j \in Slots : cur[i] = old[j] => cur[i] \notin Pids

\* SIGKILL reaches only workers of the old table, and only after the deadline has
\* run out: a client dies with its worker only if it outlived the whole drain.
KillOnlyStragglers ==
  [][forkFails = 0 =>
       \A c \in Clients :
         client'[c].st = "killed" /\ client[c].st # "killed" =>
           deadline = 0 /\ client[c].at \in Listed(old) \ Listed(cur)]_vars

\* Without faults a restart to a usable configuration ends with N live workers, all
\* of them started from the configuration in the active slot.
RestartReplacesWorkers ==
  mpc = "clear" /\ crashes = 0 /\ forkFails = 0 /\ newCfg \notin BadConfigs =>
    \A i \in Slots : /\ cur[i] \in InState(Live)
                     /\ proc[cur[i]].cfg = shadow[activeSlot].data

\* What the workers in g_worker_pids were started from.
ConfigInUse == IF mpc = "bump" THEN shadow[InactiveSlot].data ELSE shadow[activeSlot].data

\* While nothing has failed, every slot of g_worker_pids has a live worker at all times
\* but between the bump of the generation and the last fork of the new workers: that
\* window (master.c 200-213) and the start of the new workers are the only times at
\* which nobody may be listening. The workers of two generations never leave together,
\* whatever they have loaded of the restart before.
TableStaysFull ==
  /\ crashes = 0 /\ forkFails = 0 /\ ConfigInUse \notin BadConfigs
  /\ mpc \notin {"boot", "flag", "spawn"}
  => \A i \in Slots : cur[i] \in InState(Live)

\* A child is left unreaped and unlisted only where a SIGHUP, other than the one that
\* began the restart, cut the waitpid after a SIGKILL short.
UnreapedChildrenBounded ==
  LET unlisted == InState({"zombie"}) \ (Listed(cur) \cup Listed(old))
  IN  unlisted = {} \/ Cardinality(unlisted) < hups

\* To a worker of the loop its generation is over once it finds the flag raised, or when it has
\* found an earlier one raised, comes to load the generation now, and has no connection left.
Told(p) == Outdated(p) /\ (shuttingDown = 1 \/ (proc[p].st = "deciding" /\ Drained(p)))

\* What pid p is to the contract of a worker's connections, from the entry of its loop on.
Conns(p) == INSTANCE WorkerConns WITH
  conn     <- [c \in Clients |-> CASE c \in Held(p, {"active"}) -> "served"
                                   [] c \in Held(p, {"stranded"}) -> "stranded"
                                   [] client[c].st \in {"closed", "abandoned"} -> "closed"
                                   [] OTHER -> "waiting"],
  count    <- proc[p].conns,
  draining <- (p \in InState(Running) => Told(p)),
  exited   <- p \notin InState(Running)

ownConns(p) ==
  <<Held(p, {"active"}), Held(p, {"stranded"}), proc[p].conns,
    p \in InState(Running) => Told(p), p \in InState(Running)>>

\* A worker enters its loop with nothing of an earlier life of its pid.
Born(p) ==
  /\ p \notin InState(Running) /\ p \in InState(Running)'
  /\ Open(p)' = {} /\ proc'[p].conns = 0 /\ ~Told(p)'

\* It crashes, or it is killed as one of the old table, and its connections end with it.
Dies(p) ==
  /\ p \in InState(Running) /\ p \notin InState(Running)' /\ Open(p)' = {}
  /\ crashes' > crashes \/ (mpc = "kill" /\ p \in Listed(old))

\* Every life of every worker is a behaviour of WorkerConns, until a crash or the kill of the
\* deadline ends it: told to drain it accepts nobody any more (worker.c 306-311) and is never
\* told otherwise, though the master lowers the flag again; and the only way it leaves by
\* itself is told, with the count at 0 and serving nobody (worker.c 416-420).
LivesKeepContract ==
  [][\A p \in Pids : UNCHANGED ownConns(p) \/ Born(p) \/ Dies(p) \/ Conns(p)!Next]_vars

\* A restart comes to an end, whatever the old workers do: whenever the flag is up, it
\* is lowered again.
RestartCompletes == []<>(shuttingDown = 0)

\* A client in the accept queue of a worker, a draining one included, does not stay
\* there for ever: it is accepted, or its worker goes and it learns of it. Except that a
\* worker of the current table may keep other connections open for ever, having no
\* timeout, and that accept4() may fail for ever while it does (worker.c 315-316).
QueuedClientsSettle ==
  []<>(\A c \in Clients :
         client[c].st = "queued" => client[c].at \in Listed(cur) /\ Open(client[c].at) # {})

\* Once crashes, failed forks and SIGHUPs have ceased, every slot ends up with a worker
\* that has a listening socket and stays up. If a fork has failed only one is sure to: the
\* slot with the -1 waits for the children of the other slots (master.c 247-258).
SlotsServe ==
  <>[](IF forkFails = 0 THEN \A i \in Slots : cur[i] \in InState(Running)
                        ELSE \E i \in Slots : cur[i] \in InState(Running))

-----------------------------------------------------------------------------
(* What the documents say and the code does not do.                         *)

\* README line 61: the old workers find gen > my_gen and enter drain mode.
OldWorkersToldToDrain ==
  shuttingDown = 1 => \A i \in Slots : old[i] \in InState(Running) => Outdated(old[i])
=============================================================================
