---------------------------- MODULE ProcessFds ----------------------------
(***************************************************************************)
(* The two threads of a worker on one table of descriptors: the event      *)
(* loop, which closes the socket of an upstream and then, in               *)
(* close_client_conn, the same number again (src/src/worker.c 93-109 and   *)
(* 282-301), and the health thread, which opens and closes a socket for    *)
(* every probe (src/src/health.c 21-46).                                   *)
(*                                                                         *)
(* Every system call is a step.  The kernel gives out the lowest free      *)
(* number.  What the loop does on an event is in ProxyWorker; here it is   *)
(* any of the ways a connection begins and ends.  The socket() and         *)
(* connect() of nexus_proxy_connect_upstream are one step.                 *)
(***************************************************************************)
EXTENDS Integers, Sequences, FiniteSets, SequencesExt

CONSTANTS
  Fds,         \* descriptor numbers left for sockets
  PoolSize,    \* PROXY_POOL_SIZE
  Threshold,   \* fail_threshold
  MaxConns,    \* bound on the clients accepted
  MaxRefusals  \* bound on the probes the upstream refuses or lets time out

Slots == 1 .. PoolSize

ASSUME FdsAssumption   == Fds \subseteq Nat \ {0} /\ IsFiniteSet(Fds)
ASSUME SizesAssumption == PoolSize \in Nat /\ Threshold \in Nat \ {0}
ASSUME BoundsAssumption == MaxConns \in Nat /\ MaxRefusals \in Nat

VARIABLES
  file,     \* what each number refers to
  slot,     \* fd and upstream_fd of each proxy_conn_t, 0 for none
  todo,     \* the numbers the loop is about to close
  hpc,      \* where the health thread is
  hfd,      \* its fd
  hok,      \* its ok
  fails,    \* fail_count, which saturates at Threshold
  healthy,  \* nodes[0].healthy
  raced,    \* history: the thread got a number that the loop was going to close again
  why,      \* history: why the latest probes failed
  lost,     \* history: the sockets that the full pool lost
  conns,    \* clients accepted so far
  refusals  \* probes refused so far

loopVars   == <<slot, todo, lost, conns>>
threadVars == <<hpc, hfd, hok, fails, healthy, raced, why, refusals>>
vars == <<file, loopVars, threadVars>>

-----------------------------------------------------------------------------
Unused        == <<"unused", 0>>
Probe         == <<"probe", 0>>
Dropped       == <<"dropped", 0>>
Client(s)     == <<"client", s>>
UpstreamOf(s) == <<"upstream", s>>

NoSlot   == [c |-> 0, u |-> 0]
NoFails  == [refused |-> 0, full |-> 0]

Init ==
  /\ file = [f \in Fds |-> Unused]
  /\ slot = [s \in Slots |-> NoSlot]
  /\ todo = <<>> /\ lost = 0 /\ conns = 0
  /\ hpc = "sleep" /\ hfd = 0 /\ hok = FALSE
  /\ fails = 0 /\ healthy = TRUE
  /\ raced = FALSE /\ why = NoFails /\ refusals = 0

Free == {f \in Fds : file[f] = Unused}

\* The number accept4() and socket() return; there is none if the table is full.
Next1(f) == f \in Free /\ \A g \in Free : f <= g

Idle == todo = <<>>

-----------------------------------------------------------------------------
(* The event loop.                                                          *)

\* proxy_alloc finds a slot, or the socket stays open with nobody to close it.
AcceptConn ==
  /\ Idle /\ conns < MaxConns
  /\ conns' = conns + 1
  /\ \E f \in Fds : Next1(f) /\
       \/ \E s \in Slots :
            /\ slot[s].c = 0 /\ \A r \in 1 .. s - 1 : slot[r].c # 0
            /\ slot' = [slot EXCEPT ![s].c = f]
            /\ file' = [file EXCEPT ![f] = Client(s)]
            /\ UNCHANGED lost
       \/ /\ \A s \in Slots : slot[s].c # 0
          /\ file' = [file EXCEPT ![f] = Dropped]
          /\ lost' = lost + 1
          /\ UNCHANGED slot
  /\ UNCHANGED <<todo, threadVars>>

\* The slot is given up and its numbers are to be closed, in that order. proxy_free comes
\* last in the code, but only the loop reads the slot.
Closing(s, fds) ==
  /\ slot' = [slot EXCEPT ![s] = NoSlot]
  /\ todo' = fds
  /\ UNCHANGED <<file, lost, conns, threadVars>>

\* nexus_proxy_connect_upstream; without a descriptor the client is closed.
ConnectUpstream(s) ==
  /\ Idle /\ slot[s].c # 0 /\ slot[s].u = 0
  /\ \/ \E f \in Fds :
          /\ Next1(f)
          /\ slot' = [slot EXCEPT ![s].u = f]
          /\ file' = [file EXCEPT ![f] = UpstreamOf(s)]
          /\ UNCHANGED <<todo, lost, conns, threadVars>>
     \/ Free = {} /\ Closing(s, <<slot[s].c>>)

\* The client has left or is answered without the upstream: close_client_conn.
EndClient(s) ==
  /\ Idle /\ slot[s].c # 0 /\ slot[s].u = 0
  /\ Closing(s, <<slot[s].c>>)

\* The response is there, or the upstream has refused or closed: close(ufd), and
\* close_client_conn closes both.
EndUpstream(s) ==
  /\ Idle /\ slot[s].u # 0
  /\ Closing(s, <<slot[s].u, slot[s].c, slot[s].u>>)

\* Mutant of EndError: the client's socket is forgotten.
EndErrorForgets(s) ==
  /\ Idle /\ slot[s].u # 0
  /\ Closing(s, <<slot[s].u>>)

\* Mutant of EndError: proxy_free is forgotten.
EndErrorKeeps(s) ==
  /\ Idle /\ slot[s].u # 0
  /\ todo' = <<slot[s].u, slot[s].c>>
  /\ UNCHANGED <<slot, file, lost, conns, threadVars>>

\* Reading the response has failed: both are closed once.
EndError(s) ==
  /\ Idle /\ slot[s].u # 0
  /\ Closing(s, <<slot[s].u, slot[s].c>>)

\* close(): whatever the number refers to by now.
CloseNext ==
  /\ todo # <<>>
  /\ file' = [file EXCEPT ![Head(todo)] = Unused]
  /\ todo' = Tail(todo)
  /\ UNCHANGED <<slot, lost, conns, threadVars>>

Loop ==
  \/ AcceptConn \/ CloseNext
  \/ \E s \in Slots : ConnectUpstream(s) \/ EndClient(s) \/ EndUpstream(s) \/ EndError(s)

-----------------------------------------------------------------------------
(* The health thread.                                                       *)

\* Mutant of Stored: one failure is enough.
StoredAtOnce(ok) ==
  IF ok THEN fails' = 0 /\ healthy' = TRUE
  ELSE fails' = (IF fails < Threshold THEN fails + 1 ELSE fails) /\ healthy' = FALSE

\* Mutant of Stored: a node that is down stays down.
StoredDown(ok) ==
  IF ok THEN fails' = 0 /\ UNCHANGED healthy
  ELSE /\ fails' = IF fails < Threshold THEN fails + 1 ELSE fails
       /\ healthy' = (healthy /\ fails' < Threshold)

\* What run stores after a probe.
Stored(ok) ==
  IF ok THEN fails' = 0 /\ healthy' = TRUE
  ELSE /\ fails' = IF fails < Threshold THEN fails + 1 ELSE fails
       /\ healthy' = (healthy /\ fails' < Threshold)

\* socket() of tcp_probe; a full table is a failed probe.
ProbeSocket ==
  /\ hpc = "sleep"
  /\ \/ \E f \in Fds :
          /\ Next1(f)
          /\ file' = [file EXCEPT ![f] = Probe]
          /\ hfd' = f /\ hpc' = "connect"
          /\ raced' = (raced \/ f \in Range(todo))
          /\ UNCHANGED <<fails, healthy, why>>
     \/ /\ Free = {}
        /\ Stored(FALSE)
        /\ why' = [why EXCEPT !.full = IF @ < Threshold THEN @ + 1 ELSE @]
        /\ UNCHANGED <<file, hfd, hpc, raced>>
  /\ UNCHANGED <<loopVars, hok, refusals>>

\* connect(): on a number that is no longer the probe's it fails, unless it has become an
\* upstream's socket, which may be the one whose connection it reports.
ProbeConnect ==
  /\ hpc = "connect"
  /\ \/ file[hfd] = Probe /\ hok' = TRUE /\ UNCHANGED <<why, refusals>>
     \/ /\ file[hfd] = Probe /\ refusals < MaxRefusals
        /\ hok' = FALSE /\ refusals' = refusals + 1
        /\ why' = [why EXCEPT !.refused = IF @ < Threshold THEN @ + 1 ELSE @]
     \/ /\ file[hfd] # Probe
        /\ hok' \in {FALSE, file[hfd] \in {UpstreamOf(s) : s \in Slots}}
        /\ UNCHANGED <<why, refusals>>
  /\ hpc' = "close"
  /\ UNCHANGED <<file, loopVars, hfd, fails, healthy, raced>>

\* close(), also on a number that has come to be the loop's, and the store.
ProbeClose ==
  /\ hpc = "close"
  /\ file' = [file EXCEPT ![hfd] = Unused]
  /\ Stored(hok)
  /\ why' = IF hok THEN NoFails ELSE why
  /\ hpc' = "sleep" /\ hfd' = 0 /\ hok' = FALSE
  /\ UNCHANGED <<loopVars, raced, refusals>>

Thread == ProbeSocket \/ ProbeConnect \/ ProbeClose

Next == Loop \/ Thread

Spec == Init /\ [][Next]_vars

\* The kernel runs the thread, and the loop gets on with its closes.
FairSpec == Spec /\ WF_vars(Thread) /\ WF_vars(CloseNext)

-----------------------------------------------------------------------------
(* What must hold.                                                          *)

Files == {Unused, Probe, Dropped} \cup {Client(s) : s \in Slots} \cup {UpstreamOf(s) : s \in Slots}

\* The numbers in the slots, of the probe and of the closes are numbers of the table.
TypeOK ==
  /\ file \in [Fds -> Files]
  /\ slot \in [Slots -> [c : Fds \cup {0}, u : Fds \cup {0}]]
  /\ todo \in Seq(Fds) /\ Len(todo) <= 3
  /\ hpc \in {"sleep", "connect", "close"}
  /\ hfd \in Fds \cup {0} /\ hok \in BOOLEAN
  /\ fails \in 0 .. Threshold /\ healthy \in BOOLEAN /\ raced \in BOOLEAN
  /\ why \in [refused : 0 .. Threshold, full : 0 .. Threshold]
  /\ lost \in 0 .. MaxConns /\ conns \in 0 .. MaxConns /\ refusals \in 0 .. MaxRefusals

\* The second close of an upstream's socket hits nothing, and neither thread ever holds a
\* number of the other's, unless the thread's socket() fell between the two closes. This
\* is what ProxyWorker relies on, which has no thread.
Separate ==
  ~raced =>
    /\ \A s \in Slots : slot[s].c # 0 => file[slot[s].c] = Client(s)
    /\ \A s \in Slots : slot[s].u # 0 => file[slot[s].u] = UpstreamOf(s)
    /\ hpc # "sleep" => file[hfd] = Probe
    /\ \A f \in Range(todo) : file[f] # Probe

\* What the loop and the thread still know of.
Held == {slot[s].c : s \in Slots} \cup {slot[s].u : s \in Slots} \cup Range(todo)
          \cup (IF hpc = "sleep" THEN {} ELSE {hfd})

\* A descriptor that nobody will close any more is one of a client that met a full pool.
LeaksOnlyFromFullPool ==
  ~raced => Cardinality({f \in Fds : file[f] # Unused} \ Held) = lost

\* A node is down only after Threshold probes in a row that the upstream refused or for
\* which the table was full, unless the threads have raced: then a probe may also have
\* failed because the loop closed its socket.
DownHasCause == ~healthy /\ ~raced => why.refused + why.full >= Threshold

\* Whatever has happened to its probes, the races included, a node whose upstream answers
\* from some time on is up again if the loop leaves a descriptor to the probes.
ComesBack == <>[](\E f \in Fds : file[f] \in {Unused, Probe}) => <>[]healthy
=============================================================================
