---------------------------- MODULE ProxyWorker ----------------------------
(***************************************************************************)
(* The connections of one worker process: the event loop, accept, the      *)
(* handlers of client and upstream sockets and the pool of connections     *)
(* (src/src/worker.c, epoll_loop.c, acceptor.c, proxy.c).                  *)
(*                                                                         *)
(* A turn of the loop asks epoll for the ready descriptors and handles the *)
(* events one by one; a handler runs to its end, the kernel and the peers  *)
(* move between two handlers.  Events are known by descriptor number only: *)
(* an event that is still to be handled when its descriptor is closed      *)
(* stays in the batch, and accept() or socket() may hand the number out    *)
(* again, since they return the lowest free one.                           *)
(*                                                                         *)
(* Requests and responses are abstracted to what the handlers tell apart:  *)
(* nothing, part of a request or a whole one to read; the pieces of a      *)
(* response, and whose response it is.  The filters, the load balancer and *)
(* static files are choices of handle_client_read here.                    *)
(***************************************************************************)
EXTENDS Integers, FiniteSets

CONSTANTS
  Clients,    \* clients, each of which connects at most once
  NoClient,   \* the owner of a closed descriptor
  Fds,        \* descriptor numbers free for accept() and socket()
  ListenFd,   \* g_listen_fd
  PoolSize,   \* PROXY_POOL_SIZE
  Pieces,     \* pieces a whole response arrives in, each at most one read()
  MaxResets   \* bound on upstream connections reset between two handlers

ASSUME ClientsAssumption == IsFiniteSet(Clients) /\ NoClient \notin Clients
ASSUME FdsAssumption == /\ Fds \subseteq Nat \ {0} /\ IsFiniteSet(Fds)
                        /\ ListenFd \in Nat \ Fds
ASSUME SizesAssumption == /\ PoolSize \in Nat \ {0}
                          /\ Pieces \in Nat \ {0}
                          /\ MaxResets \in Nat

VARIABLES
  pool,     \* g_proxy_pool
  active,   \* g_active_conns
  batch,    \* g_events: the flags still to be handled, per descriptor
  files,    \* the kernel's descriptors: whose socket, epoll flags asked for
  draining, \* should_drain: this worker's generation is over
  exited,   \* the loop has been left
  client,   \* the clients' ends
  up,       \* the upstream's ends, one per client that gets that far
  resets    \* RSTs so far

workerVars == <<pool, active, batch, files, exited>>
peerVars   == <<client, up, resets>>
vars       == <<workerVars, draining, peerVars>>

-----------------------------------------------------------------------------
Slots == 0 .. PoolSize - 1
Flags == {"IN", "OUT"}

File(k, c, ev) == [kind |-> k, of |-> c, ev |-> ev]
NoFile == File("free", NoClient, {})

FreeFds       == {f \in Fds : files[f] = NoFile}
Sockets(k, c) == {f \in Fds : files[f].kind = k /\ files[f].of = c}
Busy          == {s \in Slots : pool[s].fd # 0}

\* The worker has closed the connection it had accepted from c.
Closed(c) == client[c].st = "accepted" /\ Sockets("client", c) = {}

Init ==
  /\ pool = [s \in Slots |-> [fd |-> 0, ufd |-> 0, st |-> "IDLE"]]
  /\ active = 0
  /\ batch = [f \in Fds \cup {ListenFd} |-> {}]
  /\ files = [f \in Fds |-> NoFile]
  /\ draining = FALSE
  /\ exited = FALSE
  /\ client = [c \in Clients |-> [st |-> "away", rx |-> "none", fin |-> FALSE,
                                  reply |-> NoClient, got |-> 0]]
  /\ up = [c \in Clients |-> [st |-> "none", sent |-> 0, end |-> "open"]]
  /\ resets = 0

-----------------------------------------------------------------------------
(* Descriptors and slots.                                                  *)

\* accept() and socket() return the lowest free number.
LowestFree(f) == f \in FreeFds /\ \A g \in FreeFds : f <= g

\* proxy_alloc takes the first free slot.
ProxyAlloc(s) == s \in Slots \ Busy /\ \A r \in Slots \ Busy : s <= r

\* proxy_get finds the first slot with that descriptor on either side.
Matching(f) == {s \in Slots : pool[s].fd = f \/ pool[s].ufd = f}
ProxyGet(f, s) == s \in Matching(f) /\ \A r \in Matching(f) : s <= r

\* A slot's sockets, and the clients they serve.
Held(s)    == {pool[s].fd, pool[s].ufd}
Peer(s)    == files[pool[s].fd].of
Request(s) == files[pool[s].ufd].of

\* Mutant of ProxyFree: upstream_fd is left behind.
ProxyFreeKeepsUpstream(s) == pool' = [pool EXCEPT ![s].fd = 0]

\* proxy_free. The state of a free slot stays as it was.
ProxyFree(s) == pool' = [pool EXCEPT ![s].fd = 0, ![s].ufd = -1]

\* close() of the sockets of a slot; epoll forgets them with it.
CloseBoth(s) ==
  files' = [f \in Fds |-> IF f \in Held(s) THEN NoFile ELSE files[f]]

\* Mutant of CloseClientConn: no g_active_conns--.
CloseClientConnUncounted(s) == CloseBoth(s) /\ ProxyFree(s) /\ UNCHANGED active

\* close_client_conn. The callers that close the upstream socket first make this a
\* second close() of the same number, which fails: no other handler ran since.
CloseClientConn(s) ==
  /\ active' = IF pool[s].fd > 0 THEN active - 1 ELSE active
  /\ CloseBoth(s)
  /\ ProxyFree(s)

-----------------------------------------------------------------------------
(* The handlers. Each is preceded by the event's removal from the batch.   *)

\* The worker accepts from its queue. With the pool full the descriptor is neither
\* closed nor watched; with no descriptor left accept() fails.
Accept ==
  IF \E c \in Clients : client[c].st = "backlog" /\ FreeFds # {}
    THEN \E c \in Clients, f \in FreeFds :
           /\ client[c].st = "backlog"
           /\ LowestFree(f)
           /\ client' = [client EXCEPT ![c].st = "accepted"]
           /\ \/ \E s \in Slots :
                   /\ ProxyAlloc(s)
                   /\ pool' = [pool EXCEPT ![s] = [fd |-> f, ufd |-> -1, st |-> "READING_REQ"]]
                   /\ active' = active + 1
                   /\ files' = [files EXCEPT ![f] = File("client", c, {"IN"})]
              \/ /\ Busy = Slots
                 /\ files' = [files EXCEPT ![f] = File("client", c, {})]
                 /\ UNCHANGED <<pool, active>>
    ELSE UNCHANGED <<pool, active, files, client>>

\* Mutant of ListenEvent: a draining worker goes on accepting.
ListenEventDraining ==
  /\ batch[ListenFd] # {}
  /\ batch' = [batch EXCEPT ![ListenFd] = {}]
  /\ Accept
  /\ UNCHANGED <<exited, draining, up, resets>>

\* The listening branch of on_event.
ListenEvent ==
  /\ batch[ListenFd] # {}
  /\ batch' = [batch EXCEPT ![ListenFd] = {}]
  /\ IF draining THEN UNCHANGED <<pool, active, files, client>> ELSE Accept
  /\ UNCHANGED <<exited, draining, up, resets>>

\* read() has nothing (EAGAIN), the end of the stream, an error, or bytes the parser
\* cannot finish a request with: the connection is closed.
NoRequest(s) ==
  /\ client[Peer(s)].rx # "whole"
  /\ client' = [client EXCEPT ![Peer(s)].rx = "none"]
  /\ CloseClientConn(s)
  /\ UNCHANGED up

\* Answered by the worker itself: 403, 429, a static file or its 404.
AnswerLocally(s) ==
  /\ client' = [client EXCEPT ![Peer(s)].rx = "none", ![Peer(s)].reply = Peer(s),
                              ![Peer(s)].got = Pieces]
  /\ CloseClientConn(s)
  /\ UNCHANGED up

\* No healthy node, no room to serialize the request, or no socket or route to
\* connect: the connection is closed.
NoUpstream(s) ==
  /\ client' = [client EXCEPT ![Peer(s)].rx = "none"]
  /\ up' = [up EXCEPT ![Peer(s)].st = "unavailable"]
  /\ CloseClientConn(s)

\* nexus_proxy_connect_upstream in progress, both sockets watched.
ConnectUpstream(s) ==
  \E u \in FreeFds :
    /\ LowestFree(u)
    /\ client' = [client EXCEPT ![Peer(s)].rx = "none"]
    /\ up' = [up EXCEPT ![Peer(s)].st = "connecting"]
    /\ pool' = [pool EXCEPT ![s].ufd = u, ![s].st = "CONNECTING_UPSTREAM"]
    /\ files' = [files EXCEPT ![u] = File("upstream", Peer(s), {"OUT", "IN"})]
    /\ UNCHANGED active

HandleClientRead(s) ==
  \/ NoRequest(s)
  \/ /\ client[Peer(s)].rx = "whole"
     /\ AnswerLocally(s) \/ NoUpstream(s) \/ ConnectUpstream(s)

\* Mutant of RequestWritten: epoll goes on watching for EPOLLOUT only.
RequestWrittenOut(s) ==
  /\ up' = [up EXCEPT ![Request(s)].st = "serving"]
  /\ pool' = [pool EXCEPT ![s].st = "READING_UPSTREAM"]
  /\ files' = [files EXCEPT ![pool[s].ufd].ev = {"OUT"}]

\* write() of the request and EPOLLIN from now on.
RequestWritten(s) ==
  /\ up' = [up EXCEPT ![Request(s)].st = "serving"]
  /\ pool' = [pool EXCEPT ![s].st = "READING_UPSTREAM"]
  /\ files' = [files EXCEPT ![pool[s].ufd].ev = {"IN"}]

ConnectFailed(u) == up[u].st = "refused" \/ up[u].end = "rst"

\* The connect is refused, or the connection reset, after getsockopt() has found no
\* error: write() fails with it and nothing is done. SO_ERROR is clear from then on and
\* every later write() fails.
ErrorSwallowed(s) ==
  /\ up[Request(s)].st \in {"connecting", "connected"}
  /\ up' = [up EXCEPT ![Request(s)].st = "lost"]
  /\ UNCHANGED <<pool, active, files>>

\* write() fails, with EAGAIN while the connect is in progress.
NothingWritten(s) ==
  /\ up[Request(s)].st \in {"connecting", "lost"}
  /\ UNCHANGED <<pool, active, files, up>>

\* Mutant of HandleUpstreamWritable: a failed connect closes the upstream socket and
\* leaves the client's connection as it is.
HandleUpstreamWritableKeepsClient(s) ==
  /\ IF Request(s) = NoClient
       THEN UNCHANGED <<pool, active, files, up>>
       ELSE \/ /\ ConnectFailed(Request(s))
               /\ files' = [files EXCEPT ![pool[s].ufd] = NoFile]
               /\ UNCHANGED <<pool, active, up>>
            \/ /\ ~ConnectFailed(Request(s)) /\ up[Request(s)].st = "connected"
               /\ RequestWritten(s)
               /\ UNCHANGED active
  /\ UNCHANGED client

\* SO_ERROR, then write().
HandleUpstreamWritable(s) ==
  /\ \/ /\ ConnectFailed(Request(s))
        /\ CloseClientConn(s)
        /\ UNCHANGED up
     \/ /\ ~ConnectFailed(Request(s))
        /\ \/ up[Request(s)].st = "connected" /\ RequestWritten(s) /\ UNCHANGED active
           \/ ErrorSwallowed(s)
           \/ NothingWritten(s)
  /\ UNCHANGED client

\* The sockets are closed and the slot is freed, g_active_conns is not touched.
DropConn(s) == CloseBoth(s) /\ ProxyFree(s) /\ UNCHANGED active

\* One read(): what it returns is forwarded and everything is closed, as at the end
\* of the stream; a reset drops the connection; EAGAIN waits.
HandleUpstreamReadable(s) ==
  LET u == Request(s)
  IN  /\ CASE up[u].sent > 0 ->
                /\ \E n \in 1 .. up[u].sent :
                     client' = [client EXCEPT ![Peer(s)].reply = u, ![Peer(s)].got = n]
                /\ CloseClientConn(s)
           [] up[u].sent = 0 /\ up[u].end = "rst" -> DropConn(s) /\ UNCHANGED client
           [] up[u].sent = 0 /\ up[u].end = "fin" -> CloseClientConn(s) /\ UNCHANGED client
           [] OTHER -> UNCHANGED <<pool, active, files, client>>
      /\ UNCHANGED up

\* Does the state of slot s have a handler for these flags?
Handles(s, flags) ==
  \/ pool[s].st = "CONNECTING_UPSTREAM"
  \/ pool[s].st \in {"READING_REQ", "READING_UPSTREAM"} /\ "IN" \in flags

\* The other branch of on_event: the slot the descriptor belongs to now decides.
SocketEvent(f) ==
  /\ batch[f] # {}
  /\ batch' = [batch EXCEPT ![f] = {}]
  /\ IF \E s \in Slots : ProxyGet(f, s) /\ Handles(s, batch[f])
       THEN \E s \in Slots :
              /\ ProxyGet(f, s)
              /\ \/ pool[s].st = "READING_REQ" /\ HandleClientRead(s)
                 \/ pool[s].st = "CONNECTING_UPSTREAM" /\ HandleUpstreamWritable(s)
                 \/ pool[s].st = "READING_UPSTREAM" /\ HandleUpstreamReadable(s)
       ELSE UNCHANGED <<pool, active, files, client, up>>
  /\ UNCHANGED <<exited, draining, resets>>

-----------------------------------------------------------------------------
(* The loop.                                                               *)

Readable(f) ==
  \/ /\ files[f].kind = "client"
     /\ client[files[f].of].rx # "none" \/ client[files[f].of].fin
  \/ /\ files[f].kind = "upstream"
     /\ LET u == up[files[f].of]
        IN  u.sent > 0 \/ u.end # "open" \/ u.st \in {"refused", "lost"}

Writable(f) == files[f].kind = "upstream" /\ up[files[f].of].st # "connecting"

\* What epoll_wait returns: level triggered, so whatever is ready now.
Ready ==
  [f \in Fds \cup {ListenFd} |->
     IF f = ListenFd
       THEN IF \E c \in Clients : client[c].st = "backlog" THEN {"IN"} ELSE {}
       ELSE {e \in files[f].ev : (e = "IN" /\ Readable(f)) \/ (e = "OUT" /\ Writable(f))}]

BatchDone == \A f \in Fds \cup {ListenFd} : batch[f] = {}

\* The test at the bottom of the loop.
LeaveLoop == draining /\ active = 0

\* The bottom of the loop and the next epoll_wait, which returns nothing after 100 ms
\* without events. A worker that leaves the loop exits: its sockets are closed.
Turn ==
  /\ ~exited /\ BatchDone
  /\ IF LeaveLoop
       THEN /\ exited' = TRUE
            /\ files' = [f \in Fds |-> NoFile]
            /\ UNCHANGED batch
       ELSE /\ batch' = Ready
            /\ UNCHANGED <<exited, files>>
  /\ UNCHANGED <<pool, active, draining, peerVars>>

-----------------------------------------------------------------------------
(* The master and the peers.                                               *)

\* A restart begins: shutting_down is 1 and the generation is past this worker's.
BeginDrain ==
  /\ ~draining /\ ~exited
  /\ draining' = TRUE
  /\ UNCHANGED <<workerVars, peerVars>>

Connect(c) ==
  /\ client[c].st = "away" /\ ~exited
  /\ client' = [client EXCEPT ![c].st = "backlog"]
  /\ UNCHANGED <<workerVars, draining, up, resets>>

\* A connection of c's the worker has not closed.
Connected(c) == ~exited /\ client[c].st \in {"backlog", "accepted"} /\ ~Closed(c)

\* Bytes arrive: some of a request, or its end.
Send(c) ==
  /\ Connected(c) /\ ~client[c].fin
  /\ \E r \in {"part", "whole"} :
       /\ client[c].rx = "none" \/ (client[c].rx = "part" /\ r = "whole")
       /\ client' = [client EXCEPT ![c].rx = r]
  /\ UNCHANGED <<workerVars, draining, up, resets>>

\* The client closes its end, or resets the connection and what it sent is lost.
Leave(c) ==
  /\ Connected(c) /\ ~client[c].fin
  /\ \E r \in {"none", client[c].rx} : client' = [client EXCEPT ![c].fin = TRUE, ![c].rx = r]
  /\ UNCHANGED <<workerVars, draining, up, resets>>

UpstreamAnswers(c) ==
  /\ up[c].st = "connecting" /\ Sockets("upstream", c) # {}
  /\ \E r \in {"connected", "refused"} : up' = [up EXCEPT ![c].st = r]
  /\ UNCHANGED <<workerVars, draining, client, resets>>

UpstreamSends(c) ==
  /\ up[c].st = "serving" /\ Sockets("upstream", c) # {}
  /\ up[c].end = "open" /\ up[c].sent < Pieces
  /\ up' = [up EXCEPT ![c].sent = @ + 1]
  /\ UNCHANGED <<workerVars, draining, client, resets>>

\* The upstream closes its end, or dies with the connection open.
UpstreamEnds(c) ==
  /\ up[c].st \in {"connected", "serving"} /\ Sockets("upstream", c) # {}
  /\ \/ /\ up[c].end = "open"
        /\ up' = [up EXCEPT ![c].end = "fin"]
        /\ UNCHANGED resets
     \/ /\ up[c].end # "rst" /\ resets < MaxResets
        /\ up' = [up EXCEPT ![c].end = "rst"]
        /\ resets' = resets + 1
  /\ UNCHANGED <<workerVars, draining, client>>

-----------------------------------------------------------------------------
Worker == Turn \/ ListenEvent \/ \E f \in Fds : SocketEvent(f)

Upstream(c) == UpstreamAnswers(c) \/ UpstreamSends(c)

Environment ==
  \/ BeginDrain
  \/ \E c \in Clients : Connect(c) \/ Send(c) \/ Leave(c) \/ Upstream(c) \/ UpstreamEnds(c)

Next == Worker \/ Environment

Spec == Init /\ [][Next]_vars

\* The kernel schedules the worker.
FairSpec == Spec /\ WF_vars(Worker)

\* And a live upstream completes the handshake and answers; used where a property
\* speaks of requests being answered.
AnsweringSpec == FairSpec /\ \A c \in Clients : WF_vars(Upstream(c))

-----------------------------------------------------------------------------
(* What must hold.                                                          *)

SlotType   == [fd : Fds \cup {0}, ufd : Fds \cup {0, -1},
               st : {"IDLE", "READING_REQ", "CONNECTING_UPSTREAM", "READING_UPSTREAM"}]
FileType   == [kind : {"free", "client", "upstream"}, of : Clients \cup {NoClient},
               ev : SUBSET Flags]
ClientType == [st : {"away", "backlog", "accepted"}, rx : {"none", "part", "whole"},
               fin : BOOLEAN, reply : Clients \cup {NoClient}, got : 0 .. Pieces]
UpType     == [st : {"none", "unavailable", "connecting", "connected", "refused", "lost",
                      "serving"},
               sent : 0 .. Pieces, end : {"open", "fin", "rst"}]

\* Every variable keeps the type its comment gives it; g_active_conns, an int that
\* several handlers count down, never falls below 0.
TypeOK ==
  /\ pool \in [Slots -> SlotType]
  /\ active \in Nat
  /\ batch \in [Fds \cup {ListenFd} -> SUBSET Flags]
  /\ files \in [Fds -> FileType]
  /\ draining \in BOOLEAN /\ exited \in BOOLEAN
  /\ client \in [Clients -> ClientType]
  /\ up \in [Clients -> UpType]
  /\ resets \in 0 .. MaxResets

\* Descriptor numbers are reused and events outlive the connections they were for,
\* yet every busy slot holds the sockets of one client and nobody else's, and every
\* socket epoll watches belongs to a slot: what proxy_get finds is the connection
\* the descriptor belongs to (worker.c 63-118), and no socket is leaked once its
\* client is done (but for a client the full pool has no slot for).
Owns(s) ==
  /\ files[pool[s].fd].kind = "client"
  /\ IF pool[s].st = "READING_REQ"
       THEN pool[s].ufd = -1
       ELSE pool[s].ufd \in Fds /\ files[pool[s].ufd].kind = "upstream" /\ Request(s) = Peer(s)

SocketsOwned ==
  ~exited =>
    /\ \A s \in Busy : Owns(s)
    /\ \A s \in Slots \ Busy : pool[s].ufd \notin Fds
    /\ \A r, s \in Busy : r # s => Held(r) \cap Held(s) \cap Fds = {}
    /\ \A f \in Fds : files[f].ev # {} => \E s \in Busy : f \in Held(s)

\* A response reaches the client whose request it answers, whatever numbers were
\* reused between the accept of the one and the answer of the other.
NoCrossTalk == \A c \in Clients : client[c].reply \in {NoClient, c}

\* g_active_conns may be too high but never too low: a worker that leaves its loop
\* (worker.c 418) closes no connection it is watching.
ExitAbortsNothing == [][exited' # exited => \A f \in Fds : files[f].ev = {}]_vars

\* Whatever its peer does meanwhile, a client whose whole request has arrived on a
\* watched connection is answered or disconnected, unless the error of its upstream
\* connection was swallowed between getsockopt() and write() (worker.c 229-241): then
\* the slot is held for ever.
Watched(c) == \E f \in Sockets("client", c) : files[f].ev # {}

RequestsSettle ==
  \A c \in Clients : client[c].rx = "whole" /\ Watched(c) ~> Closed(c) \/ up[c].st = "lost"

\* README line 271: an outdated worker with no connection left stops. The code keeps it
\* unless an upstream connection was reset before a piece of its response was read
\* (worker.c 295-302): that drop is not counted down, and the worker never stops.
Uncounted(c) == up[c].st = "serving" /\ up[c].sent = 0 /\ up[c].end = "rst"

DrainedWorkerExits ==
  (draining /\ \A f \in Fds : files[f].ev = {}) ~> exited \/ \E c \in Clients : Uncounted(c)

-----------------------------------------------------------------------------
(* What the worker implements.                                              *)

\* The state of a client's connection, read off its sockets: watched while it is
\* served, and off its reply once they are closed.
ConnOf(c) ==
  LET mine == Sockets("client", c)
  IN  IF client[c].st # "accepted" THEN "waiting"
      ELSE IF mine # {}
        THEN IF \E f \in mine : files[f].ev # {} THEN "served" ELSE "stranded"
        ELSE IF client[c].reply = NoClient THEN "closed"
        ELSE IF client[c].reply = c THEN "answered" ELSE "misdirected"

Conns == INSTANCE WorkerConns WITH conn <- [c \in Clients |-> ConnOf(c)], count <- active

\* Whatever the handlers, the kernel and the peers do, a connection is accepted only
\* before the drain, ends once, is counted as WorkerConns says, and the worker leaves
\* only when nobody is served.
ImplementsConns == Conns!Spec

-----------------------------------------------------------------------------
(* What the documents say and the code does not do.                         *)

\* Design lines 153-155: a connection in CONN_READING_REQ waits for its request; the
\* worker closes none that has sent nothing and not gone away.
FreshConnectionKept ==
  [][\A c \in Clients : Closed(c)' /\ ~Closed(c) /\ ~exited' =>
       client[c].rx # "none" \/ client[c].fin \/ up[c].st # "none"]_vars
=============================================================================
