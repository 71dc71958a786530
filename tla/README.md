# A TLA+ development of Nexus Gateway

Nexus Gateway (`src/`, about 2 000 lines of C) is an HTTP reverse proxy: one
master process forks N workers, each worker runs an epoll loop that accepts
clients, parses and rewrites one request per connection and forwards it to an
upstream server. This directory holds TLA+ models of it, TLC configurations that
check them on small instances, and TLAPS proofs of their main theorems.

| module | models | checked by | proofs |
|---|---|---|---|
| `GracefulRestart` | master, graceful restart, the part of a worker the master steers | `MCGracefulRestart`, `GracefulRestart_*.cfg` | `GracefulRestart_proofs` |
| `ProxyWorker` | event loop, connections, descriptors and slots of one worker | `MCProxyWorker`, `ProxyWorker_*.cfg` | `ProxyWorker_proofs` |
| `WorkerConns` | the abstract contract of a worker's connections, which `ProxyWorker` implements and every worker of `GracefulRestart` keeps | as properties of `MCProxyWorker` and `MCGracefulRestart` | in `ProxyWorker_proofs`, with the refinement, and in `GracefulRestart_proofs` |
| `Upstream` | weighted round robin under a concurrent health thread | `MCUpstream`, `Upstream_three_nodes.cfg` | `Upstream_proofs` |
| `ProcessFds` | event loop and health thread on one table of descriptors | `MCProcessFds`, `ProcessFds.cfg` | `ProcessFds_proofs` |
| `Admission` | blacklist and token buckets | `MCAdmission`, `Admission.cfg` | `Admission_proofs` |
| `HttpParser` | the request parser, fed piece by piece | `MCHttpParser`, `HttpParser.cfg` | `HttpParser_proofs` |
| `Rewrite` | header table, rewriting, `add_header`, serializer | `MCRewrite`, `Rewrite.cfg` | `Rewrite_proofs` |
| `StaticFile` | serving a file through a pipe | `MCStaticFile`, `StaticFile.cfg` | `StaticFile_proofs` |

Paths below are relative to the repository's root, which is `src/` here: the C
files are in `src/src/`.

## 1. The system

| part | source | state it keeps | operations |
|---|---|---|---|
| master | `master.c` | `g_worker_pids`, `old_pids`, `g_sighup`, boot and new configuration | boot, reload on SIGHUP, graceful restart, reaping and respawning |
| shared memory | `master.c`, `nexus_master.h` | `g_shadow[2]`, `*g_active_slot`, `*g_shutting_down`, `*g_drain_generation` | written by the master; the workers load the last two only |
| worker loop | `worker.c` 343-431 | `g_my_generation`, `g_active_conns` | start-up, epoll loop, drain decision |
| connections of a worker | `worker.c` 55-341, `epoll_loop.c`, `acceptor.c`, `proxy.c` | `g_proxy_pool[1024]`, epoll set, file descriptors | accept, read request, connect, write request, read response, close |
| load balancing | `upstream.c` | nodes with weight, current weight, `healthy` | add, smooth weighted round robin pick, mark |
| health checks | `health.c` | failure counts; a thread in every worker | probe, mark up or down |
| rate limit | `rate_limit.c` | a table of token buckets per worker | check |
| blacklist | `blacklist.c` | a table of addresses | add, check |
| HTTP parsing | `http_parser.c` | parser state, the request | feed, serialize |
| headers and rewriting | `http_header.c`, `http_rewrite.c` | a table of header slots | add, get, set, remove, rewrite, request id |
| static files | `static_file.c`, `zerocopy.c` | none | serve a file, splice through a pipe |
| configuration file | `config.c` | sections and keys | load, get |
| connection pool | `connection.c` | a table of 1024 connections, searched for a free one; used by its own test only | create, acquire, release |
| logs, time | `log.c`, `util.c` | open files, a mutex | write a line |

**How they interact.** The master and the workers interact through `fork`,
signals, `waitpid` and the shared atomics. A worker and its peers interact
through sockets, and so through the kernel's table of descriptors and what epoll
reports of it. The health thread and the event loop of a worker interact through
the `healthy` fields and through the process's table of descriptors. Inside the
loop the parts are called one after the other by `handle_client_read`: parser,
blacklist, rate limit, static files or load balancing, rewriting, serializer,
connect. Workers share no connection state.

**What is hard.**

- *Interleaving.* The workers load `shutting_down` and `drain_generation` one
  after the other while the master stores them one after the other; the health
  thread stores between the reads of a pick; clients, upstreams and the kernel
  move between any two handlers of the loop.
- *Stale state.* An event is known by its descriptor number: it may be handled
  after its descriptor was closed and the number given out again.
- *Faults.* Workers crash at any point of a restart, `fork` fails, SIGHUP
  interrupts a `waitpid`, `accept` and `socket` run out of descriptors, the pool
  of slots is full, upstreams refuse, reset, or answer in pieces.
- *Time.* The draining deadline, probes that time out, and the absence of any
  timeout on a connection.
- *Ends.* A restart must come to an end, a slot of the table must be filled
  again, a request must be answered or its client disconnected.

**What makes each part correct.**

| part | properties |
|---|---|
| master | no live worker is lost; a pid is in one slot; only stragglers of the old table are killed; children are reaped; a restart ends and leaves N workers of the new configuration; a dead worker's slot is filled again, unless a fork has failed |
| worker, towards the master | a current worker ignores earlier restarts; an outdated one with no connection left exits, and no other does; a restart aborts no connection that has a slot |
| connections | a slot holds the two sockets of one client; nobody gets another's response; the count of connections is never below those served; a request settles unless the error of its upstream was swallowed |
| load balancing | shares by weight; a healthy node is used, one that is down is not; a pick fails only for want of a node |
| health checks | a node goes after repeated failures only, and comes back |
| descriptors of a worker | but for the race of the double close the loop and the health thread do not hold each other's numbers; only a full pool loses one |
| rate limit, blacklist | over every stretch of time an address gets what the rate allows, neither more nor less; a blocked one the list had a place for costs nothing |
| HTTP parsing | feeding a request in pieces is feeding it whole; every whole request is recognised |
| headers and rewriting | of what is sent: no forged header but one with a NUL behind its name, all others that have a name, the gateway's own if there is room |
| static files | no byte is sent twice or out of order; what is counted as sent was sent; a fast client gets all of a file that can be read; the loops end |

## 2. The plan

Done, in this order:

1. `GracefulRestart`: the behaviour with the most actors and faults.
2. `ProxyWorker`: the connections `GracefulRestart` abstracts to a count.
3. `Upstream`: the two threads of a worker on the same nodes.
4. `WorkerConns`: what the connections of a worker promise the master, with the
   refinement checked and proved.
5. `Admission`, `HttpParser`, `Rewrite`, `StaticFile`: the parts
   `handle_client_read` calls one after the other, a module each, because they
   share no state but the request.
6. `ProcessFds`: the two threads of a worker on one table of descriptors.
7. `GracefulRestart` on top of `WorkerConns`: between the entry of its loop and its
   end each worker there keeps the contract that `ProxyWorker` implements, checked
   and proved.

Not planned: the rest of `config.c`, `log.c`, `util.c`, `main.c`, `connection.c`
(section 12).

`TypeOK` of every module is a theorem, so the runs spend their time on the other
properties.

## 3. GracefulRestart

One behaviour is a gateway from its boot on. The state is the master's
(`mpc`, where it is in `nexus_master_run`; `idx`, `alive`, `deadline` of its loops;
`cur` and `old`, the two pid tables), the shared memory (`shuttingDown`,
`drainGen`, `activeSlot`, `shadow`), the processes (`proc`: where a worker is, the
generation it has read, its configuration, `g_active_conns`) and the clients.

| action | code |
|---|---|
| `BootSpawn` | master.c 183-185, one `fork` per step |
| `PollIdle`, `ReloadFails`, `Reload` | the test of `g_sighup`, `nexus_config_load` and `reload_config` |
| `BumpGeneration`, `RaiseFlag` | the two stores, a step each: this is what the workers race with |
| `SpawnNew`, `DrainSlot`, `DrainTick`, `KillSlot`, `LowerFlag` | the rest of the restart, one slot per step |
| `ReapSlot` | the reaping loop, with what `waitpid` does for a slot holding -1 |
| `Start`, `ReadGeneration` | the start of `nexus_worker_run`: listen first, load the generation later |
| `ListenEvent`, `ListenEventGeneration` | the listening branch of `on_event`, one step per load; `Accept` has its three ends: a slot (`Serve`), a full pool (`Strand`), a failing `accept4` (`AcceptFails`) |
| `LoadShutting`, `LoadGeneration` | the bottom of the worker's loop, one step per load |
| `CloseConn`, `DropConn` | the two ways a connection ends (`DropConn` does not count down) |
| `Sighup`, `Crash`, `Connect`, `ConnectRefused` | the signal handler, faults, clients |

A pid is reused as soon as it has been reaped. A connection waits in the accept
queue of the worker the kernel chose (`SO_REUSEPORT`) and is lost with it. One that is
accepted when every slot is taken is "stranded": its descriptor stays open, nobody
watches or counts it, and it goes when its worker does.

### Runs

| run | instance | what it shows |
|---|---|---|
| `restart_two_workers` | 2 workers, 4 pids, no clients, 1 SIGHUP, 1 crash, 1 failed fork, a good and an unusable configuration, fairness; 679 392 states | `NewWorkersKeepServing`, `OneSlotPerWorker`, `RestartReplacesWorkers`, `WorkersAccounted`, `SlotsServe` |
| `restart_two_restarts` | 1 worker with 1 slot in its pool, 3 pids, 2 clients, 2 SIGHUPs, 1 crash, deadline 2, fairness, no symmetry; 805 554 states | `UnreapedChildrenBounded`, `TableStaysFull`, `NoClientAborted`, `KillOnlyStragglers`, `LivesKeepContract`, `RestartCompletes`, `QueuedClientsSettle` |
| `restart_old_workers_drain` | 1 slot, 3 pids, 1 client, 2 SIGHUPs | finding: `OldWorkersToldToDrain` fails |

`TableStaysFull` is about the race of the two restarts: while nothing has failed
every slot has a live worker at all times but between the bump of the generation
and the last `fork` of the new workers; in that window, and until the new ones listen,
nobody may be listening. It needs each new worker to read the
generation after the bump it was forked for and no worker to take an earlier
restart's signal for its own.

`LivesKeepContract` joins the two models of a worker. `Conns(p)` is `WorkerConns` with the
connections pid `p` holds and its `g_active_conns`; the contract's `draining` is
`Told(p)`: what the worker has loaded, or would load now, says that its generation
is over. In `ProxyWorker` the order to drain is one flag of the worker, raised once.
Here it is two shared variables, loaded one after the other, and the master lowers
one of them again. The property says that the difference is not felt: over each
life of a pid, from the entry of the loop (`Born`) to its end, nobody is accepted
after the order, the order is not taken back, and a worker leaves by itself only on the order,
with its count at 0 and nobody served, which closes what was stranded; else it crashes or is killed as one of the old table (`Dies`).
Both models thus keep one contract, and what section 4 shows of the connections,
descriptor by descriptor, is what this module assumes of them.

`NoClientAborted` is about the connections that have a slot: the count never falls
below those. What a full pool has stranded is not counted, and a worker that leaves
abandons it ("abandoned").

*Bounds.* `MaxSighups`, `MaxCrashes` and `MaxForkFailures` bound faults and
signals, `DrainDeadline` stands for the 30 passes of the draining loop. A pool of one
slot and two clients are what it takes for the pool to be full, and for one client to
wait in the queue while another holds a descriptor; the run with two workers has no
clients, which none of its properties speaks of. Two slots of the pid table
are enough for a slot to be confused with another, and two SIGHUPs for a worker
to meet a second restart with what it loaded during the first. The pids are as
many as two tables and the children an interrupted `waitpid` may leave behind
need, which is what `PidsAssumption` says; with fewer the model would have `fork`
fail for a reason the code does not have. The theorems of section 11 have no
bound, so the safety properties do not rest on these sizes.

*Fairness.* Weak fairness of the master and of each worker (`Scheduled`): the kernel
schedules runnable processes. Clients, upstreams, crashes and signals have none:
`RestartCompletes` holds although a worker's connections may never end, because
the deadline bounds the drain. Nor is `accept4` promised to succeed while the worker has
other connections open: nothing times those out, so it may be out of descriptors for ever,
and `QueuedClientsSettle` excepts the queue of such a worker of the current table. In
the old table the deadline ends that too.

Faults are finite in number, so `SlotsServe` says what is the case once they have
ceased: every slot has a serving worker if no fork has failed. If one has, its slot may
stay empty for ever: `waitpid(-1, WNOHANG)` returns 0 while the other slots have live
workers, and only one slot is sure to serve. The run has a failed fork and two slots.

## 4. ProxyWorker

One behaviour is one worker from the entry of its loop on. `pool` and `active` are
`g_proxy_pool` and `g_active_conns`; `files` is the kernel's table of descriptors
with the epoll flags of each; `batch` is what is left of the array `epoll_wait`
filled; `client` and `up` are the peers' ends of the connections.

| action | code |
|---|---|
| `Turn` | the bottom of the worker's loop and the next `epoll_wait`; exit when drained |
| `ListenEvent` | `on_event`, listening socket: `accept`, `proxy_alloc`, all that follows |
| `SocketEvent` | `on_event`, `proxy_get` and the handler of the slot's state: `HandleClientRead`, `HandleUpstreamWritable`, `HandleUpstreamReadable`, each with all it calls |
| `BeginDrain` | the master begins a restart (module `GracefulRestart` models the two loads) |
| `Connect`, `Send`, `Leave` | the client: connects, sends a part of a request or all of it, closes or resets |
| `UpstreamAnswers`, `UpstreamSends`, `UpstreamEnds` | the upstream: accepts or refuses, sends a piece, closes or resets |

A handler is one step: the loop has one thread and no handler blocks, but for
`splice` into a full pipe while a file is served (`StaticFile!Blocked`; section 10),
which stops the whole worker. The peers can move between two system calls of a handler,
which matters in `handle_upstream_writable`: a connection refused or reset after its
`getsockopt` and before its `write` is the outcome `ErrorSwallowed`. The `write` takes the
error, nothing is done about it, and from then on (`up` is "lost") `SO_ERROR` is clear and
every `write` fails. Descriptors
are numbers, `accept` and `socket` return the lowest free one, and closing one
leaves its event in `batch`, as `close` and `EPOLL_CTL_DEL` leave the array alone.
SIGPIPE is ignored by the master and so by the workers it forks: a write to a
closed connection fails and changes nothing here. Requests are abstracted to
nothing, a part or a whole one to read, and the verdicts of blacklist, rate limit,
static files and load balancing to choices of `HandleClientRead`.

### Runs

| run | instance | what it shows |
|---|---|---|
| `worker_three_clients` | 3 clients, 3 descriptor numbers, 2 slots, 1 reset: `accept` and `socket` fail, the pool fills up, numbers are reused at once; 1 010 262 states with symmetry and a view | `SocketsOwned`, `NoCrossTalk`, `ImplementsConns` |
| `worker_liveness` | 2 clients, 3 numbers, 2 slots, 1 reset, responses of 1 piece, live upstreams, no symmetry; 400 159 states | `RequestsSettle`, `DrainedWorkerExits` |
| `worker_stale_event` | 2 clients | finding: `FreshConnectionKept` fails |

*Bounds.* A client connects once; three of them are what it takes for a number
to be freed by one, leave an event of a second behind and be taken by a third.
`Pieces` is 2 where the second piece matters and `MaxResets` bounds the connections
that are refused or reset between two handlers.
Deadlock is not checked: a drained worker exits and its peers are done.

*View.* `MCProxyWorker!View` identifies states that differ only in the peers' ends
of sockets the worker has closed. No action of the worker reads those ends again,
and of a finished client the properties look at the reply and at its being
closed only, which the view keeps.

*Fairness.* `FairSpec` has weak fairness of the worker's loop. `RequestsSettle`
needs a live upstream as well (`AnsweringSpec`: it completes the handshake and
sends), since the code has no timeout: an upstream that stays silent holds its
slot for ever, and only the master's deadline frees it. Each of the two properties
names what the code does not do in its formula. `RequestsSettle` excepts the request
whose error was swallowed: its slot is held for ever although the upstream is gone.
`DrainedWorkerExits` excepts the worker with an upstream connection that was reset
before its response: `g_active_conns` stays too high (worker.c 295-302,
`WorkerConns!Drop`), and it never exits.

### What the connections promise: WorkerConns

`WorkerConns` has no descriptors, slots or events: a connection is waiting,
served, stranded, answered or closed, `count` is `g_active_conns`, and a worker may
leave when it is draining and the count is 0. That is all `GracefulRestart` uses
of a worker's connections (its `CloseConn` is `Finish`, its `DropConn` is `Drop`), and
every life of a worker there keeps this contract as well (`LivesKeepContract`).

`ProxyWorker!ConnOf` is the refinement mapping. A client whose socket is watched is
served; one whose socket is open and not watched is stranded; one whose socket is
gone is answered if it has its own response, and closed if it has none. A client
with another's response would be in none of the abstract states, so
`ImplementsConns` includes that nobody gets one, that nothing is accepted while
draining, that a connection ends once, and that every end but that of `Drop` is
counted once.

## 5. Upstream

The worker's pick (`pc`, `i`, `total`, `best`: one step per node and walk) and the
health thread (`probed`, `fails`: one step per probe and its store) on the nodes
(`healthy`, `current`). `fails` saturates at `Threshold`, above which the code does
not tell counts apart. `steady`, `seen` and `hits` are history variables: the nodes
that were healthy all the time, or at some time, since the pick began, and the
picks of the current round. The worker adds a single node of weight 1 whatever the
configuration lists; the model takes any number and any weights, as `upstream.c`
and its test do.

`upstream_three_nodes` checks the nodes of `config.ini.example` (weights 3, 2, 1)
with up to three changes of health (`MaxFlips`), anywhere between two reads of a
pick: 264 888 states. Three changes are a node that goes, comes back and goes
again, or three nodes that go. Without that bound the state space is infinite:
a change between the two walks unbalances the current weights for good, and
`DisplacementBounded` says by how much at most.

`SmoothShares` says what "smooth" comes to. No node is ever a whole pick ahead of its
share. Behind it, one may be by half a pick for each other node, which for three
nodes is less than a whole one, but not for five: with the weights 1, 1, 1, 11 and 11
one is more than a pick late. `DisplacementBounded` bounds the sum of the current
weights for any nodes, and each node's own for up to three; beyond that a node can be
farther off without any change, for the same reason. `Sum` is a recursive function
and not a fold over a set, because the proofs of section 11 are about any number of
nodes. Fairness is weak fairness of a
pick that has begun and of the thread; requests have none, which is why
`HealthyNodeServes` has the condition that they keep coming.

## 6. ProcessFds

The event loop and the health thread of a worker share the process's table of
descriptors (`file`: what each number refers to). `handle_upstream_readable` and
`handle_upstream_writable` close the upstream's socket and `close_client_conn` then
closes the same number again (`EndUpstream`; worker.c 282, 102); in between the
thread's `socket()` may have got it. Here every `socket()`, `connect()` and
`close()` of the thread and every `close()` of the loop is a step; what makes
the loop close something is any of the ways `ProxyWorker` has. A raced probe may
lose its socket to the loop and then close a number that has become a client's:
the model has those outcomes, and the history variable `raced` marks them.

`process_fds`: 4 numbers, 2 slots, 3 clients, 2 refused probes, threshold 2;
332 557 states. `Separate`: unless the thread's `socket()` fell between the two
closes, neither side ever holds a number of the other's (without that condition
TLC finds the counterexample); this is what `ProxyWorker`, which has no thread,
relies on. `LeaksOnlyFromFullPool`: the descriptors nobody will close are those
accepted with the pool full (worker.c 317), one for one. `DownHasCause`: a node is
marked down after as many failures in a row as the threshold says, where "no
descriptor left" counts as a failure of the node (health.c 22). `ComesBack`: such a
node does come back. Four numbers are two connections, or one and a probe with a
number to spare; fairness is that of the thread and of the loop's closes.

## 7. Admission

`Check` is `handle_client_read` from the blacklist to the rate limit (worker.c
154-171), `Found` and `Spend` are `nexus_rl_check`, `Tick` is the clock. Tokens
are counted in fractions of `1/Second`, so they are whole numbers: the code's sum of
doubles without its rounding. `since` is a history of what each address was let
pass.

`admission`: 5 addresses, a blacklist of four lines that names one of them twice, one
in the list's last place and one beyond its three places, 2 entries in the bucket table,
2 requests a second, 3 clock steps a second, 4 steps, 4 requests; 3 877 803 states.
`WithinLimit` and `RefusedOverLimit`
bound what an address gets over *every* stretch of time from above and below;
`BlockedAside` says that the blacklist comes first: an address on it has no bucket and
never passes, but for one all of whose lines came after the list was full (blacklist.c
12), and nobody else is answered 403. The design document draws the two checks the
other way round (section 13). Three steps to a
second with a rate of 2 leave a remainder at each refill, which a bucket that
counted whole seconds or whole tokens would lose. An address that meets a full table
is always let pass (`FailOpen`, rate_limit.c 26), and the table never forgets: the
properties except it. The buckets are a worker's own: with N workers a client gets up
to N times the rate.

## 8. HttpParser

One behaviour is one request, arriving in pieces (`Feed`) of any size. A call of
`nexus_http_req_feed` is its loop, a turn a step (`TakeLine`, `TakeBody`), until it
returns. The request is a sequence of cells, as coarse as the parser's own
distinctions: CR, LF, a request line, a header, a Content-Length that is a number or
none, other text.

`http_parser`: 8403 streams (`MCStreams`), each in every split; 232 444 states.
`SplitsDoNotMatter` compares the parser after every call with `Verdict`, which reads
the same bytes at one glance, and `Recognised` says that every call returns and
that what is whole is recognised. Both speak of lines that fit into `line_buf`: a
longer one is cut, and its tail is parsed as a line of its own (http_parser.c 69).
The streams have the empty request line, headers without colon, more headers than
fit, a lone CR, and a CR LF in every place. The worker calls the parser once, with its
first read, and drops a request that did not come whole (`ProxyWorker!NoRequest`).
Fairness is that the parser runs and the client sends the rest.

## 9. Rewrite

The life of a request's headers: `TakeToken` parses `add_header`, `BeginOp`,
`RemoveOne`, `StepOver`, `EndOp` are `nexus_headers_remove` and `_set` for each
operation of `nexus_http_rewrite_request` in order (`Op`), `Serialize` and `SendHeader`
are `nexus_http_req_serialize`, which sends the table's entries one by one. A header's
name is its lower-case form and its value the client's line it came from. A name is
stored and hashed with its length, but compared and printed as a C string: `CStr` is the
part before its first NUL, `Matches` asks for both, and an entry whose C string is
empty is not sent (`Serialized`).

`header_rewrite`: every request of up to four lines over eight names, one with the
hash of a gateway header, one with the hash of Host, one with a NUL behind a gateway's
name and one empty, a table of 8 places for the gateway's 6 or 7 headers and the
client's, and two settings of `add_header`; 806 061 states.
The properties are about `sent`. `NoForgedHeaders`: no line of the client's goes out under a
name of the gateway's or the operator's, but for one whose name went on behind a NUL
(`Cut`): it has another hash, is not removed, and is printed up to the NUL.
`OthersKept`: every other line that has a name reaches the upstream, in order; an
empty name (a line that begins with its colon) does not. `InjectedIfRoom`:
a header of the gateway's is missing only if the table was too small. Whether the
client named a Host, and so X-Forwarded-Host is sent, is asked of `nexus_headers_get`,
which compares hashes and not names (`HostNamed`): another name with the hash of Host
passes for it. Four lines
are enough for two forged ones next to each other among others, and, with the six or
seven headers of the gateway, for a full table.

## 10. StaticFile

`nexus_static_serve` (`Open`, `CallSplice`, `Return`) and `nexus_zc_splice`
(`ReadFile`, `ReadFails`, `WriteSocket`, `WriteFails`, `SpliceDone`), with a pipe of `Slots` places
for a page or a part of one, and a client's socket that takes all of what it is
offered, a part, or nothing. A call throws its pipe away, and what is in it. The path may be one with "..", missing,
a file or a directory: `open` takes a directory and `fstat` gives it a size, so it is
answered 200, and every read of it fails. A read of a file may fail as well.

`static_file`: files of up to 12 bytes, a pipe of two pages of two bytes; 26 962 states.
Twelve bytes are three pipes, so that one can be lost between two. `InOrder` and
`SentCounted` say that no byte is sent twice or out of order and that what was lost
in a pipe is not counted as sent, `HolesBounded` that each loss is at most a pipe,
`WholeIfFast` that a client that keeps up gets the bytes without a hole, and all of
them unless a read failed, in which case it gets less than it was promised. `ServingEnds`, under weak
fairness of the code's steps, has one exception: after a short write the pipe can be
full when the next read of the file begins (`Blocked`), and then `splice` waits for
ever for the thread that waits in it.

## 11. What is proved

The theorems hold for every number of workers, pids, clients, descriptors, slots,
nodes, weights, rates, table, line and pipe sizes, requests and hash functions that
satisfies the named assumptions of the modules. Inductive strengthenings that only the
proofs use stand at the head of the proof modules of `GracefulRestart`, `ProxyWorker` and
`Upstream`, but for `NearInv`, which is with its lemmas.

| theorem | states | invariant |
|---|---|---|
| `GracefulRestart_proofs!TypeCorrect`, `NoAbort` | `TypeOK`, `NoClientAborted` | `CountInv` |
| `NoWorkerLost` | `WorkersAccounted` | `AccountInv` |
| `SlotsDistinct`, `OnlyStragglersKilled` | `OneSlotPerWorker`, `KillOnlyStragglers` | `TableInv` |
| `KeepServing`, `WorkersReplaced` | `NewWorkersKeepServing`, `RestartReplacesWorkers` | `ReplaceInv` |
| `TableFull` | `TableStaysFull` | `FullInv` |
| `UnreapedBounded` | `UnreapedChildrenBounded` | `LeftInv` |
| `ContractKept` | `LivesKeepContract` | `CountInv`, `AccountInv`, `ReplaceInv`, `StrandedOK` |
| `ProxyWorker_proofs!TypeCorrect`, `Ownership`, `OwnResponse`, `CleanExit` | `TypeOK`, `SocketsOwned`, `NoCrossTalk`, `ExitAbortsNothing` | `ConnInv` |
| `ProxyWorker_proofs!Refinement` | `ImplementsConns` | `ConnInv`, `ClientsInv` |
| `ProxyWorker_proofs!CountNeverLow`, `ExitClean` | `Conns!CountCovers`, `Conns!ExitServesNobody` | `CountInv` of the contract |
| `Upstream_proofs!TypeCorrect`, `NullMeansNoneStayedUp`, `NeverPicksDownNode` | `TypeOK`, `NullOnlyIfNoneStayedUp`, `PickedWasUp` | `PickInv` |
| `SharesSmooth` | `SmoothShares` | `SharesInv` |
| `DisplacementLimited` | `DisplacementBounded` | `SumInv`, `NearInv` |
| `ProcessFds_proofs!TypeCorrect`, `ThreadsSeparate`, `NoOtherLeaks`, `DownCaused` | `TypeOK`, `Separate`, `LeaksOnlyFromFullPool`, `DownHasCause` | `FdsInv` |
| `Admission_proofs!TypeCorrect`, `LimitKept`, `NoNeedlessRefusal`, `BlockedStayOut` | `TypeOK`, `WithinLimit`, `RefusedOverLimit`, `BlockedAside` | `BucketInv` |
| `HttpParser_proofs!TypeCorrect`, `SplitsHarmless` | `TypeOK`, `SplitsDoNotMatter` | `TypeOK`, `ParserInv` |
| `Rewrite_proofs!TypeCorrect`, `ForgeriesRemoved`, `NoDuplicates`, `OthersPassedOn` | `TypeOK`, `NoForgedHeaders`, `OneOfEach`, `OthersKept` | `Inv`, `Out` |
| `InjectedWithRoom` | `InjectedIfRoom` | `Inv`, `RoomInv`, `Out` |
| `StaticFile_proofs!TypeCorrect`, `BytesInOrder`, `Accounted`, `HolesNoLongerThanPipe`, `FastClientServed` | `TypeOK`, `InOrder`, `SentCounted`, `HolesBounded`, `WholeIfFast` | `Inv` |

*Assumptions.* `PidsAssumption`: the kernel has as many pids as two tables and the
unreaped children need. The sets of clients, pids and descriptors are finite, the
constants that stand for no pid, no client or no configuration are none; the names
of the gateway's headers are distinct. `HashAssumption`: none of the other names the
gateway writes has the hash of Host (so it is with the code's FNV-1a); of what clients
and operators write nothing is assumed. Nothing is assumed of the environment.

*GracefulRestart.* `CountInv`: a connection in progress is counted, and only a
worker in its loop has any, so a worker that sees 0 aborts none. `AccountInv`: a
loop fills empty slots only (`FillsEmptySlots`), and the kill loop leaves no live
worker behind it (`KilledAreGone`), so that dropping the old table loses nobody.
`TableInv`: while no fork has failed what the tables list are children
(`ListedAreChildren`), which keeps the kernel from giving their pids out again; and
a draining pass that found nobody alive has emptied the old table
(`PassFoundAlive`), so that who is killed has outlived the deadline. `ReplaceInv`:
a worker in the current table has read the present generation but in the window
between the two stores, and the slots filled so far hold the new configuration.
`FullInv` adds that outside of restarts, and in the boot up to where it has come,
the slots hold live workers of the configuration in use: the old ones of the next
restart are those of the last. `LeftInv`: a child no table lists is not made by a crash,
since a crashed worker is in a table, but by the killing loop, which forgets a slot
whose wait was cut short. So the invariant counts such slots as forgotten as soon as
the loop has passed them (`OldAhead`), of which each takes a SIGHUP, and one more
SIGHUP began the restart (`HupSeen`).

`ContractKept` takes each step of the system for what it is to each worker. Most leave
it alone (`OthersUnmoved`) or are its own; the two that could break the contract from
outside are the master's. The bump of the generation and the raising of the flag can
only give the order (`MasterTells`). Lowering the flag could take it back from a worker
that has not acted on it, and does not, because nobody is left that has it
(`LowerFlagTellsNobody`): by `AccountInv` a worker alive then is in the current table, and
by `ReplaceInv` it has read the present generation. That a worker leaves with
nobody to serve is `CountInv`. Only a process in its loop has stranded connections
(`StrandedOK`), which follows from the contract itself (`StrandedKept`).

*ProxyWorker.* `ConnInv` has `SocketsOwned` at its centre: busy slots hold
disjoint pairs of sockets of one client each, and what epoll watches is held.
A handler finds its slot by number, so what a stale event reaches is the slot of
the connection that has the number now; since each slot is one client's, the
response it forwards is that client's. The actions that close (`CloseEffect`),
accept, connect and write each get a lemma on what they do to ownership.
`ActiveCovers` (the count is at least the number of busy slots) gives `CleanExit`
and, in `TypeOK`, that the count never falls below 0.

*Upstream.* `WalkInv` says what the walks have found of the nodes that have been up
since the pick began: passed by the first walk, they have made the total positive;
passed by the second, there is a best node. The thread only ever takes nodes out of
`steady` and puts nodes into `seen`, whatever the point of the walk.

`SharesInv` keeps books while no node has been down: a node's current weight is what the
picks of the round leave of the weights it has gained, and all of them add up to the
total of the pick. The node chosen is the greatest, so with a positive sum it has
something to pay from (the bound ahead), and no other is greater than half of what the
two can have at most, the rest being as far ahead as can be (`GreatestBounds`: the
bound behind). At the end of a round no node is ahead by a whole pick and all sum to
nothing, so each is 0. The attempt to prove the shares within one pick on both sides
failed, and showed that it is not so from five nodes on.

`SumInv`: what is given out and not yet paid is paid by the pick under way, unless
a node has changed since it began: then `seen` differs from `steady`, and
one change stands for what is lost. A pick that gave out weights and returns NULL has
met such a change (`NullOnlyIfNoneStayedUp`).

`NearInv` bounds each node's own current weight, for up to three nodes. While no change of
health has come into the pick (`Undisturbed`), each node, but for what it has been given in
this pick, is closer to 0 than `most`, which is one `Sum(Weight)` for each change and one more;
the pick owes what it has `granted`, and the one that pays is the greatest of those it
was granted to. Among up to three nodes that keeps all of them near 0 (`PaidBounds`): the
payer, because what it and one or two others hold adds up to no less than what is owed
and none of them holds more than it; the others, because what they had been given is still
theirs and the sum leaves them no more (`SumAround`). After a
change (`Disturbed`) the pick may charge anybody for anything, but the change has widened
`most` by as much.

Sums over any number of nodes are reasoned about with `UpInduction`: a set of numbers
up to `NodeCount` that holds 0 and the successor of each is all of them, because its
complement has no least element. From it follow that the recursive `UpTo` has a value,
only one, what a change of one term does to `Sum`, and that it is monotone.

*ProcessFds.* `FdsInv`: until the race every socket but the lost ones is in a slot, in
what the loop is about to close, or the probe's (`Kept`), and what is about to
be closed belongs to nobody else any more (`Leaving`); the second close of a number finds
it unused. The lost ones are counted one by one, which needs `Cardinality` to go up
by one with each (`Strays`).

*Refinement.* Each action of `ProxyWorker` is an action of `WorkerConns` or
a stutter. `ClientsInv` says what the mapping needs beyond `ConnInv`: a client's
open connection has exactly one socket, one that is answered has none, and the
socket of a busy slot is watched. The lemmas on what accept, close and exit do to
the mapping are what the steps rest on. From the contract alone follows that the
count is never too low and that a worker that leaves serves nobody; by the refinement
it is so of the worker (`CountNeverLow`, `ExitClean`).

*Admission.* `BucketInv`: the level of a bucket now is the least, over all stretches
that end now, of what the stretch still has to give (`Bounded` says at most,
`Tight` that some stretch reaches it). `LimitKept` follows from the first and
`NoNeedlessRefusal` from the second; neither is inductive without the other's
frame (`Clocked`, `Fresh`).

*HttpParser.* `TypeOK` is inductive: a line found ends before the last byte that
has arrived (`LineInside`), so what is consumed, also of a line that was cut, does
not reach past it. `ParserInv` says, for lines that fit, that what the parser has
consumed is a prefix of the lines of the whole input, each taken for what it is, and
that after a call no complete line is left (`Eols = {}`). The induction on the lines is
in the behaviour, a line a step; what `Verdict` picks with `First` and `Last` is then
the line the parser stopped at.

*Rewrite.* `Inv`: the operations done have settled their names (`DoneSettled`), the
removal loop has left none of its name behind (`Passed`), lines of other names are
still there (`Kept`) and in order (`Ordered`); what is sent is the part of the table
that the sending loop has passed (`Out`). The hash is any function: the removal
compares the name as well. `RoomInv` adds that each place is a client's line or
an operation's done before, one per name, so that while all the lines that are not cleaned
and all the wanted names fit there is a free place for the next, and that what was set is
replaced only by another of its name. The proof found an error of the model: the
property asked for a line named Host, and the code for one with its hash.

*StaticFile.* `Inv` relates the file's position, the pipe and what was sent. The
last byte the client has is at most a pipe's capacity behind where the next call
begins (`Near`), which is why no hole is longer.

*Only model-checked.* All liveness properties (`RestartCompletes`, `QueuedClientsSettle`,
`SlotsServe`, `RequestsSettle`, `DrainedWorkerExits`, `HealthyNodeServes`,
`FailingNodeLeaves`, `Recognised`, `ServingEnds`, `ComesBack`), which are out of the
prover's reach. Every safety invariant and every action property the passing runs check
is a theorem.

## 12. What is not modelled

- The real time of `sleep(1)` and of the 100 ms of `epoll_wait`: a pass of the
  draining loop is a step that may come at any time.
- Failures of `shm_open` at boot; the text `serialize_config` writes (no worker
  reads the slots); a SIGHUP before its handler is installed, which ends the master.
- Request and response text, access logs, and the functions nothing in the gateway
  calls (`nexus_proxy_forward_request`, `nexus_proxy_read_response`,
  `nexus_upstream_mark`, `connection.c`).
- The health thread's use of descriptor numbers in `ProxyWorker`: `ProcessFds` says
  when it makes a difference.
- The numbers of `rand()` in a request id; the rounding of the buckets' doubles; the
  memory of a request, which is never given back (worker.c 143).
- The whole path of one request as one behaviour: the parts share no state but the
  request, and what each promises is an input of the next (the parser's headers are
  `Rewrite!Requests`, its verdict the choice of `ProxyWorker!HandleClientRead`).
- Sections, keys and trimming in `config.c`; `log.c`, `util.c`, `main.c`: sequential
  input and output on which no property depends.

## 13. Where the code and the documents disagree

Each of these has a run that ends in a counterexample.

| run | what the documents say | what the code does |
|---|---|---|
| `restart_old_workers_drain` | README 61: an old worker finds gen > my_gen and drains; README 244: no worker is killed | a worker that is still starting when the generation is bumped reads the new one (worker.c 395), never drains and is killed at the deadline |
| `worker_stale_event` | design 153-156: a connection is kept until its request is parsed | an event left from a closed connection reaches the one accepted since on its number; `read` gives EAGAIN, which is taken for the end (worker.c 130) |

Seen while modelling, and not checked by a run:

*Master and workers.* A draining worker keeps its listening socket open without
accepting (worker.c 310), and what the kernel queued on it is reset when it exits
(README 22: connections are not lost). An upstream's reset closes the client without
counting down (worker.c 295-302), so the drained worker never exits by itself (README
271, 244): `DrainedWorkerExits` has that as its condition. A crashed worker is respawned with the configuration of the boot, even
after a reload (master.c 252). A slot whose fork failed is not filled while other
workers live, because `waitpid(-1, WNOHANG)` then returns 0 or takes another worker's
status (master.c 249-250; design 233: fork at once): the second half of `SlotsServe`. A configuration that loads but names no usable address replaces
a working one (master.c 191, design 235). The version of the active slot does not
grow at the first reload (master.c 121, design 183). The flag is raised before the
new workers are forked, so for a moment nobody may be listening (master.c 204,
design 218-224).

*Connections.* A response is closed after its first read (worker.c 281, design
163-168). With the pool full an accepted connection is neither watched nor counted nor closed
(worker.c 316-318, design 237), and it is cut off when its worker leaves (README 22, 290).
An upstream that refuses between `getsockopt` and `write` leaves slot and client as they
are for ever, because a failing `write` is ignored (worker.c 229-241, design 232). A refused upstream closes the client without the 502 of
design 232. The client's socket stays registered while the upstream is awaited, so a
client that has closed keeps the loop turning (worker.c 220, README 270). The second
`close` of an upstream's number may hit the health thread's socket, and the thread's
`close` a client's (`ProcessFds`). One upstream server of weight 1 is used, whatever
the configuration lists (worker.c 360, README 17).

*Requests.* The blacklist is asked before the rate limit (worker.c 154-171); the design
draws the rate limit first (design 129-130). A list of blocked addresses that is longer than its
1024 places is cut without a word (blacklist.c 12). A forged header
with a NUL behind its name is hashed with the NUL (http_header.c 41), so it is not removed,
and printed without (http_parser.c 129), so it goes out under the gateway's name
(http_rewrite.c 42: 完全丢弃; README 294): `NoForgedHeaders` and `OneOfEach` except it. A
header with an empty name is not sent (http_parser.c 128). The
path of a directory is answered 200 with a Content-Length and no byte (static_file.c 29-51). The body of a request is not forwarded, its Content-Length is (worker.c
201, http_parser.c 107). A header line too long for `line_buf` is cut and its tail
parsed as a line of its own (http_parser.c 69); nothing is ever answered 431. A table
of headers filled by the client leaves no room for those the documents say are
always set (强制注入; http_header.c 33). Tokens of `add_header` are not trimmed
(config.c 73-91). Request ids come from `rand()`, never seeded, so that the workers,
forked with one state, draw the same numbers (http_rewrite.c 14; README 198: 全局唯一).
The rate limit is a worker's own and lets every new address pass once its table is
full (rate_limit.c 26). A file served to a slow client can have holes although its
Content-Length promises all of it, and can block the worker (zerocopy.c 17-19).
