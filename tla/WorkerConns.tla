---------------------------- MODULE WorkerConns ----------------------------
(***************************************************************************)
(* What a worker promises of its connections, and all the master relies on *)
(* (src/src/worker.c): it accepts none once its generation is over, what   *)
(* it serves ends once, answered or closed, and it leaves when its count   *)
(* is 0, with nothing it serves left.  ProxyWorker implements it.          *)
(*                                                                         *)
(* No descriptors, slots or events here: conn says how far each client's   *)
(* connection is.  "stranded" is one accepted when no slot was left.       *)
(***************************************************************************)
EXTENDS Integers, FiniteSets

CONSTANT Clients  \* clients, each of which connects at most once

VARIABLES
  conn,     \* the connection of each client
  count,    \* g_active_conns
  draining, \* this worker's generation is over
  exited    \* the worker has left

vars == <<conn, count, draining, exited>>

-----------------------------------------------------------------------------
Init ==
  /\ conn = [c \in Clients |-> "waiting"]
  /\ count = 0
  /\ draining = FALSE
  /\ exited = FALSE

Serving == {c \in Clients : conn[c] = "served"}

Moves(c, from, to) == conn[c] = from /\ conn' = [conn EXCEPT ![c] = to]

\* A connection is taken from the queue and watched.
Accept(c) ==
  /\ ~draining /\ ~exited
  /\ count' = count + 1
  /\ UNCHANGED <<draining, exited>>
  /\ Moves(c, "waiting", "served")

\* It is taken with the pool full.
Strand(c) ==
  /\ ~draining /\ ~exited
  /\ UNCHANGED <<count, draining, exited>>
  /\ Moves(c, "waiting", "stranded")

\* close_client_conn: with or without an answer.
Finish(c) ==
  /\ count' = count - 1
  /\ UNCHANGED <<draining, exited>>
  /\ \E end \in {"answered", "closed"} : Moves(c, "served", end)

\* The upstream failed: closed without an answer, and not counted.
Drop(c) ==
  /\ UNCHANGED <<count, draining, exited>>
  /\ Moves(c, "served", "closed")

BeginDrain ==
  /\ ~draining /\ ~exited
  /\ draining' = TRUE
  /\ UNCHANGED <<count, exited, conn>>

\* The process ends and the kernel closes what it has left.
Exit ==
  /\ ~exited /\ draining /\ count = 0
  /\ exited' = TRUE
  /\ conn' = [c \in Clients |-> IF conn[c] \in {"served", "stranded"} THEN "closed" ELSE conn[c]]
  /\ UNCHANGED <<count, draining>>

Next ==
  \/ BeginDrain \/ Exit
  \/ \E c \in Clients : Accept(c) \/ Strand(c) \/ Finish(c) \/ Drop(c)

Spec == Init /\ [][Next]_vars

-----------------------------------------------------------------------------
(* What follows from it.                                                   *)

\* g_active_conns counts at least the connections served, so it never runs below 0
\* although Drop leaves it too high.
CountCovers == count \in Nat /\ count >= Cardinality(Serving)

\* A worker that leaves (worker.c 418) serves nobody, and nobody from then on.
ExitServesNobody == [][exited' # exited => Serving = {}]_vars
=============================================================================
