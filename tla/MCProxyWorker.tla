--------------------------- MODULE MCProxyWorker ---------------------------
(***************************************************************************)
(* ProxyWorker for TLC. Clients are interchangeable. Two states that       *)
(* differ only in the peers' ends of sockets the worker has closed are one *)
(* (View): nothing reads those ends again, and the properties speak of a   *)
(* client's reply only (NoCrossTalk) and of its state, which View keeps.   *)
(***************************************************************************)
EXTENDS ProxyWorker, TLC

Symmetry == Permutations(Clients)

ClientEnd(c) == IF Closed(c) THEN <<client[c].reply>> ELSE <<client[c]>>

UpstreamEnd(c) == IF Sockets("upstream", c) = {} THEN <<>> ELSE <<up[c]>>

View == <<workerVars, draining, resets,
          [c \in Clients |-> ClientEnd(c)], [c \in Clients |-> UpstreamEnd(c)]>>
=============================================================================
