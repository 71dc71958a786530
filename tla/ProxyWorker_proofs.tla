------------------------- MODULE ProxyWorker_proofs -------------------------
(***************************************************************************)
(* Proofs about ProxyWorker, for every set of clients and of descriptors,  *)
(* every size of the pool and every number of resets.                      *)
(***************************************************************************)
EXTENDS ProxyWorker, FiniteSetTheorems, TLAPS

-----------------------------------------------------------------------------
(* The inductive strengthenings of the properties.                         *)

\* For TypeOK, SocketsOwned and NoCrossTalk: what a descriptor that is in use serves,
\* a worker that has left its loop has no event left to handle, and g_active_conns counts
\* at least the busy slots.
FilesOK ==
  \A f \in Fds : IF files[f].kind = "free" THEN files[f] = NoFile ELSE files[f].of \in Clients

ActiveCovers == active >= Cardinality(Busy)

ConnInv ==
  /\ TypeOK /\ FilesOK
  /\ exited => BatchDone
  /\ SocketsOwned /\ ActiveCovers /\ NoCrossTalk

\* For ImplementsConns, the clients behind ConnOf: a client's socket is there while its
\* connection is open and unanswered, it has one, and a busy slot's is watched.
ClientsInv ==
  /\ \A c \in Clients : client[c].st # "accepted" => client[c].reply = NoClient
  /\ \A f \in Fds : files[f].kind = "client" =>
       client[files[f].of].st = "accepted" /\ client[files[f].of].reply = NoClient
  /\ \A f, g \in Fds :
       files[f].kind = "client" /\ files[g].kind = "client" /\ files[f].of = files[g].of => f = g
  /\ ~exited => \A s \in Busy : files[pool[s].fd].ev # {}

-----------------------------------------------------------------------------
(* Slots and what they hold.                                               *)

\* There are finitely many slots, so the busy ones can be counted.
LEMMA BusyFinite == IsFiniteSet(Busy) /\ Cardinality(Busy) \in Nat
<1>1. IsFiniteSet(Slots)
  BY FS_Interval, SizesAssumption DEF Slots
<1>2. Busy \subseteq Slots
  BY DEF Busy
<1> QED
  BY <1>1, <1>2, FS_Subset, FS_CardinalityType

\* No descriptor is 0 or -1.
LEMMA FdsPositive == 0 \notin Fds /\ -1 \notin Fds /\ \A f \in Fds : f \in Nat /\ f > 0
BY FdsAssumption

\* A slot that proxy_get finds for a descriptor is busy, and its sockets are those
\* of one client.
LEMMA OwnerBusy ==
  ASSUME TypeOK, FilesOK, SocketsOwned, ~exited, NEW f \in Fds, NEW s \in Slots,
         s \in Matching(f)
  PROVE  s \in Busy
<1>1. f \in Held(s)
  BY DEF Matching, Held
<1>2. s \notin Busy => pool[s].fd = 0 /\ pool[s].ufd \notin Fds
  BY DEF Busy, SocketsOwned
<1> QED
  BY <1>1, <1>2, FdsPositive DEF Held

LEMMA BusyOwns ==
  ASSUME TypeOK, FilesOK, SocketsOwned, ~exited, NEW s \in Busy
  PROVE  /\ s \in Slots
         /\ pool[s].fd \in Fds /\ pool[s].fd > 0
         /\ files[pool[s].fd].kind = "client"
         /\ Peer(s) \in Clients
         /\ pool[s].st = "READING_REQ" => pool[s].ufd = -1
         /\ pool[s].st # "READING_REQ" => /\ pool[s].ufd \in Fds
                                          /\ files[pool[s].ufd].kind = "upstream"
                                          /\ Request(s) = Peer(s)
<1>1. s \in Slots /\ pool[s].fd # 0
  BY DEF Busy
<1>2. pool[s].fd \in Fds
  BY <1>1 DEF TypeOK, SlotType
<1>3. Owns(s)
  BY DEF SocketsOwned
<1>4. files[pool[s].fd].kind = "client" /\ files[pool[s].fd].of \in Clients
  BY <1>2, <1>3 DEF Owns, FilesOK
<1> QED
  BY <1>1, <1>2, <1>3, <1>4, FdsPositive DEF Owns, Peer, Request

\* Closing both sockets of a busy slot and freeing it.
LEMMA CloseEffect ==
  ASSUME TypeOK, FilesOK, SocketsOwned, ~exited, ~exited', NEW s \in Busy,
         CloseBoth(s), ProxyFree(s)
  PROVE  /\ pool' \in [Slots -> SlotType]
         /\ files' \in [Fds -> FileType]
         /\ FilesOK'
         /\ SocketsOwned'
         /\ Cardinality(Busy)' = Cardinality(Busy) - 1
         /\ Cardinality(Busy) >= 1
<1>1. NoFile \in FileType /\ NoFile.kind = "free" /\ NoFile.ev = {}
  BY DEF NoFile, File, FileType
<1>2. /\ pool' \in [Slots -> SlotType]
      /\ pool'[s].fd = 0 /\ pool'[s].ufd = -1
      /\ \A r \in Slots \ {s} : pool'[r] = pool[r]
  BY DEF ProxyFree, TypeOK, SlotType, Busy
<1>3. files' \in [Fds -> FileType]
  BY <1>1 DEF CloseBoth, TypeOK
<1>4. \A f \in Fds : files'[f] = IF f \in Held(s) THEN NoFile ELSE files[f]
  BY DEF CloseBoth
<1>5. FilesOK'
  BY <1>1, <1>4 DEF FilesOK
<1>6. Busy' = Busy \ {s}
  BY <1>2 DEF Busy
<1>7. \A r \in Busy' : /\ r \in Busy /\ r # s /\ Held(r)' = Held(r)
                       /\ \A f \in Held(r) \cap Fds : files'[f] = files[f]
  <2> SUFFICES ASSUME NEW r \in Busy'
               PROVE  /\ r \in Busy /\ r # s /\ Held(r)' = Held(r)
                      /\ \A f \in Held(r) \cap Fds : files'[f] = files[f]
    OBVIOUS
  <2>1. r \in Busy /\ r # s /\ pool'[r] = pool[r]
    BY <1>2, <1>6 DEF Busy
  <2>2. Held(r) \cap Held(s) \cap Fds = {}
    BY <2>1 DEF SocketsOwned
  <2> QED
    BY <2>1, <2>2, <1>4 DEF Held
<1>8. \A r \in Busy' : Owns(r)'
  <2> SUFFICES ASSUME NEW r \in Busy' PROVE Owns(r)'
    OBVIOUS
  <2>1. r \in Busy /\ r # s /\ \A f \in Held(r) \cap Fds : files'[f] = files[f]
    BY <1>7
  <2>2. Owns(r) /\ pool[r].fd \in Fds
    BY <2>1, BusyOwns DEF SocketsOwned
  <2>3. pool'[r] = pool[r]
    BY <1>2, <2>1 DEF Busy
  <2> QED
    BY <2>1, <2>2, <2>3 DEF Owns, Held, Peer, Request
<1>9. \A r \in Slots \ Busy' : pool'[r].ufd \notin Fds
  BY <1>2, <1>6, FdsPositive DEF SocketsOwned
<1>10. \A r, q \in Busy' : r # q => Held(r)' \cap Held(q)' \cap Fds = {}
  BY <1>7 DEF SocketsOwned
<1>11. \A f \in Fds : files'[f].ev # {} => \E r \in Busy' : f \in Held(r)'
  <2> SUFFICES ASSUME NEW f \in Fds, files'[f].ev # {}
               PROVE  \E r \in Busy' : f \in Held(r)'
    OBVIOUS
  <2>1. f \notin Held(s) /\ files[f].ev # {}
    BY <1>1, <1>4
  <2>2. PICK r \in Busy : f \in Held(r)
    BY <2>1 DEF SocketsOwned
  <2> QED
    BY <2>1, <2>2, <1>6, <1>7
<1>12. SocketsOwned'
  BY <1>8, <1>9, <1>10, <1>11 DEF SocketsOwned
<1>13. Cardinality(Busy \ {s}) = Cardinality(Busy) - 1 /\ Cardinality(Busy \ {s}) \in Nat
  <2>1. IsFiniteSet(Busy \ {s})
    BY BusyFinite, FS_RemoveElement
  <2> QED
    BY <2>1, BusyFinite, FS_RemoveElement, FS_CardinalityType
<1>14. Cardinality(Busy) >= 1
  BY <1>13, BusyFinite
<1> QED
  BY <1>2, <1>3, <1>5, <1>6, <1>12, <1>13, <1>14

\* A free descriptor is held by no slot and watched by nobody.
LEMMA FreeUnheld ==
  ASSUME TypeOK, FilesOK, SocketsOwned, ~exited, NEW f \in FreeFds
  PROVE  /\ f \in Fds /\ f # 0
         /\ files[f].kind = "free" /\ files[f].ev = {}
         /\ \A r \in Busy : f \notin Held(r)
<1>1. f \in Fds /\ files[f] = NoFile
  BY DEF FreeFds
<1>2. files[f].kind = "free" /\ files[f].ev = {}
  BY <1>1 DEF NoFile, File
<1>3. ASSUME NEW r \in Busy PROVE f \notin Held(r)
  <2>1. files[pool[r].fd].kind = "client"
    BY BusyOwns
  <2>2. pool[r].ufd = -1 \/ files[pool[r].ufd].kind = "upstream"
    BY BusyOwns
  <2> QED
    BY <1>1, <1>2, <2>1, <2>2, FdsPositive DEF Held
<1> QED
  BY <1>1, <1>2, <1>3, FdsPositive

\* A free slot takes a new client socket.
LEMMA AcceptEffect ==
  ASSUME TypeOK, FilesOK, SocketsOwned, ~exited, ~exited', NEW c \in Clients,
         NEW f \in FreeFds, NEW s \in Slots \ Busy,
         pool' = [pool EXCEPT ![s] = [fd |-> f, ufd |-> -1, st |-> "READING_REQ"]],
         files' = [files EXCEPT ![f] = File("client", c, {"IN"})]
  PROVE  /\ pool' \in [Slots -> SlotType]
         /\ files' \in [Fds -> FileType]
         /\ FilesOK'
         /\ SocketsOwned'
         /\ Cardinality(Busy)' = Cardinality(Busy) + 1
<1>f. /\ f \in Fds /\ f # 0 /\ files[f].ev = {}
      /\ \A r \in Busy : f \notin Held(r)
  BY FreeUnheld
<1>1. /\ File("client", c, {"IN"}) \in FileType
      /\ File("client", c, {"IN"}).kind = "client" /\ File("client", c, {"IN"}).of = c
  BY DEF File, FileType, Flags
<1>2. /\ pool' \in [Slots -> SlotType]
      /\ pool'[s].fd = f /\ pool'[s].ufd = -1 /\ pool'[s].st = "READING_REQ"
      /\ \A r \in Slots \ {s} : pool'[r] = pool[r]
  BY <1>f DEF TypeOK, SlotType
<1>3. /\ files' \in [Fds -> FileType]
      /\ files'[f] = File("client", c, {"IN"})
      /\ \A g \in Fds \ {f} : files'[g] = files[g]
  BY <1>1, <1>f DEF TypeOK
<1>4. FilesOK'
  BY <1>1, <1>3 DEF FilesOK
<1>5. Busy' = Busy \cup {s} /\ s \notin Busy
  BY <1>2, <1>f DEF Busy
<1>6. \A r \in Busy : /\ r # s /\ pool'[r] = pool[r] /\ Held(r)' = Held(r)
                      /\ \A g \in Held(r) \cap Fds : files'[g] = files[g]
  BY <1>2, <1>3, <1>5, <1>f DEF Held, Busy
<1>7. Held(s)' = {f, -1}
  BY <1>2 DEF Held
<1>8. \A r \in Busy' : Owns(r)'
  <2> SUFFICES ASSUME NEW r \in Busy' PROVE Owns(r)'
    OBVIOUS
  <2>1. CASE r = s
    BY <2>1, <1>1, <1>2, <1>3 DEF Owns
  <2>2. CASE r # s
    <3>1. r \in Busy /\ Owns(r) /\ pool[r].fd \in Fds
      BY <2>2, <1>5, BusyOwns DEF SocketsOwned
    <3> QED
      BY <3>1, <1>6 DEF Owns, Held, Peer, Request
  <2> QED
    BY <2>1, <2>2
<1>9. \A r \in Slots \ Busy' : pool'[r].ufd \notin Fds
  BY <1>2, <1>5 DEF SocketsOwned
<1>10. \A r, q \in Busy' : r # q => Held(r)' \cap Held(q)' \cap Fds = {}
  BY <1>5, <1>6, <1>7, <1>f, FdsPositive DEF SocketsOwned
<1>11. \A g \in Fds : files'[g].ev # {} => \E r \in Busy' : g \in Held(r)'
  BY <1>3, <1>5, <1>6, <1>7 DEF SocketsOwned
<1>12. SocketsOwned'
  BY <1>8, <1>9, <1>10, <1>11 DEF SocketsOwned
<1>13. Cardinality(Busy \cup {s}) = Cardinality(Busy) + 1
  BY <1>5, BusyFinite, FS_AddElement
<1> QED
  BY <1>2, <1>3, <1>4, <1>5, <1>12, <1>13

\* A busy slot takes an upstream socket next to its client's.
LEMMA ConnectEffect ==
  ASSUME TypeOK, FilesOK, SocketsOwned, ~exited, ~exited', NEW u \in FreeFds,
         NEW s \in Busy, pool[s].st = "READING_REQ",
         pool' = [pool EXCEPT ![s].ufd = u, ![s].st = "CONNECTING_UPSTREAM"],
         files' = [files EXCEPT ![u] = File("upstream", Peer(s), {"OUT", "IN"})]
  PROVE  /\ pool' \in [Slots -> SlotType]
         /\ files' \in [Fds -> FileType]
         /\ FilesOK'
         /\ SocketsOwned'
         /\ Cardinality(Busy)' = Cardinality(Busy)
<1>s. /\ s \in Slots /\ pool[s].fd \in Fds /\ pool[s].ufd = -1 /\ Peer(s) \in Clients
      /\ files[pool[s].fd].kind = "client"
  BY BusyOwns
<1>f. /\ u \in Fds /\ u # 0 /\ files[u].ev = {}
      /\ \A r \in Busy : u \notin Held(r)
  BY FreeUnheld
<1> DEFINE file == File("upstream", Peer(s), {"OUT", "IN"})
<1>1. file \in FileType /\ file.kind = "upstream" /\ file.of = Peer(s)
  BY <1>s DEF File, FileType, Flags
<1> HIDE DEF file
<1>2. /\ pool' \in [Slots -> SlotType]
      /\ pool'[s].fd = pool[s].fd /\ pool'[s].ufd = u
      /\ pool'[s].st = "CONNECTING_UPSTREAM"
      /\ \A r \in Slots \ {s} : pool'[r] = pool[r]
  BY <1>s, <1>f DEF TypeOK, SlotType
<1>3. /\ files' \in [Fds -> FileType]
      /\ files'[u] = file
      /\ \A g \in Fds \ {u} : files'[g] = files[g]
  BY <1>1, <1>f DEF TypeOK, file
<1>4. FilesOK'
  BY <1>1, <1>3, <1>s DEF FilesOK
<1>5. Busy' = Busy
  BY <1>2, <1>s DEF Busy
<1>6. \A r \in Busy : /\ r # s => pool'[r] = pool[r] /\ Held(r)' = Held(r)
                      /\ \A g \in Held(r) \cap Fds : files'[g] = files[g]
  BY <1>2, <1>3, <1>f DEF Held, Busy
<1>7. Held(s)' = {pool[s].fd, u} /\ Held(s) = {pool[s].fd, -1}
  BY <1>2, <1>s DEF Held
<1>8. \A r \in Busy : Owns(r)'
  <2> SUFFICES ASSUME NEW r \in Busy PROVE Owns(r)'
    OBVIOUS
  <2>1. CASE r = s
    <3>1. files'[pool[s].fd] = files[pool[s].fd]
      BY <1>6, <1>s DEF Held
    <3> QED
      BY <2>1, <3>1, <1>1, <1>2, <1>3, <1>s, <1>f DEF Owns, Peer, Request
  <2>2. CASE r # s
    <3>1. Owns(r) /\ pool[r].fd \in Fds
      BY BusyOwns DEF SocketsOwned
    <3>2. pool'[r] = pool[r] /\ files'[pool[r].fd] = files[pool[r].fd]
      BY <2>2, <3>1, <1>6 DEF Held
    <3>3. pool[r].ufd \in Fds => files'[pool[r].ufd] = files[pool[r].ufd]
      BY <1>6 DEF Held
    <3> QED
      BY <3>1, <3>2, <3>3 DEF Owns, Peer, Request
  <2> QED
    BY <2>1, <2>2
<1>9. \A r \in Slots \ Busy : pool'[r].ufd \notin Fds
  BY <1>2 DEF SocketsOwned
<1>10. \A r, q \in Busy : r # q => Held(r)' \cap Held(q)' \cap Fds = {}
  <2> SUFFICES ASSUME NEW r \in Busy, NEW q \in Busy, r # q
               PROVE  Held(r)' \cap Held(q)' \cap Fds = {}
    OBVIOUS
  <2>1. Held(r) \cap Held(q) \cap Fds = {}
    BY DEF SocketsOwned
  <2>2. u \notin Held(r) /\ u \notin Held(q)
    BY <1>f
  <2> QED
    BY <2>1, <2>2, <1>6, <1>7
<1>11. \A g \in Fds : files'[g].ev # {} => \E r \in Busy : g \in Held(r)'
  <2> SUFFICES ASSUME NEW g \in Fds, files'[g].ev # {}
               PROVE  \E r \in Busy : g \in Held(r)'
    OBVIOUS
  <2>1. CASE g = u
    BY <2>1, <1>7
  <2>2. CASE g # u
    <3>1. PICK r \in Busy : g \in Held(r)
      BY <2>2, <1>3 DEF SocketsOwned
    <3> QED
      BY <3>1, <1>6, <1>7, FdsPositive
  <2> QED
    BY <2>1, <2>2
<1>12. SocketsOwned'
  BY <1>5, <1>8, <1>9, <1>10, <1>11 DEF SocketsOwned
<1> QED
  BY <1>2, <1>3, <1>4, <1>5, <1>12

\* A change of epoll's flags and of the state of a connected slot.
LEMMA WriteEffect ==
  ASSUME TypeOK, FilesOK, SocketsOwned, ~exited, ~exited', NEW s \in Busy,
         pool[s].st = "CONNECTING_UPSTREAM",
         pool' = [pool EXCEPT ![s].st = "READING_UPSTREAM"],
         files' = [files EXCEPT ![pool[s].ufd].ev = {"IN"}]
  PROVE  /\ pool' \in [Slots -> SlotType]
         /\ files' \in [Fds -> FileType]
         /\ FilesOK'
         /\ SocketsOwned'
         /\ Cardinality(Busy)' = Cardinality(Busy)
<1>s. /\ s \in Slots /\ pool[s].fd \in Fds /\ pool[s].ufd \in Fds
      /\ files[pool[s].ufd].kind = "upstream" /\ pool[s].st # "READING_REQ"
  BY BusyOwns
<1>2. /\ pool' \in [Slots -> SlotType]
      /\ pool'[s].st = "READING_UPSTREAM"
      /\ \A r \in Slots : pool'[r].fd = pool[r].fd /\ pool'[r].ufd = pool[r].ufd
      /\ \A r \in Slots \ {s} : pool'[r] = pool[r]
  BY <1>s DEF TypeOK, SlotType
<1>3. /\ files' \in [Fds -> FileType]
      /\ \A g \in Fds : files'[g].kind = files[g].kind /\ files'[g].of = files[g].of
      /\ \A g \in Fds \ {pool[s].ufd} : files'[g] = files[g]
  BY <1>s DEF TypeOK, FileType, Flags
<1>4. FilesOK'
  BY <1>3, <1>s DEF FilesOK
<1>5. Busy' = Busy
  BY <1>2 DEF Busy
<1>6. \A r \in Slots : Held(r)' = Held(r)
  BY <1>2 DEF Held
<1>8. \A r \in Busy : Owns(r)'
  <2> SUFFICES ASSUME NEW r \in Busy PROVE Owns(r)'
    OBVIOUS
  <2>1. /\ Owns(r) /\ pool[r].fd \in Fds /\ r \in Slots
        /\ pool[r].st = "READING_REQ" <=> pool'[r].st = "READING_REQ"
    BY <1>2, <1>s, BusyOwns DEF SocketsOwned
  <2> QED
    BY <2>1, <1>2, <1>3 DEF Owns, Peer, Request
<1>9. \A r \in Slots \ Busy : pool'[r].ufd \notin Fds
  BY <1>2 DEF SocketsOwned
<1>10. \A r, q \in Busy : r # q => Held(r)' \cap Held(q)' \cap Fds = {}
  BY <1>6 DEF SocketsOwned, Busy
<1>11. \A g \in Fds : files'[g].ev # {} => \E r \in Busy : g \in Held(r)'
  <2> SUFFICES ASSUME NEW g \in Fds, files'[g].ev # {}
               PROVE  \E r \in Busy : g \in Held(r)'
    OBVIOUS
  <2>1. CASE g = pool[s].ufd
    BY <2>1, <1>6, <1>s DEF Held
  <2>2. CASE g # pool[s].ufd
    BY <2>2, <1>3, <1>6 DEF SocketsOwned, Busy
  <2> QED
    BY <2>1, <2>2
<1>12. SocketsOwned'
  BY <1>5, <1>8, <1>9, <1>10, <1>11 DEF SocketsOwned
<1> QED
  BY <1>2, <1>3, <1>4, <1>5, <1>12

-----------------------------------------------------------------------------
(* The handlers keep the invariant. Core is what they can disturb of it.   *)

Core ==
  /\ pool \in [Slots -> SlotType] /\ active \in Nat /\ files \in [Fds -> FileType]
  /\ client \in [Clients -> ClientType] /\ up \in [Clients -> UpType]
  /\ FilesOK /\ SocketsOwned /\ ActiveCovers /\ NoCrossTalk

\* Nothing of it changes when the tables do not.
LEMMA SameTables ==
  ASSUME ConnInv, UNCHANGED <<pool, active, files>>, exited' = exited,
         client' \in [Clients -> ClientType], up' \in [Clients -> UpType], NoCrossTalk'
  PROVE  Core'
<1>1. Busy' = Busy /\ FilesOK'
  BY DEF Busy, ConnInv, FilesOK
<1>2. SocketsOwned'
  BY <1>1 DEF ConnInv, SocketsOwned, Owns, Held, Peer, Request
<1> QED
  BY <1>1, <1>2 DEF Core, ConnInv, TypeOK, ActiveCovers

\* close_client_conn, whatever is recorded of the client and the upstream.
LEMMA CloseKeeps ==
  ASSUME ConnInv, ~exited, exited' = exited, NEW s \in Busy, CloseClientConn(s),
         client' \in [Clients -> ClientType], up' \in [Clients -> UpType], NoCrossTalk'
  PROVE  Core'
<1>1. /\ pool' \in [Slots -> SlotType] /\ files' \in [Fds -> FileType]
      /\ FilesOK' /\ SocketsOwned'
      /\ Cardinality(Busy)' = Cardinality(Busy) - 1 /\ Cardinality(Busy) >= 1
  BY CloseEffect DEF CloseClientConn, ConnInv
<1>2. active' = active - 1
  BY BusyOwns DEF CloseClientConn, ConnInv
<1>3. active \in Nat /\ active >= Cardinality(Busy) /\ Cardinality(Busy) \in Nat
  BY BusyFinite DEF ConnInv, TypeOK, ActiveCovers
<1>4. active' \in Nat /\ ActiveCovers'
  BY <1>1, <1>2, <1>3 DEF ActiveCovers
<1> QED
  BY <1>1, <1>4 DEF Core

\* What a reply does to the record of a client.
LEMMA ReplyTyped ==
  ASSUME NEW x \in ClientType, NEW c \in Clients, NEW n \in 0 .. Pieces
  PROVE  /\ [x EXCEPT !.reply = c, !.got = n] \in ClientType
         /\ [x EXCEPT !.reply = c, !.got = n].reply = c
<1> DEFINE y == [x EXCEPT !.reply = c]
<1>1. y \in ClientType /\ y.reply = c
  BY DEF ClientType
<1>2. [y EXCEPT !.got = n] \in ClientType /\ [y EXCEPT !.got = n].reply = y.reply
  BY <1>1 DEF ClientType
<1> QED
  BY <1>1, <1>2

\* A reply recorded for the client whose request it answers.
LEMMA ReplyEffect ==
  ASSUME ConnInv, NEW c \in Clients, client'[c] \in ClientType, client'[c].reply = c,
         \A d \in Clients \ {c} : client'[d] = client[d],
         client' = [d \in Clients |-> client'[d]]
  PROVE  client' \in [Clients -> ClientType] /\ NoCrossTalk'
<1>1. \A d \in Clients : client'[d] \in ClientType
  BY DEF ConnInv, TypeOK
<1>2. \A d \in Clients : client'[d].reply \in {NoClient, d}
  BY DEF ConnInv, NoCrossTalk
<1> QED
  BY <1>1, <1>2 DEF NoCrossTalk

\* handle_client_read: the connection is closed, or gets an upstream socket.
LEMMA ClientReadKeeps ==
  ASSUME ConnInv, ~exited, exited' = exited, NEW s \in Busy,
         pool[s].st = "READING_REQ", HandleClientRead(s)
  PROVE  Core'
<1> DEFINE c == Peer(s)
<1>c. c \in Clients
  BY BusyOwns DEF ConnInv
<1> HIDE DEF c
<1>t. /\ client \in [Clients -> ClientType] /\ up \in [Clients -> UpType]
      /\ \A d \in Clients : client[d].reply \in {NoClient, d}
  BY DEF ConnInv, TypeOK, NoCrossTalk
<1>1. CASE NoRequest(s)
  <2>1. client' = [client EXCEPT ![c].rx = "none"] /\ up' = up /\ CloseClientConn(s)
    BY <1>1 DEF NoRequest, c
  <2>2. client' \in [Clients -> ClientType] /\ NoCrossTalk'
    BY <2>1, <1>c, <1>t DEF ClientType, NoCrossTalk
  <2> QED
    BY <2>1, <2>2, <1>t, CloseKeeps
<1>2. CASE AnswerLocally(s)
  <2>1. /\ client' = [client EXCEPT ![c].rx = "none", ![c].reply = c, ![c].got = Pieces]
        /\ up' = up /\ CloseClientConn(s)
    BY <1>2 DEF AnswerLocally, c
  <2>2. /\ client'[c] = [client[c] EXCEPT !.rx = "none", !.reply = c, !.got = Pieces]
        /\ \A d \in Clients \ {c} : client'[d] = client[d]
        /\ client' = [d \in Clients |-> client'[d]]
    BY <2>1, <1>c, <1>t
  <2>3. client'[c] \in ClientType /\ client'[c].reply = c
    <3>1. [client[c] EXCEPT !.rx = "none"] \in ClientType /\ Pieces \in 0 .. Pieces
      BY <1>c, <1>t, SizesAssumption DEF ClientType
    <3>2. /\ [client[c] EXCEPT !.rx = "none", !.reply = c, !.got = Pieces] \in ClientType
          /\ [client[c] EXCEPT !.rx = "none", !.reply = c, !.got = Pieces].reply = c
      BY <3>1, <1>c, ReplyTyped
    <3> QED
      BY <2>2, <3>2
  <2>4. client' \in [Clients -> ClientType] /\ NoCrossTalk'
    BY <2>2, <2>3, <1>c, ReplyEffect
  <2> QED
    BY <2>1, <2>4, <1>t, CloseKeeps
<1>3. CASE NoUpstream(s)
  <2>1. /\ client' = [client EXCEPT ![c].rx = "none"]
        /\ up' = [up EXCEPT ![c].st = "unavailable"] /\ CloseClientConn(s)
    BY <1>3 DEF NoUpstream, c
  <2>2. client' \in [Clients -> ClientType] /\ NoCrossTalk'
    BY <2>1, <1>c, <1>t DEF ClientType, NoCrossTalk
  <2>3. up' \in [Clients -> UpType]
    BY <2>1, <1>c, <1>t DEF UpType
  <2> QED
    BY <2>1, <2>2, <2>3, CloseKeeps
<1>4. CASE ConnectUpstream(s)
  <2>1. PICK u \in FreeFds :
          /\ client' = [client EXCEPT ![c].rx = "none"]
          /\ up' = [up EXCEPT ![c].st = "connecting"]
          /\ pool' = [pool EXCEPT ![s].ufd = u, ![s].st = "CONNECTING_UPSTREAM"]
          /\ files' = [files EXCEPT ![u] = File("upstream", Peer(s), {"OUT", "IN"})]
          /\ active' = active
    BY <1>4 DEF ConnectUpstream, c
  <2>2. client' \in [Clients -> ClientType] /\ NoCrossTalk'
    BY <2>1, <1>c, <1>t DEF ClientType, NoCrossTalk
  <2>3. up' \in [Clients -> UpType]
    BY <2>1, <1>c, <1>t DEF UpType
  <2>4. /\ pool' \in [Slots -> SlotType] /\ files' \in [Fds -> FileType]
        /\ FilesOK' /\ SocketsOwned' /\ Cardinality(Busy)' = Cardinality(Busy)
    BY <2>1, ConnectEffect DEF ConnInv
  <2> QED
    BY <2>1, <2>2, <2>3, <2>4 DEF Core, ConnInv, TypeOK, ActiveCovers
<1> QED
  BY <1>1, <1>2, <1>3, <1>4 DEF HandleClientRead

\* handle_upstream_writable: closed, written, or left alone.
LEMMA UpstreamWritableKeeps ==
  ASSUME ConnInv, ~exited, exited' = exited, NEW s \in Busy,
         pool[s].st = "CONNECTING_UPSTREAM", HandleUpstreamWritable(s)
  PROVE  Core'
<1> DEFINE u == Request(s)
<1>u. u \in Clients
  BY BusyOwns DEF ConnInv
<1> HIDE DEF u
<1>t. client' = client /\ client \in [Clients -> ClientType] /\ up \in [Clients -> UpType]
  BY DEF ConnInv, TypeOK, HandleUpstreamWritable
<1>r. NoCrossTalk'
  BY <1>t DEF ConnInv, NoCrossTalk
<1>1. CASE CloseClientConn(s) /\ UNCHANGED up
  BY <1>1, <1>t, <1>r, CloseKeeps
<1>2. CASE RequestWritten(s) /\ UNCHANGED active
  <2>1. /\ up' = [up EXCEPT ![u].st = "serving"]
        /\ pool' = [pool EXCEPT ![s].st = "READING_UPSTREAM"]
        /\ files' = [files EXCEPT ![pool[s].ufd].ev = {"IN"}]
        /\ active' = active
    BY <1>2 DEF RequestWritten, u
  <2>2. up' \in [Clients -> UpType]
    BY <2>1, <1>u, <1>t DEF UpType
  <2>3. /\ pool' \in [Slots -> SlotType] /\ files' \in [Fds -> FileType]
        /\ FilesOK' /\ SocketsOwned' /\ Cardinality(Busy)' = Cardinality(Busy)
    BY <2>1, WriteEffect DEF ConnInv
  <2> QED
    BY <2>1, <2>2, <2>3, <1>t, <1>r DEF Core, ConnInv, TypeOK, ActiveCovers
<1>3. CASE ErrorSwallowed(s) \/ NothingWritten(s)
  <2>1. UNCHANGED <<pool, active, files>> /\ up' \in [Clients -> UpType]
    BY <1>3, <1>u, <1>t DEF ErrorSwallowed, NothingWritten, UpType, u
  <2> QED
    BY <2>1, <1>t, <1>r, SameTables
<1> QED
  BY <1>1, <1>2, <1>3 DEF HandleUpstreamWritable

\* handle_upstream_readable: forwarded to the client the response is for, dropped,
\* closed, or left alone.
LEMMA UpstreamReadableKeeps ==
  ASSUME ConnInv, ~exited, exited' = exited, NEW s \in Busy,
         pool[s].st = "READING_UPSTREAM", HandleUpstreamReadable(s)
  PROVE  Core'
<1> DEFINE u == Request(s)
<1>u. u \in Clients /\ Peer(s) = u
  BY BusyOwns DEF ConnInv
<1> HIDE DEF u
<1>t. /\ client \in [Clients -> ClientType] /\ up \in [Clients -> UpType]
      /\ \A d \in Clients : client[d].reply \in {NoClient, d}
      /\ up' = up
  BY DEF ConnInv, TypeOK, NoCrossTalk, HandleUpstreamReadable
<1>1. CASE /\ \E n \in 1 .. up[u].sent : client' = [client EXCEPT ![u].reply = u, ![u].got = n]
           /\ CloseClientConn(s)
  <2>1. PICK n \in 1 .. up[u].sent : client' = [client EXCEPT ![u].reply = u, ![u].got = n]
    BY <1>1
  <2>2. n \in 0 .. Pieces
    BY <1>u, <1>t, SizesAssumption DEF UpType
  <2>3. /\ client'[u] = [client[u] EXCEPT !.reply = u, !.got = n]
        /\ \A d \in Clients \ {u} : client'[d] = client[d]
        /\ client' = [d \in Clients |-> client'[d]]
    BY <2>1, <1>u, <1>t
  <2>4. client'[u] \in ClientType /\ client'[u].reply = u
    <3>1. u \in Clients /\ client[u] \in ClientType
      BY <1>u, <1>t
    <3>2. /\ [client[u] EXCEPT !.reply = u, !.got = n] \in ClientType
          /\ [client[u] EXCEPT !.reply = u, !.got = n].reply = u
      BY <3>1, <2>2, ReplyTyped
    <3> QED
      BY <2>3, <3>2
  <2>5. client' \in [Clients -> ClientType] /\ NoCrossTalk'
    BY <2>3, <2>4, <1>u, ReplyEffect
  <2> QED
    BY <2>5, <1>1, <1>t, CloseKeeps
<1>2. CASE DropConn(s) /\ UNCHANGED client
  <2>1. /\ pool' \in [Slots -> SlotType] /\ files' \in [Fds -> FileType]
        /\ FilesOK' /\ SocketsOwned' /\ Cardinality(Busy)' = Cardinality(Busy) - 1
    BY <1>2, CloseEffect DEF DropConn, ConnInv
  <2>2. active' = active /\ active \in Nat /\ ActiveCovers'
    BY <1>2, <2>1, BusyFinite DEF DropConn, ConnInv, TypeOK, ActiveCovers
  <2> QED
    BY <1>2, <2>1, <2>2, <1>t DEF Core, NoCrossTalk
<1>3. CASE CloseClientConn(s) /\ UNCHANGED client
  BY <1>3, <1>t, CloseKeeps DEF NoCrossTalk
<1>4. CASE UNCHANGED <<pool, active, files, client>>
  BY <1>4, <1>t, SameTables DEF NoCrossTalk
<1> QED
  BY <1>1, <1>2, <1>3, <1>4, <1>u DEF HandleUpstreamReadable, u

-----------------------------------------------------------------------------
(* The invariant.                                                          *)

LEMMA ConnInit == Init => ConnInv
<1> SUFFICES ASSUME Init PROVE ConnInv
  OBVIOUS
<1> USE DEF Init
<1>1. \A f \in Fds : files[f] = NoFile /\ NoFile.ev = {} /\ NoFile.kind = "free"
  BY DEF NoFile, File
<1>2. NoFile \in FileType
  BY DEF NoFile, File, FileType
<1>3. /\ pool \in [Slots -> SlotType] /\ client \in [Clients -> ClientType]
      /\ up \in [Clients -> UpType] /\ resets \in 0 .. MaxResets
  BY SizesAssumption DEF SlotType, ClientType, UpType
<1>4. TypeOK
  BY <1>2, <1>3 DEF TypeOK
<1>5. FilesOK
  BY <1>1 DEF FilesOK
<1>6. Busy = {} /\ \A s \in Slots : pool[s].ufd \notin Fds
  BY FdsPositive DEF Busy
<1>7. SocketsOwned
  BY <1>1, <1>6 DEF SocketsOwned
<1>8. ActiveCovers
  BY <1>6, FS_EmptySet DEF ActiveCovers
<1>9. NoCrossTalk
  BY DEF NoCrossTalk
<1> QED
  BY <1>4, <1>5, <1>7, <1>8, <1>9 DEF ConnInv, BatchDone

\* What is left to show for a step of the worker that stays in its loop.
LEMMA FromCore ==
  ASSUME ConnInv, Core', ~exited', batch' \in [Fds \cup {ListenFd} -> SUBSET Flags],
         draining' \in BOOLEAN, resets' \in 0 .. MaxResets, exited' \in BOOLEAN
  PROVE  ConnInv'
BY DEF Core, ConnInv, TypeOK

LEMMA ListenKeeps ==
  ASSUME ConnInv, ListenEvent
  PROVE  ConnInv'
<1>1. ~exited
  BY FdsAssumption DEF ListenEvent, ConnInv, BatchDone
<1>2. /\ exited' = exited /\ draining' = draining /\ up' = up /\ resets' = resets
      /\ batch' \in [Fds \cup {ListenFd} -> SUBSET Flags]
  BY DEF ListenEvent, ConnInv, TypeOK
<1>t. client \in [Clients -> ClientType] /\ up \in [Clients -> UpType]
  BY DEF ConnInv, TypeOK
<1>3. CASE UNCHANGED <<pool, active, files, client>>
  <2>1. Core'
    BY <1>1, <1>2, <1>3, <1>t, SameTables DEF ConnInv, NoCrossTalk
  <2> QED
    BY <2>1, <1>1, <1>2, FromCore DEF ConnInv, TypeOK
<1>4. ASSUME NEW c \in Clients, NEW f \in FreeFds,
             client' = [client EXCEPT ![c].st = "accepted"],
             \/ \E s \in Slots :
                  /\ ProxyAlloc(s)
                  /\ pool' = [pool EXCEPT ![s] = [fd |-> f, ufd |-> -1, st |-> "READING_REQ"]]
                  /\ active' = active + 1
                  /\ files' = [files EXCEPT ![f] = File("client", c, {"IN"})]
             \/ /\ Busy = Slots
                /\ files' = [files EXCEPT ![f] = File("client", c, {})]
                /\ UNCHANGED <<pool, active>>
      PROVE  ConnInv'
  <2>1. client' \in [Clients -> ClientType]
    BY <1>4, <1>t DEF ClientType
  <2>2. NoCrossTalk'
    BY <1>4, <1>t DEF ConnInv, NoCrossTalk, ClientType
  <2>3. CASE \E s \in Slots :
               /\ ProxyAlloc(s)
               /\ pool' = [pool EXCEPT ![s] = [fd |-> f, ufd |-> -1, st |-> "READING_REQ"]]
               /\ active' = active + 1
               /\ files' = [files EXCEPT ![f] = File("client", c, {"IN"})]
    <3>1. /\ pool' \in [Slots -> SlotType] /\ files' \in [Fds -> FileType]
          /\ FilesOK' /\ SocketsOwned' /\ Cardinality(Busy)' = Cardinality(Busy) + 1
      BY <2>3, <1>1, <1>2, <1>4, AcceptEffect DEF ProxyAlloc, ConnInv
    <3>2. active' \in Nat /\ ActiveCovers'
      BY <2>3, <3>1, BusyFinite DEF ConnInv, TypeOK, ActiveCovers
    <3>3. Core'
      BY <3>1, <3>2, <2>1, <2>2, <1>2, <1>t DEF Core
    <3> QED
      BY <3>3, <1>1, <1>2, FromCore DEF ConnInv, TypeOK
  <2>4. CASE /\ Busy = Slots
             /\ files' = [files EXCEPT ![f] = File("client", c, {})]
             /\ UNCHANGED <<pool, active>>
    <3>1. /\ File("client", c, {}) \in FileType /\ File("client", c, {}).kind = "client"
          /\ File("client", c, {}).of = c /\ File("client", c, {}).ev = {}
      BY DEF File, FileType
    <3>2. /\ f \in Fds /\ \A r \in Busy : f \notin Held(r)
      BY <1>1, FreeUnheld DEF ConnInv
    <3>3. /\ files' \in [Fds -> FileType]
          /\ files'[f] = File("client", c, {})
          /\ \A g \in Fds \ {f} : files'[g] = files[g]
      BY <2>4, <3>1, <3>2 DEF ConnInv, TypeOK
    <3>4. FilesOK'
      BY <3>1, <3>3 DEF ConnInv, FilesOK
    <3>5. Busy' = Busy /\ \A r \in Slots : Held(r)' = Held(r)
      BY <2>4 DEF Busy, Held
    <3>6. \A r \in Busy : Owns(r)'
      <4> SUFFICES ASSUME NEW r \in Busy PROVE Owns(r)'
        OBVIOUS
      <4>1. Owns(r) /\ pool[r].fd \in Fds
        BY <1>1, BusyOwns DEF ConnInv, SocketsOwned
      <4>2. \A g \in Held(r) \cap Fds : files'[g] = files[g]
        BY <3>2, <3>3
      <4> QED
        BY <2>4, <4>1, <4>2 DEF Owns, Held, Peer, Request
    <3>7. SocketsOwned'
      BY <1>1, <2>4, <3>1, <3>3, <3>5, <3>6 DEF ConnInv, SocketsOwned, Busy
    <3>8. Core'
      BY <2>4, <3>3, <3>4, <3>5, <3>7, <2>1, <2>2, <1>2, <1>t
         DEF Core, ConnInv, TypeOK, ActiveCovers
    <3> QED
      BY <3>8, <1>1, <1>2, FromCore DEF ConnInv, TypeOK
  <2> QED
    BY <1>4, <2>3, <2>4
<1> QED
  BY <1>3, <1>4 DEF ListenEvent, Accept

LEMMA SocketKeeps ==
  ASSUME ConnInv, NEW f \in Fds, SocketEvent(f)
  PROVE  ConnInv'
<1>1. ~exited
  BY DEF SocketEvent, ConnInv, BatchDone
<1>2. /\ exited' = exited /\ draining' = draining /\ resets' = resets
      /\ batch' \in [Fds \cup {ListenFd} -> SUBSET Flags]
  BY DEF SocketEvent, ConnInv, TypeOK
<1>3. CASE UNCHANGED <<pool, active, files, client, up>>
  <2>1. Core'
    BY <1>1, <1>2, <1>3, SameTables DEF ConnInv, TypeOK, NoCrossTalk
  <2> QED
    BY <2>1, <1>1, <1>2, FromCore DEF ConnInv, TypeOK
<1>4. ASSUME NEW s \in Slots, ProxyGet(f, s),
             \/ pool[s].st = "READING_REQ" /\ HandleClientRead(s)
             \/ pool[s].st = "CONNECTING_UPSTREAM" /\ HandleUpstreamWritable(s)
             \/ pool[s].st = "READING_UPSTREAM" /\ HandleUpstreamReadable(s)
      PROVE  ConnInv'
  <2>1. s \in Busy
    BY <1>1, <1>4, OwnerBusy DEF ProxyGet, ConnInv
  <2>2. Core'
    BY <2>1, <1>1, <1>2, <1>4, ClientReadKeeps, UpstreamWritableKeeps, UpstreamReadableKeeps
  <2> QED
    BY <2>2, <1>1, <1>2, FromCore DEF ConnInv, TypeOK
<1> QED
  BY <1>3, <1>4 DEF SocketEvent

LEMMA TurnKeeps ==
  ASSUME ConnInv, Turn
  PROVE  ConnInv'
<1>1. CASE exited' = TRUE /\ files' = [f \in Fds |-> NoFile] /\ UNCHANGED batch
  <2>1. NoFile \in FileType /\ NoFile.kind = "free"
    BY DEF NoFile, File, FileType
  <2>2. files' \in [Fds -> FileType] /\ FilesOK'
    BY <1>1, <2>1 DEF FilesOK
  <2>3. TypeOK'
    BY <1>1, <2>2 DEF Turn, ConnInv, TypeOK, peerVars
  <2>4. BatchDone' /\ SocketsOwned'
    BY <1>1 DEF Turn, BatchDone, SocketsOwned
  <2>5. ActiveCovers' /\ NoCrossTalk'
    BY DEF Turn, ConnInv, ActiveCovers, NoCrossTalk, Busy, peerVars
  <2> QED
    BY <2>2, <2>3, <2>4, <2>5 DEF ConnInv
<1>2. CASE batch' = Ready /\ UNCHANGED <<exited, files>>
  <2>1. Ready \in [Fds \cup {ListenFd} -> SUBSET Flags]
    BY DEF Ready, ConnInv, TypeOK, FileType, Flags
  <2>2. ~exited' /\ UNCHANGED <<pool, active, files, draining, client, up, resets, exited>>
    BY <1>2 DEF Turn, peerVars
  <2>3. Core'
    BY <2>2, SameTables DEF ConnInv, TypeOK, NoCrossTalk
  <2> QED
    BY <1>2, <2>1, <2>2, <2>3, FromCore DEF ConnInv, TypeOK
<1> QED
  BY <1>1, <1>2 DEF Turn

LEMMA EnvironmentKeeps ==
  ASSUME ConnInv, Environment
  PROVE  ConnInv'
<1>t. client \in [Clients -> ClientType] /\ up \in [Clients -> UpType]
  BY DEF ConnInv, TypeOK
<1>1. /\ UNCHANGED workerVars
      /\ client' \in [Clients -> ClientType] /\ up' \in [Clients -> UpType]
      /\ \A d \in Clients : client'[d].reply = client[d].reply
      /\ draining' \in BOOLEAN /\ resets' \in 0 .. MaxResets
  <2>1. CASE BeginDrain
    BY <2>1 DEF BeginDrain, peerVars, ConnInv, TypeOK
  <2>2. ASSUME NEW c \in Clients, Connect(c) \/ Send(c) \/ Leave(c)
        PROVE  <1>1!:
    <3>1. /\ UNCHANGED <<workerVars, draining, up, resets>>
          /\ \/ client' = [client EXCEPT ![c].st = "backlog"]
             \/ \E r \in {"part", "whole"} : client' = [client EXCEPT ![c].rx = r]
             \/ \E r \in {"none", client[c].rx} :
                  client' = [client EXCEPT ![c].fin = TRUE, ![c].rx = r]
      BY <2>2 DEF Connect, Send, Leave
    <3>2. /\ client' \in [Clients -> ClientType]
          /\ \A d \in Clients : client'[d].reply = client[d].reply
      <4>1. client[c] \in ClientType
        BY <1>t
      <4>2. CASE client' = [client EXCEPT ![c].st = "backlog"]
        BY <4>2, <1>t DEF ClientType
      <4>3. ASSUME NEW r \in {"part", "whole"}, client' = [client EXCEPT ![c].rx = r]
            PROVE  <3>2!:
        BY <4>3, <1>t DEF ClientType
      <4>4. ASSUME NEW r \in {"none", client[c].rx},
                   client' = [client EXCEPT ![c].fin = TRUE, ![c].rx = r]
            PROVE  <3>2!:
        <5>1. r \in {"none", "part", "whole"}
          BY <4>1 DEF ClientType
        <5> QED
          BY <4>4, <5>1, <1>t, ZenonT(60) DEF ClientType
      <4> QED
        BY <3>1, <4>2, <4>3, <4>4
    <3> QED
      BY <3>1, <3>2, <1>t DEF ConnInv, TypeOK
  <2>3. ASSUME NEW c \in Clients, Upstream(c) \/ UpstreamEnds(c)
        PROVE  <1>1!:
    <3>1. CASE UpstreamAnswers(c)
      BY <3>1, <1>t DEF UpstreamAnswers, UpType, ConnInv, TypeOK
    <3>2. CASE UpstreamSends(c)
      BY <3>2, <1>t, SizesAssumption DEF UpstreamSends, UpType, ConnInv, TypeOK
    <3>3. CASE UpstreamEnds(c)
      BY <3>3, <1>t, SizesAssumption DEF UpstreamEnds, UpType, ConnInv, TypeOK
    <3> QED
      BY <2>3, <3>1, <3>2, <3>3 DEF Upstream
  <2> QED
    BY <2>1, <2>2, <2>3 DEF Environment
<1>2. NoCrossTalk'
  BY <1>1 DEF ConnInv, NoCrossTalk
<1>3. Core'
  BY <1>1, <1>2, SameTables DEF workerVars
<1> QED
  BY <1>1, <1>3 DEF Core, ConnInv, TypeOK, workerVars, BatchDone

LEMMA ConnStep == ConnInv /\ [Next]_vars => ConnInv'
<1> SUFFICES ASSUME ConnInv, [Next]_vars PROVE ConnInv'
  OBVIOUS
<1>1. CASE UNCHANGED vars
  <2>1. Core'
    BY <1>1, SameTables DEF vars, workerVars, peerVars, ConnInv, TypeOK, NoCrossTalk
  <2> QED
    BY <1>1, <2>1 DEF vars, workerVars, peerVars, Core, ConnInv, TypeOK, BatchDone
<1> QED
  BY <1>1, ListenKeeps, SocketKeeps, TurnKeeps, EnvironmentKeeps DEF Next, Worker

LEMMA ConnInvariant == Spec => []ConnInv
BY ConnInit, ConnStep, PTL DEF Spec

\* Every variable keeps its type; the count of connections never falls below 0.
THEOREM TypeCorrect == Spec => []TypeOK
<1>1. ConnInv => TypeOK
  BY DEF ConnInv
<1> QED
  BY <1>1, ConnInvariant, PTL

\* Whatever descriptor numbers are reused and whatever events are left over, a slot
\* holds the sockets of one client and a watched socket has one slot.
THEOREM Ownership == Spec => []SocketsOwned
<1>1. ConnInv => SocketsOwned
  BY DEF ConnInv
<1> QED
  BY <1>1, ConnInvariant, PTL

\* A response never reaches another client.
THEOREM OwnResponse == Spec => []NoCrossTalk
<1>1. ConnInv => NoCrossTalk
  BY DEF ConnInv
<1> QED
  BY <1>1, ConnInvariant, PTL

\* A worker that leaves its loop closes no connection it is watching.
THEOREM CleanExit == Spec => ExitAbortsNothing
<1>1. ConnInv /\ [Next]_vars => [exited' # exited => \A f \in Fds : files[f].ev = {}]_vars
  <2> SUFFICES ASSUME ConnInv, Next, exited' # exited
               PROVE  \A f \in Fds : files[f].ev = {}
    BY DEF vars, workerVars
  <2>1. ~exited /\ LeaveLoop
    BY DEF Next, Worker, Environment, Turn, ListenEvent, SocketEvent, BeginDrain, Connect, Send,
           Leave, Upstream, UpstreamAnswers, UpstreamSends, UpstreamEnds, workerVars
  <2>2. Cardinality(Busy) = 0
    BY <2>1, BusyFinite DEF LeaveLoop, ConnInv, ActiveCovers
  <2>3. Busy = {}
    BY <2>2, BusyFinite, FS_EmptySet
  <2> QED
    BY <2>1, <2>3 DEF ConnInv, SocketsOwned
<1> QED
  BY <1>1, ConnInvariant, PTL DEF Spec, ExitAbortsNothing

-----------------------------------------------------------------------------
(* ProxyWorker implements WorkerConns.                                      *)

RefInv == ConnInv /\ ClientsInv

\* What WorkerConns sees of a client does not change when its sockets, whether they
\* are watched, and its reply stay the same.
LEMMA ConnSame ==
  ASSUME NEW c \in Clients,
         client'[c].st = "accepted" <=> client[c].st = "accepted",
         client'[c].reply = client[c].reply,
         \A f \in Fds : /\ files'[f].kind = "client" <=> files[f].kind = "client"
                        /\ files[f].kind = "client" => /\ files'[f].of = files[f].of
                                                       /\ files'[f].ev = files[f].ev
  PROVE  ConnOf(c)' = ConnOf(c)
<1>1. Sockets("client", c)' = Sockets("client", c)
  BY DEF Sockets
<1>2. \A f \in Sockets("client", c) : files'[f].ev = files[f].ev
  BY DEF Sockets
<1> QED
  BY <1>1, <1>2 DEF ConnOf

\* A step that leaves the clients' sockets and replies alone is none of WorkerConns.
LEMMA KeepRefines ==
  ASSUME RefInv, ~exited, ~exited', client' \in [Clients -> ClientType],
         \A f \in Fds : /\ files'[f].kind = "client" <=> files[f].kind = "client"
                        /\ files[f].kind = "client" => /\ files'[f].of = files[f].of
                                                       /\ files'[f].ev = files[f].ev,
         \A c \in Clients : /\ client'[c].st = "accepted" <=> client[c].st = "accepted"
                            /\ client'[c].reply = client[c].reply,
         \A s \in Slots : pool'[s].fd = pool[s].fd
  PROVE  ClientsInv' /\ \A c \in Clients : ConnOf(c)' = ConnOf(c)
<1>1. \A c \in Clients : ConnOf(c)' = ConnOf(c)
  BY ConnSame
<1>2. Busy' = Busy /\ \A s \in Busy : files[pool[s].fd].kind = "client" /\ pool[s].fd \in Fds /\ s \in Slots
  BY BusyOwns DEF Busy, RefInv, ConnInv
<1>3. \A f \in Fds : files[f].kind = "client" => files[f].of \in Clients
  BY DEF RefInv, ConnInv, FilesOK
<1> QED
  BY <1>1, <1>2, <1>3 DEF RefInv, ClientsInv

\* What a slot serves, WorkerConns sees as served.
LEMMA BusyServed ==
  ASSUME RefInv, ~exited, NEW s \in Busy
  PROVE  /\ Peer(s) \in Clients /\ client[Peer(s)].st = "accepted"
         /\ client[Peer(s)].reply = NoClient
         /\ ConnOf(Peer(s)) = "served"
         /\ \A f \in Fds : files[f].kind = "client" /\ files[f].of = Peer(s) => f = pool[s].fd
<1>1. /\ pool[s].fd \in Fds /\ files[pool[s].fd].kind = "client" /\ Peer(s) \in Clients
  BY BusyOwns DEF RefInv, ConnInv
<1>2. /\ client[Peer(s)].st = "accepted" /\ client[Peer(s)].reply = NoClient
      /\ files[pool[s].fd].ev # {}
      /\ \A f \in Fds : files[f].kind = "client" /\ files[f].of = Peer(s) => f = pool[s].fd
  BY <1>1 DEF RefInv, ClientsInv, Peer
<1>3. pool[s].fd \in Sockets("client", Peer(s))
  BY <1>1 DEF Sockets, Peer
<1> QED
  BY <1>1, <1>2, <1>3 DEF ConnOf

\* Closing both sockets of a slot and freeing it is Finish when it is counted, and Drop
\* when it is not and nothing was answered.
LEMMA CloseRefines ==
  ASSUME RefInv, ~exited, exited' = exited, draining' = draining, NEW s \in Busy,
         CloseBoth(s), ProxyFree(s), client' \in [Clients -> ClientType],
         \A c \in Clients : client'[c].st = client[c].st,
         \A c \in Clients \ {Peer(s)} : client'[c].reply = client[c].reply,
         client'[Peer(s)].reply \in {NoClient, Peer(s)}
  PROVE  /\ ClientsInv'
         /\ active' = active - 1 => Conns!Finish(Peer(s))
         /\ active' = active /\ client'[Peer(s)].reply = NoClient => Conns!Drop(Peer(s))
<1> DEFINE conn == [c \in Clients |-> ConnOf(c)]
<1>d. PICK p \in Clients : p = Peer(s)
  BY BusyServed
<1>p. /\ client[p].st = "accepted" /\ ConnOf(p) = "served"
      /\ client[p].reply = NoClient
      /\ \A f \in Fds : files[f].kind = "client" /\ files[f].of = p => f = pool[s].fd
      /\ s \in Slots
  BY <1>d, BusyServed DEF Busy
<1>f. \A f \in Fds : files'[f] = IF f \in Held(s) THEN NoFile ELSE files[f]
  BY DEF CloseBoth
<1>n. NoFile.kind = "free"
  BY DEF NoFile, File
<1>o. /\ pool[s].fd \in Fds /\ pool[s].fd \in Held(s) /\ files[pool[s].fd].of = p
      /\ \A f \in Held(s) \cap Fds : files[f].kind = "client" => f = pool[s].fd
  BY <1>d, BusyOwns, FdsPositive DEF RefInv, ConnInv, Held, Peer
<1>2. \A f \in Fds : files'[f].kind = "client" => /\ files'[f] = files[f] /\ f \notin Held(s)
                                                  /\ files[f].of # p
  BY <1>f, <1>n, <1>o, <1>p
<1>1. Sockets("client", p)' = {}
  BY <1>2 DEF Sockets
<1>3. \A c \in Clients \ {p} : Sockets("client", c)' = Sockets("client", c)
  BY <1>f, <1>n, <1>o, <1>2 DEF Sockets
<1>4. \A c \in Clients \ {p} : ConnOf(c)' = ConnOf(c)
  <2> SUFFICES ASSUME NEW c \in Clients \ {p} PROVE ConnOf(c)' = ConnOf(c)
    OBVIOUS
  <2>1. \A f \in Sockets("client", c)' : files'[f].ev = files[f].ev
    BY <1>2 DEF Sockets
  <2> QED
    BY <2>1, <1>3, <1>d DEF ConnOf
<1>5. ConnOf(p)' = IF client'[p].reply = NoClient THEN "closed" ELSE "answered"
  BY <1>1, <1>p, <1>d DEF ConnOf
<1>6. conn[p] = "served" /\ conn' = [conn EXCEPT ![p] = ConnOf(p)']
  BY <1>4, <1>p
<1>7. ClientsInv'
  <2>1. \A f \in Fds : files[f].kind = "client" => files[f].of \in Clients
    BY DEF RefInv, ConnInv, FilesOK
  <2>2. \A c \in Clients : client'[c].st # "accepted" => client'[c].reply = NoClient
    BY <1>p, <1>d DEF RefInv, ClientsInv
  <2>3. \A f \in Fds : files'[f].kind = "client" =>
          client'[files'[f].of].st = "accepted" /\ client'[files'[f].of].reply = NoClient
    BY <1>2, <2>1, <1>d DEF RefInv, ClientsInv
  <2>4. \A f, g \in Fds :
          files'[f].kind = "client" /\ files'[g].kind = "client" /\ files'[f].of = files'[g].of
            => f = g
    BY <1>2 DEF RefInv, ClientsInv
  <2>5. \A r \in Busy' : files'[pool'[r].fd].ev # {}
    <3> SUFFICES ASSUME NEW r \in Busy' PROVE files'[pool'[r].fd].ev # {}
      OBVIOUS
    <3>1. r \in Busy /\ r # s /\ pool'[r] = pool[r]
      BY <1>p DEF Busy, ProxyFree, RefInv, ConnInv, TypeOK, SlotType
    <3>2. pool[r].fd \in Fds /\ Held(r) \cap Held(s) \cap Fds = {}
      BY <3>1, BusyOwns DEF RefInv, ConnInv, SocketsOwned
    <3>3. pool[r].fd \notin Held(s)
      BY <3>2 DEF Held
    <3> QED
      BY <3>1, <3>2, <3>3, <1>f DEF RefInv, ClientsInv
  <2> QED
    BY <2>2, <2>3, <2>4, <2>5 DEF ClientsInv
<1>8. active' = active - 1 => Conns!Finish(p)
  BY <1>5, <1>6 DEF Conns!Finish, Conns!Moves
<1>9. active' = active /\ client'[p].reply = NoClient => Conns!Drop(p)
  BY <1>5, <1>6 DEF Conns!Drop, Conns!Moves
<1> QED
  BY <1>7, <1>8, <1>9, <1>d

\* What WorkerConns sees of an accept, with a slot and without one.
LEMMA AcceptRefines ==
  ASSUME RefInv, ~exited, ~exited', exited' = exited, draining' = draining, ~draining,
         NEW c \in Clients, NEW f \in FreeFds, client[c].st = "backlog",
         client' = [client EXCEPT ![c].st = "accepted"],
         \/ \E s \in Slots \ Busy :
              /\ pool' = [pool EXCEPT ![s] = [fd |-> f, ufd |-> -1, st |-> "READING_REQ"]]
              /\ active' = active + 1
              /\ files' = [files EXCEPT ![f] = File("client", c, {"IN"})]
         \/ files' = [files EXCEPT ![f] = File("client", c, {})] /\ UNCHANGED <<pool, active>>
  PROVE  ClientsInv' /\ (Conns!Accept(c) \/ Conns!Strand(c))
<1> DEFINE conn == [d \in Clients |-> ConnOf(d)]
<1>0. PICK ev \in {{"IN"}, {}} :
        /\ files' = [files EXCEPT ![f] = File("client", c, ev)]
        /\ \/ /\ ev = {"IN"} /\ active' = active + 1
              /\ \E s \in Slots \ Busy :
                   pool' = [pool EXCEPT ![s] = [fd |-> f, ufd |-> -1, st |-> "READING_REQ"]]
           \/ ev = {} /\ UNCHANGED <<pool, active>>
  OBVIOUS
<1>t. /\ client \in [Clients -> ClientType] /\ files \in [Fds -> FileType]
      /\ pool \in [Slots -> SlotType]
  BY DEF RefInv, ConnInv, TypeOK
<1>f. /\ f \in Fds /\ f # 0 /\ files[f].kind = "free"
      /\ \A r \in Busy : f \notin Held(r)
  BY FreeUnheld DEF RefInv, ConnInv
<1>1. /\ files'[f].kind = "client" /\ files'[f].of = c /\ files'[f].ev = ev
      /\ \A g \in Fds \ {f} : files'[g] = files[g]
  BY <1>0, <1>t, <1>f DEF File
<1>2. /\ client'[c].st = "accepted" /\ client'[c].reply = client[c].reply
      /\ client[c].reply = NoClient
      /\ \A d \in Clients \ {c} : client'[d] = client[d]
  BY <1>t DEF ClientType, RefInv, ClientsInv
<1>3. \A g \in Fds : files[g].kind = "client" => files[g].of \in Clients /\ files[g].of # c
  BY DEF RefInv, ConnInv, FilesOK, ClientsInv
<1>4. ConnOf(c) = "waiting"
  BY DEF ConnOf
<1>5. Sockets("client", c)' = {f}
  BY <1>1, <1>3, <1>f DEF Sockets
<1>6. ConnOf(c)' = IF ev = {} THEN "stranded" ELSE "served"
  BY <1>1, <1>2, <1>5 DEF ConnOf
<1>7. \A d \in Clients \ {c} : ConnOf(d)' = ConnOf(d)
  <2> SUFFICES ASSUME NEW d \in Clients \ {c} PROVE ConnOf(d)' = ConnOf(d)
    OBVIOUS
  <2>1. Sockets("client", d)' = Sockets("client", d)
    BY <1>1, <1>f DEF Sockets
  <2>2. \A g \in Sockets("client", d) : files'[g].ev = files[g].ev
    BY <1>1, <1>f DEF Sockets
  <2> QED
    BY <2>1, <2>2, <1>2 DEF ConnOf
<1>8. conn[c] = "waiting" /\ conn' = [conn EXCEPT ![c] = ConnOf(c)']
  BY <1>4, <1>7
<1>9. \A r \in Busy' : \/ r \in Busy /\ pool'[r] = pool[r]
                       \/ pool'[r].fd = f /\ ev = {"IN"}
  BY <1>0, <1>t DEF Busy
<1>10. \A r \in Busy' : files'[pool'[r].fd].ev # {}
  <2> SUFFICES ASSUME NEW r \in Busy' PROVE files'[pool'[r].fd].ev # {}
    OBVIOUS
  <2>1. CASE r \in Busy /\ pool'[r] = pool[r]
    <3>1. pool[r].fd \in Fds \ {f} /\ files[pool[r].fd].ev # {}
      BY <2>1, <1>f, BusyOwns DEF Held, RefInv, ConnInv, ClientsInv
    <3> QED
      BY <2>1, <3>1, <1>1
  <2>2. CASE pool'[r].fd = f /\ ev = {"IN"}
    BY <2>2, <1>1
  <2> QED
    BY <2>1, <2>2, <1>9
<1>11. ClientsInv'
  <2>1. \A d \in Clients : client'[d].st # "accepted" => client'[d].reply = NoClient
    BY <1>2 DEF RefInv, ClientsInv
  <2>2. \A g \in Fds : files'[g].kind = "client" =>
          client'[files'[g].of].st = "accepted" /\ client'[files'[g].of].reply = NoClient
    BY <1>1, <1>2, <1>3 DEF RefInv, ClientsInv
  <2>3. \A g, h \in Fds :
          files'[g].kind = "client" /\ files'[h].kind = "client" /\ files'[g].of = files'[h].of
            => g = h
    BY <1>1, <1>3 DEF RefInv, ClientsInv
  <2> QED
    BY <2>1, <2>2, <2>3, <1>10 DEF ClientsInv
<1>12. CASE ev = {}
  <2>1. conn' = [conn EXCEPT ![c] = "stranded"] /\ active' = active
    BY <1>0, <1>6, <1>8, <1>12
  <2> QED
    BY <2>1, <1>8, <1>11 DEF Conns!Strand, Conns!Moves
<1>13. CASE ev = {"IN"}
  <2>1. conn' = [conn EXCEPT ![c] = "served"] /\ active' = active + 1
    BY <1>0, <1>6, <1>8, <1>13
  <2> QED
    BY <2>1, <1>8, <1>11 DEF Conns!Accept, Conns!Moves
<1> QED
  BY <1>12, <1>13

\* A step of WorkerConns, or none.
Refines == ClientsInv' /\ [Conns!Next]_(Conns!vars)

LEMMA NoStep ==
  ASSUME \A c \in Clients : ConnOf(c)' = ConnOf(c), active' = active, draining' = draining,
         exited' = exited, ClientsInv'
  PROVE  Refines
BY DEF Refines, Conns!vars

LEMMA ListenRefines ==
  ASSUME RefInv, ListenEvent
  PROVE  Refines
<1>1. ~exited /\ exited' = exited /\ draining' = draining
  BY FdsAssumption DEF ListenEvent, RefInv, ConnInv, BatchDone
<1>2. CASE UNCHANGED <<pool, active, files, client>>
  <2>1. ClientsInv' /\ \A c \in Clients : ConnOf(c)' = ConnOf(c)
    BY <1>1, <1>2, KeepRefines DEF RefInv, ConnInv, TypeOK
  <2> QED
    BY <1>1, <1>2, <2>1, NoStep
<1>3. CASE ~draining /\ \E c \in Clients : client[c].st = "backlog" /\ FreeFds # {}
  <2>1. PICK c \in Clients, f \in FreeFds :
          /\ client[c].st = "backlog"
          /\ client' = [client EXCEPT ![c].st = "accepted"]
          /\ \/ \E s \in Slots \ Busy :
                  /\ pool' = [pool EXCEPT ![s] = [fd |-> f, ufd |-> -1, st |-> "READING_REQ"]]
                  /\ active' = active + 1
                  /\ files' = [files EXCEPT ![f] = File("client", c, {"IN"})]
             \/ files' = [files EXCEPT ![f] = File("client", c, {})] /\ UNCHANGED <<pool, active>>
    BY <1>3 DEF ListenEvent, Accept, ProxyAlloc
  <2>2. ClientsInv' /\ (Conns!Accept(c) \/ Conns!Strand(c))
    BY <1>1, <1>3, <2>1, AcceptRefines
  <2> QED
    BY <2>2 DEF Refines, Conns!Next
<1> QED
  BY <1>2, <1>3 DEF ListenEvent, Accept

LEMMA CloseConnRefines ==
  ASSUME RefInv, ConnInv', ~exited, exited' = exited, draining' = draining, NEW s \in Busy,
         CloseClientConn(s),
         \A c \in Clients : client'[c].st = client[c].st,
         \A c \in Clients \ {Peer(s)} : client'[c].reply = client[c].reply,
         client'[Peer(s)].reply \in {NoClient, Peer(s)}
  PROVE  Refines
<1>1. CloseBoth(s) /\ ProxyFree(s) /\ active' = active - 1
  BY BusyOwns DEF CloseClientConn, RefInv, ConnInv
<1>2. ClientsInv' /\ Conns!Finish(Peer(s)) /\ Peer(s) \in Clients
  BY <1>1, CloseRefines, BusyServed DEF ConnInv, TypeOK
<1> QED
  BY <1>2 DEF Refines, Conns!Next

\* handle_client_read: the connection ends, or stays as it is with an upstream socket.
LEMMA ClientReadRefines ==
  ASSUME RefInv, ConnInv', ~exited, exited' = exited, draining' = draining, NEW s \in Busy,
         pool[s].st = "READING_REQ", HandleClientRead(s)
  PROVE  Refines
<1>t. /\ client \in [Clients -> ClientType] /\ client' \in [Clients -> ClientType]
      /\ files \in [Fds -> FileType] /\ pool \in [Slots -> SlotType]
  BY DEF RefInv, ConnInv, TypeOK
<1>p. PICK p \in Clients : p = Peer(s) /\ client[p].reply = NoClient
  BY BusyServed
<1>1. CASE NoRequest(s) \/ AnswerLocally(s) \/ NoUpstream(s)
  <2>1. CASE client' = [client EXCEPT ![p].rx = "none"]
    <3>1. \A c \in Clients : client'[c].st = client[c].st /\ client'[c].reply = client[c].reply
      BY <2>1, <1>t DEF ClientType
    <3> QED
      BY <3>1, <1>1, <1>p, CloseConnRefines DEF NoRequest, AnswerLocally, NoUpstream
  <2>2. CASE client' = [client EXCEPT ![p].rx = "none", ![p].reply = p, ![p].got = Pieces]
    <3>1. /\ client'[p].st = client[p].st /\ client'[p].reply = p
          /\ \A c \in Clients \ {p} : client'[c] = client[c]
      BY <2>2, <1>t DEF ClientType
    <3> QED
      BY <3>1, <1>1, <1>p, CloseConnRefines DEF NoRequest, AnswerLocally, NoUpstream
  <2> QED
    BY <2>1, <2>2, <1>1, <1>p DEF NoRequest, AnswerLocally, NoUpstream
<1>2. CASE ConnectUpstream(s)
  <2>1. PICK u \in FreeFds :
          /\ client' = [client EXCEPT ![p].rx = "none"]
          /\ pool' = [pool EXCEPT ![s].ufd = u, ![s].st = "CONNECTING_UPSTREAM"]
          /\ files' = [files EXCEPT ![u] = File("upstream", p, {"OUT", "IN"})]
          /\ active' = active
    BY <1>2, <1>p DEF ConnectUpstream
  <2>2. u \in Fds /\ files[u].kind = "free"
    BY FreeUnheld DEF RefInv, ConnInv
  <2>3. files'[u].kind = "upstream" /\ \A f \in Fds \ {u} : files'[f] = files[f]
    BY <2>1, <2>2, <1>t DEF File
  <2>4. \A c \in Clients : client'[c].st = client[c].st /\ client'[c].reply = client[c].reply
    BY <2>1, <1>t DEF ClientType
  <2>5. \A r \in Slots : pool'[r].fd = pool[r].fd
    BY <2>1, <1>t DEF SlotType
  <2>6. ClientsInv' /\ \A c \in Clients : ConnOf(c)' = ConnOf(c)
    BY <2>2, <2>3, <2>4, <2>5, <1>t, KeepRefines
  <2> QED
    BY <2>1, <2>6, NoStep
<1> QED
  BY <1>1, <1>2 DEF HandleClientRead

\* handle_upstream_writable: the connection ends, or the request is written.
LEMMA UpstreamWritableRefines ==
  ASSUME RefInv, ConnInv', ~exited, exited' = exited, draining' = draining, NEW s \in Busy,
         pool[s].st = "CONNECTING_UPSTREAM", HandleUpstreamWritable(s)
  PROVE  Refines
<1>t. /\ client \in [Clients -> ClientType] /\ client' = client
      /\ files \in [Fds -> FileType] /\ pool \in [Slots -> SlotType]
  BY DEF RefInv, ConnInv, TypeOK, HandleUpstreamWritable
<1>p. Peer(s) \in Clients /\ client[Peer(s)].reply = NoClient
  BY BusyServed
<1>1. CASE CloseClientConn(s)
  BY <1>1, <1>t, <1>p, CloseConnRefines
<1>2. CASE RequestWritten(s) /\ UNCHANGED active
  <2>1. files[pool[s].ufd].kind = "upstream" /\ pool[s].ufd \in Fds
    BY BusyOwns DEF RefInv, ConnInv
  <2>2. \A f \in Fds : /\ files'[f].kind = files[f].kind
                       /\ f # pool[s].ufd => files'[f] = files[f]
    BY <1>2, <1>t, <2>1 DEF RequestWritten, FileType
  <2>3. \A r \in Slots : pool'[r].fd = pool[r].fd
    BY <1>2, <1>t DEF RequestWritten, SlotType
  <2>4. ClientsInv' /\ \A c \in Clients : ConnOf(c)' = ConnOf(c)
    BY <2>1, <2>2, <2>3, <1>t, KeepRefines
  <2> QED
    BY <1>2, <2>4, NoStep
<1>3. CASE ErrorSwallowed(s) \/ NothingWritten(s)
  <2>1. UNCHANGED <<pool, active, files>>
    BY <1>3 DEF ErrorSwallowed, NothingWritten
  <2>2. ClientsInv' /\ \A c \in Clients : ConnOf(c)' = ConnOf(c)
    BY <2>1, <1>t, KeepRefines
  <2> QED
    BY <2>1, <2>2, NoStep
<1> QED
  BY <1>1, <1>2, <1>3 DEF HandleUpstreamWritable

\* handle_upstream_readable: answered, closed, dropped, or left waiting.
LEMMA UpstreamReadableRefines ==
  ASSUME RefInv, ConnInv', ~exited, exited' = exited, draining' = draining, NEW s \in Busy,
         pool[s].st = "READING_UPSTREAM", HandleUpstreamReadable(s)
  PROVE  Refines
<1>t. client \in [Clients -> ClientType] /\ client' \in [Clients -> ClientType]
  BY DEF RefInv, ConnInv, TypeOK
<1>p. PICK p \in Clients : p = Peer(s) /\ p = Request(s) /\ client[p].reply = NoClient
  BY BusyServed, BusyOwns DEF RefInv, ConnInv
<1>1. CASE CloseClientConn(s) /\ UNCHANGED client
  BY <1>1, <1>p, CloseConnRefines
<1>2. CASE /\ \E n \in 1 .. up[p].sent : client' = [client EXCEPT ![p].reply = p, ![p].got = n]
           /\ CloseClientConn(s)
  <2>1. /\ client'[p].st = client[p].st /\ client'[p].reply = p
        /\ \A c \in Clients \ {p} : client'[c] = client[c]
    BY <1>2, <1>t DEF ClientType
  <2> QED
    BY <2>1, <1>2, <1>p, CloseConnRefines
<1>3. CASE DropConn(s) /\ UNCHANGED client
  <2>1. ClientsInv' /\ Conns!Drop(p)
    BY <1>3, <1>p, <1>t, CloseRefines DEF DropConn
  <2> QED
    BY <2>1 DEF Refines, Conns!Next
<1>4. CASE UNCHANGED <<pool, active, files, client>>
  <2>1. ClientsInv' /\ \A c \in Clients : ConnOf(c)' = ConnOf(c)
    BY <1>4, <1>t, KeepRefines
  <2> QED
    BY <1>4, <2>1, NoStep
<1> QED
  BY <1>1, <1>2, <1>3, <1>4, <1>p DEF HandleUpstreamReadable

LEMMA SocketRefines ==
  ASSUME RefInv, ConnInv', NEW f \in Fds, SocketEvent(f)
  PROVE  Refines
<1>1. ~exited /\ exited' = exited /\ draining' = draining
  BY DEF SocketEvent, RefInv, ConnInv, BatchDone
<1>2. CASE UNCHANGED <<pool, active, files, client, up>>
  <2>1. ClientsInv' /\ \A c \in Clients : ConnOf(c)' = ConnOf(c)
    BY <1>1, <1>2, KeepRefines DEF RefInv, ConnInv, TypeOK
  <2> QED
    BY <1>1, <1>2, <2>1, NoStep
<1>3. ASSUME NEW s \in Slots, ProxyGet(f, s),
             \/ pool[s].st = "READING_REQ" /\ HandleClientRead(s)
             \/ pool[s].st = "CONNECTING_UPSTREAM" /\ HandleUpstreamWritable(s)
             \/ pool[s].st = "READING_UPSTREAM" /\ HandleUpstreamReadable(s)
      PROVE  Refines
  <2>1. s \in Busy
    BY <1>1, <1>3, OwnerBusy DEF ProxyGet, RefInv, ConnInv
  <2> QED
    BY <2>1, <1>1, <1>3, ClientReadRefines, UpstreamWritableRefines, UpstreamReadableRefines
<1> QED
  BY <1>2, <1>3 DEF SocketEvent

\* The exit of the worker closes whatever socket is left: WorkerConns's Exit.
LEMMA TurnRefines ==
  ASSUME RefInv, Turn
  PROVE  Refines
<1>t. /\ ~exited /\ UNCHANGED <<pool, active, draining, client>>
      /\ client \in [Clients -> ClientType]
  BY DEF Turn, peerVars, RefInv, ConnInv, TypeOK
<1>1. CASE LeaveLoop /\ exited' = TRUE /\ files' = [f \in Fds |-> NoFile]
  <2>n. NoFile.kind = "free"
    BY DEF NoFile, File
  <2>1. ClientsInv'
    BY <1>1, <1>t, <2>n DEF RefInv, ClientsInv
  <2>2. \A c \in Clients : Sockets("client", c)' = {}
    BY <1>1, <2>n DEF Sockets
  <2>3. \A c \in Clients : Sockets("client", c) # {} =>
          client[c].st = "accepted" /\ client[c].reply = NoClient
    BY DEF RefInv, ClientsInv, Sockets
  <2>4. \A c \in Clients :
          ConnOf(c)' = IF ConnOf(c) \in {"served", "stranded"} THEN "closed" ELSE ConnOf(c)
    <3> SUFFICES ASSUME NEW c \in Clients
                 PROVE  ConnOf(c)' = IF ConnOf(c) \in {"served", "stranded"} THEN "closed"
                                     ELSE ConnOf(c)
      OBVIOUS
    <3>1. CASE Sockets("client", c) = {}
      BY <3>1, <2>2, <1>t DEF ConnOf
    <3>2. CASE Sockets("client", c) # {}
      BY <3>2, <2>2, <2>3, <1>t DEF ConnOf
    <3> QED
      BY <3>1, <3>2
  <2>5. Conns!Exit
    BY <1>1, <1>t, <2>4 DEF Conns!Exit, LeaveLoop
  <2> QED
    BY <2>1, <2>5 DEF Refines, Conns!Next
<1>2. CASE UNCHANGED <<exited, files>>
  <2>1. ClientsInv' /\ \A c \in Clients : ConnOf(c)' = ConnOf(c)
    BY <1>2, <1>t, KeepRefines
  <2> QED
    BY <1>2, <1>t, <2>1, NoStep
<1> QED
  BY <1>1, <1>2 DEF Turn

LEMMA EnvironmentRefines ==
  ASSUME RefInv, Environment \/ UNCHANGED vars
  PROVE  Refines
<1>t. client \in [Clients -> ClientType]
  BY DEF RefInv, ConnInv, TypeOK
<1>1. /\ UNCHANGED workerVars
      /\ \A c \in Clients : /\ client'[c].st = "accepted" <=> client[c].st = "accepted"
                            /\ client'[c].reply = client[c].reply
  <2>1. CASE \E c \in Clients : Connect(c) \/ Send(c) \/ Leave(c)
    <3>1. PICK c \in Clients : Connect(c) \/ Send(c) \/ Leave(c)
      BY <2>1
    <3>2. CASE Connect(c)
      BY <3>2, <1>t DEF Connect, ClientType
    <3>3. CASE Send(c)
      BY <3>3, <1>t DEF Send, ClientType
    <3>4. CASE Leave(c)
      BY <3>4, <1>t DEF Leave, ClientType
    <3> QED
      BY <3>1, <3>2, <3>3, <3>4
  <2>2. CASE BeginDrain \/ UNCHANGED vars \/ \E c \in Clients : Upstream(c) \/ UpstreamEnds(c)
    BY <2>2 DEF BeginDrain, vars, peerVars, Upstream, UpstreamAnswers, UpstreamSends, UpstreamEnds
  <2> QED
    BY <2>1, <2>2 DEF Environment
<1>2. \A c \in Clients : ConnOf(c)' = ConnOf(c)
  BY <1>1, ConnSame DEF workerVars
<1>3. ClientsInv'
  <2>1. \A f \in Fds : files[f].kind = "client" => files[f].of \in Clients
    BY DEF RefInv, ConnInv, FilesOK
  <2>2. Busy' = Busy
    BY <1>1 DEF Busy, workerVars
  <2> QED
    BY <1>1, <2>1, <2>2 DEF RefInv, ClientsInv, workerVars
<1>4. UNCHANGED draining \/ Conns!BeginDrain
  BY <1>1, <1>2 DEF Environment, BeginDrain, Connect, Send, Leave, Upstream, UpstreamAnswers,
                    UpstreamSends, UpstreamEnds, vars, workerVars, Conns!BeginDrain
<1> QED
  BY <1>1, <1>2, <1>3, <1>4, NoStep DEF workerVars, Refines, Conns!Next

LEMMA RefStep == RefInv /\ [Next]_vars => RefInv' /\ [Conns!Next]_(Conns!vars)
<1> SUFFICES ASSUME RefInv, [Next]_vars PROVE RefInv' /\ [Conns!Next]_(Conns!vars)
  OBVIOUS
<1>1. ConnInv'
  BY ConnStep DEF RefInv
<1>2. Refines
  BY <1>1, ListenRefines, SocketRefines, TurnRefines, EnvironmentRefines DEF Next, Worker
<1> QED
  BY <1>1, <1>2 DEF RefInv, Refines

LEMMA RefInit == Init => RefInv /\ Conns!Init
<1> SUFFICES ASSUME Init PROVE RefInv /\ Conns!Init
  OBVIOUS
<1>1. \A f \in Fds : files[f].kind = "free"
  BY DEF Init, NoFile, File
<1>2. \A c \in Clients : client[c].st = "away" /\ client[c].reply = NoClient
  BY DEF Init
<1>3. ClientsInv
  BY <1>1, <1>2 DEF ClientsInv, Init, Busy
<1>4. \A c \in Clients : ConnOf(c) = "waiting"
  BY <1>2 DEF ConnOf
<1> QED
  BY <1>3, <1>4, ConnInit DEF RefInv, Conns!Init, Init

\* The worker's loop, with its descriptors, slots and left-over events, implements the
\* promise WorkerConns states of its connections.
THEOREM Refinement == Spec => ImplementsConns
BY RefInit, RefStep, PTL DEF Spec, ImplementsConns, Conns!Spec

-----------------------------------------------------------------------------
(* What follows from WorkerConns alone, and so holds of the worker's loop.   *)

View == [c \in Clients |-> ConnOf(c)]

ConnStates == {"waiting", "served", "stranded", "answered", "closed"}

ServedIn(view) == {c \in Clients : view[c] = "served"}

CountInv == View \in [Clients -> ConnStates] /\ Conns!CountCovers

LEMMA StatesFacts ==
  /\ \A s \in {"waiting", "served", "stranded", "answered", "closed"} : s \in ConnStates
  /\ "waiting" # "served" /\ "waiting" # "stranded" /\ "stranded" # "served"
  /\ \A s \in {"answered", "closed"} : s # "served" /\ "served" # s
BY DEF ConnStates

\* A connection that leaves or joins the served ones changes their number by one.
LEMMA MoveCounts ==
  ASSUME IsFiniteSet(Clients), NEW old \in [Clients -> ConnStates], NEW c \in Clients,
         NEW from \in ConnStates, NEW to \in ConnStates, from # to,
         NEW new, old[c] = from, new = [old EXCEPT ![c] = to]
  PROVE  /\ new \in [Clients -> ConnStates]
         /\ Cardinality(ServedIn(old)) \in Nat /\ Cardinality(ServedIn(new)) \in Nat
         /\ from = "served" => /\ Cardinality(ServedIn(old)) > 0
                                /\ Cardinality(ServedIn(new)) = Cardinality(ServedIn(old)) - 1
         /\ from # "served" => Cardinality(ServedIn(new)) <= Cardinality(ServedIn(old)) + 1
<1>1. /\ new \in [Clients -> ConnStates] /\ new[c] = to
      /\ \A d \in Clients \ {c} : new[d] = old[d]
  OBVIOUS
<1>2. IsFiniteSet(ServedIn(old)) /\ Cardinality(ServedIn(old)) \in Nat
  <2>1. ServedIn(old) \subseteq Clients
    BY DEF ServedIn
  <2> QED
    BY <2>1, FS_Subset, FS_CardinalityType
<1>6. Cardinality(ServedIn(new)) \in Nat
  <2>1. ServedIn(new) \subseteq Clients
    BY DEF ServedIn
  <2> QED
    BY <2>1, FS_Subset, FS_CardinalityType
<1>3. CASE from = "served"
  <2>1. ServedIn(new) = ServedIn(old) \ {c} /\ c \in ServedIn(old)
    BY <1>1, <1>3 DEF ServedIn
  <2>2. Cardinality(ServedIn(old)) # 0
    BY <1>2, <2>1, FS_EmptySet
  <2>3. Cardinality(ServedIn(new)) = Cardinality(ServedIn(old)) - 1
    BY <1>2, <2>1, FS_RemoveElement
  <2> QED
    BY <2>2, <2>3, <1>1, <1>2, <1>3, <1>6
<1>4. CASE from # "served" /\ to = "served"
  <2>1. ServedIn(new) = ServedIn(old) \cup {c} /\ c \notin ServedIn(old)
    BY <1>1, <1>4 DEF ServedIn
  <2>2. Cardinality(ServedIn(new)) = Cardinality(ServedIn(old)) + 1
    BY <1>2, <2>1, FS_AddElement
  <2> QED
    BY <2>2, <1>1, <1>2, <1>4, <1>6
<1>5. CASE from # "served" /\ to # "served"
  <2>1. ServedIn(new) = ServedIn(old)
    BY <1>1, <1>5 DEF ServedIn
  <2> QED
    BY <2>1, <1>1, <1>2, <1>5, <1>6
<1> QED
  BY <1>3, <1>4, <1>5, <1>6

\* A step of one connection, seen as WorkerConns sees it.
LEMMA ViewMoves ==
  ASSUME NEW c \in Clients, NEW from, NEW to, Conns!Moves(c, from, to)
  PROVE  View[c] = from /\ View' = [View EXCEPT ![c] = to]
BY DEF View, Conns!Moves

LEMMA SameCardinality == \A S : Conns!Cardinality(S) = Cardinality(S)
BY DEF Conns!Cardinality, Cardinality

LEMMA ViewServing == Conns!Serving = ServedIn(View)
BY DEF Conns!Serving, ServedIn, View

LEMMA CountStep ==
  ASSUME IsFiniteSet(Clients), CountInv, [Conns!Next]_(Conns!vars)
  PROVE  CountInv'
<1> DEFINE old == View
           new == View'
<1>1. /\ old \in [Clients -> ConnStates] /\ active \in Nat
      /\ active >= Cardinality(ServedIn(old))
  BY ViewServing, SameCardinality DEF CountInv, Conns!CountCovers
<1>2. SUFFICES /\ new \in [Clients -> ConnStates] /\ active' \in Nat
               /\ active' >= Cardinality(ServedIn(new))
  <2>1. Conns!Serving' = ServedIn(new)
    BY DEF Conns!Serving, ServedIn, View
  <2> QED
    BY <2>1, SameCardinality DEF CountInv, Conns!CountCovers
<1> HIDE DEF old, new
<1>3. ASSUME NEW c \in Clients, Conns!Accept(c)
      PROVE  /\ new \in [Clients -> ConnStates] /\ active' \in Nat
             /\ active' >= Cardinality(ServedIn(new))
  <2>1. active' = active + 1 /\ old[c] = "waiting" /\ new = [old EXCEPT ![c] = "served"]
    BY <1>3, ViewMoves DEF Conns!Accept, old, new
  <2>2. /\ new \in [Clients -> ConnStates] /\ Cardinality(ServedIn(new)) \in Nat
        /\ Cardinality(ServedIn(old)) \in Nat
        /\ Cardinality(ServedIn(new)) <= Cardinality(ServedIn(old)) + 1
    BY <1>1, <2>1, StatesFacts, MoveCounts, Zenon
  <2> QED
    BY <1>1, <2>1, <2>2
<1>4. ASSUME NEW c \in Clients, Conns!Strand(c)
      PROVE  /\ new \in [Clients -> ConnStates] /\ active' \in Nat
             /\ active' >= Cardinality(ServedIn(new))
  <2>1. active' = active /\ old[c] = "waiting" /\ new = [old EXCEPT ![c] = "stranded"]
    BY <1>4, ViewMoves DEF Conns!Strand, old, new
  <2>2. /\ new \in [Clients -> ConnStates] /\ Cardinality(ServedIn(new)) \in Nat
        /\ Cardinality(ServedIn(old)) \in Nat
        /\ ServedIn(new) = ServedIn(old)
    <3>1. new \in [Clients -> ConnStates] /\ ServedIn(new) = ServedIn(old)
      BY <1>1, <2>1, StatesFacts DEF ServedIn
    <3>2. ServedIn(old) \subseteq Clients
      BY DEF ServedIn
    <3> QED
      BY <3>1, <3>2, FS_Subset, FS_CardinalityType
  <2> QED
    BY <1>1, <2>1, <2>2
<1>5. ASSUME NEW c \in Clients, Conns!Finish(c)
      PROVE  /\ new \in [Clients -> ConnStates] /\ active' \in Nat
             /\ active' >= Cardinality(ServedIn(new))
  <2>1. PICK end \in {"answered", "closed"} : Conns!Moves(c, "served", end)
    BY <1>5 DEF Conns!Finish
  <2>2. active' = active - 1 /\ old[c] = "served" /\ new = [old EXCEPT ![c] = end]
    BY <1>5, <2>1, ViewMoves DEF Conns!Finish, old, new
  <2>3. end \in ConnStates /\ end # "served" /\ "served" # end /\ "served" \in ConnStates
    BY StatesFacts
  <2>4. /\ new \in [Clients -> ConnStates] /\ Cardinality(ServedIn(new)) \in Nat
        /\ Cardinality(ServedIn(old)) \in Nat /\ Cardinality(ServedIn(old)) > 0
        /\ Cardinality(ServedIn(new)) = Cardinality(ServedIn(old)) - 1
    BY ONLY IsFiniteSet(Clients), <1>1, <2>2, <2>3, MoveCounts, ZenonT(40)
  <2> QED
    BY <1>1, <2>2, <2>4
<1>6. ASSUME NEW c \in Clients, Conns!Drop(c)
      PROVE  /\ new \in [Clients -> ConnStates] /\ active' \in Nat
             /\ active' >= Cardinality(ServedIn(new))
  <2>1. active' = active /\ old[c] = "served" /\ new = [old EXCEPT ![c] = "closed"]
    BY <1>6, ViewMoves DEF Conns!Drop, old, new
  <2>2. /\ new \in [Clients -> ConnStates] /\ Cardinality(ServedIn(new)) \in Nat
        /\ Cardinality(ServedIn(old)) \in Nat
        /\ Cardinality(ServedIn(new)) = Cardinality(ServedIn(old)) - 1
    BY <1>1, <2>1, StatesFacts, MoveCounts, ZenonT(40)
  <2> QED
    BY <1>1, <2>1, <2>2
<1>7. CASE Conns!BeginDrain \/ UNCHANGED Conns!vars
  <2>1. new = old /\ active' = active
    BY <1>7 DEF Conns!BeginDrain, Conns!vars, View, old, new
  <2> QED
    BY <1>1, <2>1
<1>8. CASE Conns!Exit
  <2>1. active' = active
        /\ new = [c \in Clients |-> IF old[c] \in {"served", "stranded"} THEN "closed" ELSE old[c]]
    BY <1>8 DEF Conns!Exit, View, old, new
  <2>2. new \in [Clients -> ConnStates] /\ ServedIn(new) = {}
    BY <1>1, <2>1 DEF ServedIn, ConnStates
  <2> QED
    BY <1>1, <2>1, <2>2, FS_EmptySet
<1> QED
  BY <1>3, <1>4, <1>5, <1>6, <1>7, <1>8 DEF Conns!Next

LEMMA CountInvariant ==
  ASSUME IsFiniteSet(Clients)
  PROVE  Conns!Spec => []CountInv
<1>1. Conns!Init => CountInv
  <2> SUFFICES ASSUME Conns!Init PROVE CountInv
    OBVIOUS
  <2>1. View \in [Clients -> ConnStates] /\ ServedIn(View) = {} /\ active = 0
    BY DEF Conns!Init, View, ServedIn, ConnStates
  <2> QED
    BY <2>1, ViewServing, SameCardinality, FS_EmptySet DEF CountInv, Conns!CountCovers
<1>2. CountInv /\ [Conns!Next]_(Conns!vars) => CountInv'
  BY CountStep
<1> QED
  BY <1>1, <1>2, PTL DEF Conns!Spec

\* g_active_conns is never too low: it counts at least the connections the worker serves
\* and is never negative, whatever drops are not counted.
THEOREM CountNeverLow == ASSUME IsFiniteSet(Clients) PROVE Spec => []Conns!CountCovers
<1>1. CountInv => Conns!CountCovers
  BY DEF CountInv
<1> QED
  BY <1>1, CountInvariant, Refinement, PTL DEF ImplementsConns

\* A worker that leaves its loop serves nobody.
THEOREM ExitClean == ASSUME IsFiniteSet(Clients) PROVE Spec => Conns!ExitServesNobody
<1>1. CountInv /\ [Conns!Next]_(Conns!vars) => [exited' # exited => Conns!Serving = {}]_(Conns!vars)
  <2> SUFFICES ASSUME CountInv, Conns!Next, exited' # exited
               PROVE  Conns!Serving = {}
    BY DEF Conns!vars
  <2>1. active = 0
    BY DEF Conns!Next, Conns!Accept, Conns!Strand, Conns!Finish, Conns!Drop,
           Conns!BeginDrain, Conns!Exit
  <2>2. Conns!Serving \subseteq Clients /\ IsFiniteSet(Conns!Serving)
    BY FS_Subset DEF Conns!Serving
  <2>3. Cardinality(Conns!Serving) = 0
    BY <2>1, <2>2, SameCardinality, FS_CardinalityType DEF CountInv, Conns!CountCovers
  <2> QED
    BY <2>2, <2>3, FS_EmptySet
<1>2. Conns!Spec => Conns!ExitServesNobody
  BY <1>1, CountInvariant, PTL DEF Conns!Spec, Conns!ExitServesNobody
<1> QED
  BY <1>2, Refinement, PTL DEF ImplementsConns
=============================================================================
