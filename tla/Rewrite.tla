------------------------------ MODULE Rewrite ------------------------------
(***************************************************************************)
(* The headers of a proxied request: the table of the parser is cleaned,   *)
(* the gateway's and the operator's headers are put in, and what is in the *)
(* table is sent (src/src/http_header.c 30-96, http_rewrite.c 31-77,       *)
(* http_parser.c 107-137, config.c 66-95, worker.c 189-202).               *)
(*                                                                         *)
(* A header's name is its lower-case form.  It is stored and hashed with   *)
(* its length, but compared and printed as a C string, up to its first     *)
(* NUL: a client's name can have one, the gateway's and the operator's     *)
(* cannot.  Its value is the number of the client's line it was taken      *)
(* from, 0 if the gateway made it.                                         *)
(***************************************************************************)
EXTENDS Integers, Sequences, FiniteSets

CONSTANTS
  Names,
  RealIp, FwdFor, FwdHost, FwdProto, Via, ReqId, Host,
  NoName,     \* the empty name
  CStr,       \* a name up to its first NUL
  Hash,       \* nexus_hash_fnv1a, on names
  HeaderMax,  \* NEXUS_HTTP_HEADER_MAX
  CustomMax,  \* MAX_CUSTOM_HEADERS
  Requests,   \* the names of a request's header lines, in order
  Settings    \* values of add_header, as tokens between commas

Cleaned  == {RealIp, FwdFor, FwdHost, FwdProto}
Standard == Cleaned \cup {Via, ReqId}

\* The names without a NUL.
CNames == {n \in Names : CStr[n] = n}

Token == [colon : BOOLEAN, name : CNames]

ASSUME NamesAssumption ==
  /\ Standard \cup {Host, NoName} \subseteq CNames
  /\ Cardinality(Standard) = 6
  /\ Host \notin Standard /\ NoName \notin Standard
  /\ DOMAIN Hash = Names
  /\ CStr \in [Names -> CNames]
\* So it is with FNV-1a.
ASSUME HashAssumption == \A n \in Standard : Hash[n] # Hash[Host]
ASSUME SizesAssumption == HeaderMax \in Nat /\ CustomMax \in Nat
ASSUME InputsAssumption ==
  /\ Requests \subseteq Seq(Names) /\ \A r \in Requests : Len(r) <= HeaderMax
  /\ Settings \subseteq Seq(Token)

VARIABLES
  tokens,  \* what is left of add_header
  custom,  \* custom_headers
  request, \* the header lines of the request
  table,   \* req.headers
  k,       \* the operation of nexus_http_rewrite_request
  pc,      \* where the code is
  at,      \* the index of the removal loop, and of the loop that sends
  host,    \* the value read for X-Forwarded-Host
  sent     \* what goes to the upstream

vars == <<tokens, custom, request, table, k, pc, at, host, sent>>

-----------------------------------------------------------------------------
Entry(name, by, val) == [name |-> name, by |-> by, val |-> val]

Init ==
  /\ tokens \in Settings
  /\ request \in Requests
  /\ custom = <<>>
  /\ table = [p \in 1 .. Len(request) |-> Entry(request[p], "client", p)]
  /\ k = 1 /\ pc = "config" /\ at = 0 /\ host = 0
  /\ sent = <<>>

\* One token of add_header: one without a colon is left out.
TakeToken ==
  /\ pc = "config" /\ tokens # <<>> /\ Len(custom) < CustomMax
  /\ custom' = IF Head(tokens).colon THEN Append(custom, Head(tokens).name) ELSE custom
  /\ tokens' = Tail(tokens)
  /\ UNCHANGED <<request, table, k, pc, at, host, sent>>

ConfigLoaded ==
  /\ pc = "config" /\ (tokens = <<>> \/ Len(custom) = CustomMax)
  /\ pc' = "op"
  /\ UNCHANGED <<tokens, custom, request, table, k, at, host, sent>>

\* The operations of nexus_http_rewrite_request in order, the operator's headers last.
Remove(name)  == [kind |-> "remove", name |-> name, by |-> "gateway"]
Set(name, by) == [kind |-> "set", name |-> name, by |-> by]
SetHost       == [kind |-> "host", name |-> FwdHost, by |-> "gateway"]

Fixed ==
  <<Remove(RealIp), Remove(FwdFor), Remove(FwdHost), Remove(FwdProto),
    Set(RealIp, "gateway"), Set(FwdFor, "gateway"), SetHost,
    Set(FwdProto, "gateway"), Set(Via, "gateway"), Set(ReqId, "gateway")>>

OpCount == 10 + Len(custom)
Op(j)   == IF j <= 10 THEN Fixed[j] ELSE Set(custom[j - 10], "operator")

\* nexus_headers_get: the first entry with the hash of the name, if there is one.
Got(name) == {j \in DOMAIN table : /\ Hash[table[j].name] = Hash[name]
                                   /\ \A m \in 1 .. j - 1 : Hash[table[m].name] # Hash[name]}

\* X-Forwarded-Host is only set if the client named a host.
SkipOp ==
  /\ pc = "op" /\ k <= OpCount
  /\ Op(k).kind = "host" /\ Got(Host) = {}
  /\ k' = k + 1
  /\ UNCHANGED <<tokens, custom, request, table, pc, at, host, sent>>

\* A set begins by removing every header of that name.
BeginOp ==
  /\ pc = "op" /\ k <= OpCount
  /\ IF Op(k).kind = "host" THEN \E j \in Got(Host) : host' = table[j].val ELSE host' = 0
  /\ pc' = "remove" /\ at' = 1
  /\ UNCHANGED <<tokens, custom, request, table, k, sent>>

\* Mutant of Matches: the names are not compared.
MatchesHash(e, name) == Hash[e.name] = Hash[name]

Matches(e, name) == Hash[e.name] = Hash[name] /\ CStr[e.name] = name

\* The entries after it move up.
Without(j) == [m \in 1 .. Len(table) - 1 |-> IF m < j THEN table[m] ELSE table[m + 1]]

\* Mutant of RemoveOne: on to the next index, past the entry that has moved up.
RemoveOneAndStep ==
  /\ pc = "remove" /\ at <= Len(table) /\ Matches(table[at], Op(k).name)
  /\ table' = Without(at)
  /\ at' = at + 1
  /\ UNCHANGED <<tokens, custom, request, k, pc, host, sent>>

RemoveOne ==
  /\ pc = "remove" /\ at <= Len(table) /\ Matches(table[at], Op(k).name)
  /\ table' = Without(at)
  /\ UNCHANGED <<tokens, custom, request, k, pc, at, host, sent>>

StepOver ==
  /\ pc = "remove" /\ at <= Len(table) /\ ~Matches(table[at], Op(k).name)
  /\ at' = at + 1
  /\ UNCHANGED <<tokens, custom, request, table, k, pc, host, sent>>

\* Mutant of Add: the last place is never used.
AddTooFew(e) == table' = IF Len(table) < HeaderMax - 1 THEN Append(table, e) ELSE table

\* nexus_headers_add; nexus_http_rewrite_request ignores its -1.
Add(e) == table' = IF Len(table) < HeaderMax THEN Append(table, e) ELSE table

\* The removal loop has reached the end, and a set adds its header.
EndOp ==
  /\ pc = "remove" /\ at > Len(table)
  /\ IF Op(k).kind = "remove" THEN UNCHANGED table ELSE Add(Entry(Op(k).name, Op(k).by, host))
  /\ pc' = "op" /\ k' = k + 1 /\ at' = 0
  /\ UNCHANGED <<tokens, custom, request, host, sent>>

\* The loop that sends begins, or, if the request is longer than the buffer, the
\* connection is closed.
Serialize ==
  /\ pc = "op" /\ k > OpCount
  /\ pc' \in {"send", "closed"}
  /\ at' = 1
  /\ UNCHANGED <<tokens, custom, request, table, k, host, sent>>

\* %s: an entry goes out under its name's C string, and if there is one.
Serialized(e) == CStr[e.name] # NoName
Printed(e)    == Entry(CStr[e.name], e.by, e.val)

SendHeader ==
  /\ pc = "send" /\ at <= Len(table)
  /\ sent' = IF Serialized(table[at]) THEN Append(sent, Printed(table[at])) ELSE sent
  /\ at' = at + 1
  /\ UNCHANGED <<tokens, custom, request, table, k, pc, host>>

SendDone ==
  /\ pc = "send" /\ at > Len(table)
  /\ pc' = "sent"
  /\ UNCHANGED <<tokens, custom, request, table, k, at, host, sent>>

Next ==
  \/ TakeToken \/ ConfigLoaded
  \/ SkipOp \/ BeginOp \/ RemoveOne \/ StepOver \/ EndOp
  \/ Serialize \/ SendHeader \/ SendDone

Spec == Init /\ [][Next]_vars

-----------------------------------------------------------------------------
(* What must hold of what is sent.                                          *)

EntryType == [name : Names, by : {"client", "gateway", "operator"}, val : 0 .. HeaderMax]

\* The table never grows past its end, and the two loops stay inside it.
TypeOK ==
  /\ tokens \in Seq(Token) /\ custom \in Seq(CNames)
  /\ request \in Seq(Names) /\ Len(request) <= HeaderMax
  /\ table \in Seq(EntryType) /\ Len(table) <= HeaderMax
  /\ k \in 1 .. OpCount + 1
  /\ pc \in {"config", "op", "remove", "send", "sent", "closed"}
  /\ at \in 0 .. Len(table) + 1 /\ (pc = "remove" => at > 0 /\ k <= OpCount)
  /\ host \in 0 .. HeaderMax
  /\ pc = "config" => k = 1
  /\ pc \in {"send", "sent"} => at > 0 /\ k > OpCount
  /\ sent \in Seq(EntryType)

SetNames == {Op(j).name : j \in 1 .. OpCount}

\* An entry of a client's line whose name has a NUL: it goes out under the part before.
Cut(e) == e.by = "client" /\ request[e.val] \notin CNames

\* Nothing of the client's goes out under a name of the gateway or of the operator, however
\* often it was sent (docs: "完全丢弃，不保留原有值"), unless the line's name had a NUL after
\* that name: the hash of http_header.c 41 covers the NUL, so the line is not removed, and
\* http_parser.c 129 prints what is before it.
NoForgedHeaders ==
  \A j \in DOMAIN sent : sent[j].by = "client" /\ sent[j].name \in SetNames => Cut(sent[j])

\* And each of those headers is sent once at most, such a line apart.
OneOfEach ==
  \A j, m \in DOMAIN sent :
    sent[j].name = sent[m].name /\ sent[j].name \in SetNames /\ ~Cut(sent[j]) /\ ~Cut(sent[m])
    => j = m

\* All other headers that have a name, up to a NUL, reach the upstream under it in the client's
\* order, also one whose hash is that of a removed one, and before the gateway's own.
OthersKept ==
  pc = "sent" =>
    /\ \A p \in DOMAIN request :
         CStr[request[p]] \notin SetNames \cup {NoName} =>
           \E j \in DOMAIN sent : sent[j] = Entry(CStr[request[p]], "client", p)
    /\ \A j, m \in DOMAIN sent :
         j < m /\ sent[m].by = "client" => sent[j].by = "client" /\ sent[j].val < sent[m].val

\* The client has named a host, or sent a header that has Host's hash.
HostNamed == \E p \in DOMAIN request : request[p] \notin Cleaned /\ Hash[request[p]] = Hash[Host]

\* What the gateway and the operator want to be sent.
Wanted ==
  {Op(j).name : j \in {j \in 1 .. OpCount : Op(j).kind = "set"}}
    \cup (IF HostNamed THEN {FwdHost} ELSE {})

\* A header of theirs is missing only if the client's lines, those cleaned at first left
\* out, leave no room for it. (The docs promise it always: 强制注入.)
InjectedIfRoom ==
  pc = "sent" =>
    \A n \in Wanted \ {NoName} :
      \/ \E j \in DOMAIN sent : sent[j].name = n /\ sent[j].by # "client"
      \/ Cardinality({p \in DOMAIN request : request[p] \notin Cleaned}) + Cardinality(Wanted) > HeaderMax

=============================================================================
