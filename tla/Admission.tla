----------------------------- MODULE Admission -----------------------------
(***************************************************************************)
(* Which requests one worker lets pass: the blacklist and the token        *)
(* buckets, as handle_client_read asks them (src/src/worker.c 154-171,     *)
(* blacklist.c, rate_limit.c).                                             *)
(*                                                                         *)
(* Time is discrete, Second steps of the clock to a second.  Tokens are    *)
(* counted in units of 1/Second, so that they are integers: the code adds  *)
(* elapsed * rate / 1000 to a double, whose rounding is left out.          *)
(*                                                                         *)
(* since is a history: how many requests of an address have been let pass  *)
(* at time s or later.                                                     *)
(***************************************************************************)
EXTENDS Integers, Sequences

CONSTANTS
  Addrs,      \* client addresses
  Nobody,     \* no address
  Blacklist,  \* the addresses of [security] blacklist, in order
  ListSize,   \* BL_MAX
  TableSize,  \* RL_MAX
  Rate,       \* rate_limit_per_ip
  Second,     \* steps of the clock in a second
  MaxTime,    \* bound on the clock
  MaxPasses   \* bound on what an address is let pass

ASSUME AddrsAssumption == Nobody \notin Addrs /\ Blacklist \in Seq(Addrs)
ASSUME SizesAssumption == /\ ListSize \in Nat /\ TableSize \in Nat
                          /\ Rate \in Nat /\ Second \in Nat \ {0}
                          /\ MaxTime \in Nat /\ MaxPasses \in Nat

VARIABLES
  entries, \* g_rl.entries, by address
  count,   \* g_rl.count
  now,     \* nexus_now_ms()
  reply,   \* the verdict on the latest request, until time goes on
  since    \* history: since[a][s], requests of a let pass at time s or later

vars == <<entries, count, now, reply, since>>

-----------------------------------------------------------------------------
Times == 0 .. MaxTime

\* A full bucket holds what a second brings.
Cap == Rate * Second

NoEntry == [used |-> FALSE, tokens |-> 0, last |-> 0]
Entry(tokens, last) == [used |-> TRUE, tokens |-> tokens, last |-> last]

Known(a) == entries[a].used

Init ==
  /\ entries = [a \in Addrs |-> NoEntry]
  /\ count = 0
  /\ now = 0
  /\ reply = [of |-> Nobody, code |-> "none"]
  /\ since = [a \in Addrs |-> [s \in Times |-> 0]]

\* Mutant of Blocked: the list is full one address too early.
BlockedOneShort(a) == \E i \in 1 .. Len(Blacklist) : i + 1 <= ListSize /\ Blacklist[i] = a

\* nexus_bl_check on what nexus_bl_add had room for; the worker ignores its -1.
Blocked(a) == \E i \in 1 .. Len(Blacklist) : i <= ListSize /\ Blacklist[i] = a

\* find_or_create: a new address starts with a full bucket.
Found(a) == IF Known(a) THEN entries[a] ELSE Entry(Cap, now)

\* Mutant of Refilled: whole seconds only.
RefilledWholeSeconds(e) ==
  LET t == e.tokens + Rate * Second * ((now - e.last) \div Second)
  IN  IF t > Cap THEN Cap ELSE t

\* The tokens of a bucket now: what has come in since it was looked at, up to Cap.
Refilled(e) ==
  LET t == e.tokens + Rate * (now - e.last)
  IN  IF t > Cap THEN Cap ELSE t

Answer(a, code) == reply' = [of |-> a, code |-> code]

\* The request goes on to be served.
Passes(a) ==
  /\ Answer(a, "pass")
  /\ since' = [since EXCEPT ![a] = [s \in Times |-> IF s <= now THEN @[s] + 1 ELSE @[s]]]

\* 403: nothing is counted.
Block(a) ==
  /\ Answer(a, "403")
  /\ UNCHANGED <<entries, count, since>>

\* No entry and no room for one: let pass.
FailOpen(a) ==
  /\ Passes(a)
  /\ UNCHANGED <<entries, count>>

\* Mutant of Spend: last_refill_ms is not moved when a token is taken.
SpendKeepsTime(a) ==
  LET e == Found(a)
  IN  IF Refilled(e) >= Second
        THEN Passes(a) /\ entries' = [entries EXCEPT ![a] = Entry(Refilled(e) - Second, e.last)]
        ELSE /\ Answer(a, "429")
             /\ entries' = [entries EXCEPT ![a] = Entry(Refilled(e), now)]
             /\ UNCHANGED since

\* The bucket is refilled, and a whole token taken if there is one.
Spend(a) ==
  LET tokens == Refilled(Found(a))
  IN  IF tokens >= Second
        THEN Passes(a) /\ entries' = [entries EXCEPT ![a] = Entry(tokens - Second, now)]
        ELSE /\ Answer(a, "429")
             /\ entries' = [entries EXCEPT ![a] = Entry(tokens, now)]
             /\ UNCHANGED since

\* nexus_rl_check.
RateCheck(a) ==
  \/ ~Known(a) /\ count >= TableSize /\ FailOpen(a)
  \/ /\ Known(a) \/ count < TableSize
     /\ Spend(a)
     /\ count' = IF Known(a) THEN count ELSE count + 1

\* A whole request of a, from the blacklist to the rate limit.
Check(a) ==
  /\ since[a][0] < MaxPasses
  /\ IF Blocked(a) THEN Block(a) ELSE RateCheck(a)
  /\ UNCHANGED now

Tick ==
  /\ now < MaxTime
  /\ now' = now + 1
  /\ reply' = [of |-> Nobody, code |-> "none"]
  /\ UNCHANGED <<entries, count, since>>

Next == Tick \/ \E a \in Addrs : Check(a)

Spec == Init /\ [][Next]_vars

-----------------------------------------------------------------------------
(* What must hold.                                                          *)

EntryType == [used : BOOLEAN, tokens : 0 .. Cap, last : Times]
ReplyType == [of : Addrs \cup {Nobody}, code : {"none", "pass", "403", "429"}]

\* A bucket holds at most a second's worth of tokens and never less than nothing, and
\* the table never grows past its end.
TypeOK ==
  /\ entries \in [Addrs -> EntryType]
  /\ count \in 0 .. TableSize
  /\ now \in Times
  /\ reply \in ReplyType
  /\ since \in [Addrs -> [Times -> Nat]]

\* Did a window from s to now admit n requests more than a second's worth and what
\* the time since s brings?
Exceeds(s, n) == Second * n > Cap + Rate * (now - s)

\* Over every stretch of time that ends now, whatever it starts with and however its
\* requests are spread, an address is let pass no more than Rate requests and what the
\* time brings, unless the table was full when it first came (rate_limit.c 26).
WithinLimit ==
  \A a \in Addrs : \A s \in 0 .. now :
    Exceeds(s, since[a][s]) => ~Known(a) /\ count = TableSize

\* And no less: a request is refused only if with it some stretch of time would hold
\* more than that. In particular no other address's requests count (the test of
\* rate_limit.c says so of two addresses), no fraction of a token is lost by asking
\* often, and a client that keeps its pace is never refused.
RefusedOverLimit ==
  reply.code = "429" => \E s \in 0 .. now : Exceeds(s, since[reply.of][s] + 1)

\* The blacklist is asked before the rate limit (the design document draws it the other
\* way round): an address it names has a bucket, or was once let pass, only if every
\* mention of it comes after the first ListSize, which is the whole of what a list that
\* is too long costs (blacklist.c 12); and nobody it does not name is answered 403.
BlockedAside ==
  /\ \A i \in 1 .. Len(Blacklist) :
       Known(Blacklist[i]) \/ since[Blacklist[i]][0] > 0 => i > ListSize
  /\ reply.code = "403" => \E i \in 1 .. Len(Blacklist) : Blacklist[i] = reply.of
=============================================================================
