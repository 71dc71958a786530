---------------------------- MODULE StaticFile ----------------------------
(***************************************************************************)
(* Serving a file: nexus_static_serve and the splice loop below it         *)
(* (src/src/static_file.c 24-58, zerocopy.c 7-26).                         *)
(*                                                                         *)
(* Each call of nexus_zc_splice makes a pipe, fills it from the file and   *)
(* empties it into the client's socket, which is non-blocking.  A pipe has *)
(* Slots places for a page, or a part of a page, each.  The file's bytes   *)
(* are numbered 1 .. size; those in the pipe are lo + 1 .. fpos.  A read   *)
(* of a file ends at the end of a page or of the file, or it fails: the    *)
(* disk does, the file has been cut short since the fstat, or the path is  *)
(* a directory, which open(O_RDONLY) takes and fstat gives a size.         *)
(***************************************************************************)
EXTENDS Integers, Sequences

CONSTANTS
  MaxSize, \* bound on the size of the file
  Page,    \* bytes of a page
  Slots    \* pages a pipe holds

ASSUME SizesAssumption == MaxSize \in Nat /\ Page \in Nat \ {0} /\ Slots \in Nat \ {0}

VARIABLES
  asked,     \* what the path is: "dotdot", "missing", "directory" or "file"
  size,      \* st.st_size
  pc,        \* where the code is
  status,    \* the head of the response that was written
  fpos,      \* the file's position
  lo,        \* how far the pipe has been emptied
  remaining, \* what nexus_static_serve has left to send
  len,       \* what nexus_zc_splice has left to send
  total,     \* what this call of nexus_zc_splice has sent
  n,         \* what its last read of the file brought
  out,       \* history: the bytes the client's socket took
  slow,      \* history: a write fell short or failed, or there was no pipe
  unread     \* history: a read of the file failed

vars == <<asked, size, pc, status, fpos, lo, remaining, len, total, n, out, slow, unread>>

-----------------------------------------------------------------------------
Paths == {"dotdot", "missing", "directory", "file"}

Init ==
  /\ asked \in Paths /\ size \in 0 .. MaxSize
  /\ pc = "open" /\ status = "none"
  /\ fpos = 0 /\ lo = 0
  /\ remaining = 0 /\ len = 0 /\ total = 0 /\ n = 0
  /\ out = <<>> /\ slow = FALSE /\ unread = FALSE

Smaller(a, b) == IF a < b THEN a ELSE b

\* Up to the first splice: a path with ".." is answered by nothing, a missing file by 404,
\* and anything else that can be opened, a directory included, by 200 and its st_size.
Open ==
  /\ pc = "open"
  /\ \/ asked = "dotdot" /\ pc' = "end" /\ UNCHANGED <<status, remaining>>
     \/ asked = "missing" /\ pc' = "end" /\ status' = "404" /\ UNCHANGED remaining
     \/ asked \in {"directory", "file"} /\ pc' = "serve" /\ status' = "200" /\ remaining' = size
  /\ UNCHANGED <<asked, size, fpos, lo, len, total, n, out, slow, unread>>

\* Mutant of CallSplice: every call reads from the offset, which nothing moves on.
CallAtOffset ==
  /\ pc = "serve" /\ remaining > 0
  /\ pc' = "read" /\ len' = remaining /\ total' = 0 /\ lo' = 0 /\ fpos' = 0
  /\ UNCHANGED <<asked, size, status, remaining, n, out, slow, unread>>

\* The loop of nexus_static_serve calls nexus_zc_splice, which makes a pipe.
CallSplice ==
  /\ pc = "serve" /\ remaining > 0
  /\ pc' = "read" /\ len' = remaining /\ total' = 0 /\ lo' = fpos
  /\ UNCHANGED <<asked, size, status, fpos, remaining, n, out, slow, unread>>

\* There is no descriptor for the pipe.
NoPipe ==
  /\ pc = "serve" /\ remaining > 0
  /\ pc' = "end" /\ slow' = TRUE
  /\ UNCHANGED <<asked, size, status, fpos, lo, remaining, len, total, n, out, unread>>

ServeDone ==
  /\ pc = "serve" /\ remaining = 0
  /\ pc' = "end"
  /\ UNCHANGED <<asked, size, status, fpos, lo, remaining, len, total, n, out, slow, unread>>

\* The pages that the bytes f + 1 .. t lie in: places taken in a pipe.
Pages(f, t) == IF t = f THEN 0 ELSE (t - 1) \div Page - f \div Page + 1

PipeFull == Pages(lo, fpos) = Slots

\* splice() from the file: what the places left in the pipe can take. With none left it
\* waits, for ever: nobody but this code reads the pipe.
ReadFile ==
  /\ pc = "read" /\ asked = "file" /\ len > 0 /\ ~PipeFull /\ fpos < size
  /\ \E t \in fpos + 1 .. Smaller(size, fpos + len) :
       /\ (t % Page = 0 \/ t = size) /\ Pages(lo, fpos) + Pages(fpos, t) <= Slots
       /\ fpos' = t /\ n' = t - fpos
  /\ pc' = "write"
  /\ UNCHANGED <<asked, size, status, lo, remaining, len, total, out, slow, unread>>

\* It fails before the size that was announced is reached: the loop is left.
ReadFails ==
  /\ pc = "read" /\ len > 0 /\ ~PipeFull /\ fpos < size
  /\ pc' = "return" /\ unread' = TRUE
  /\ UNCHANGED <<asked, size, status, fpos, lo, remaining, len, total, n, out, slow>>

\* Mutant of WriteSocket: what was read counts as sent.
WriteCountsRead ==
  /\ pc = "write"
  /\ \E m \in 1 .. n :
       /\ out' = out \o [i \in 1 .. m |-> lo + i]
       /\ lo' = lo + m /\ len' = len - n /\ total' = total + n
       /\ slow' = (slow \/ m < n)
  /\ pc' = "read"
  /\ UNCHANGED <<asked, size, status, fpos, remaining, n, unread>>

\* splice() to the socket: the oldest bytes of the pipe, at most as many as were just
\* read, and fewer if the client is slow.
WriteSocket ==
  /\ pc = "write"
  /\ \E m \in 1 .. n :
       /\ out' = out \o [i \in 1 .. m |-> lo + i]
       /\ lo' = lo + m /\ len' = len - m /\ total' = total + m
       /\ slow' = (slow \/ m < n)
  /\ pc' = "read"
  /\ UNCHANGED <<asked, size, status, fpos, remaining, n, unread>>

\* EAGAIN, or the client is gone: the loop is left.
WriteFails ==
  /\ pc = "write"
  /\ pc' = "return" /\ slow' = TRUE
  /\ UNCHANGED <<asked, size, status, fpos, lo, remaining, len, total, n, out, unread>>

\* Mutant of SpliceDone: one byte too early.
SpliceDoneEarly ==
  /\ pc = "read" /\ (len <= 1 \/ (~PipeFull /\ fpos = size))
  /\ pc' = "return"
  /\ UNCHANGED <<asked, size, status, fpos, lo, remaining, len, total, n, out, slow, unread>>

\* All is sent, or the file is at its end.
SpliceDone ==
  /\ pc = "read" /\ (len = 0 \/ (~PipeFull /\ fpos = size))
  /\ pc' = "return"
  /\ UNCHANGED <<asked, size, status, fpos, lo, remaining, len, total, n, out, slow, unread>>

\* Mutant of Return: the loop goes on when nothing was sent.
ReturnAlways ==
  /\ pc = "return"
  /\ remaining' = remaining - total
  /\ pc' = "serve"
  /\ UNCHANGED <<asked, size, status, fpos, lo, len, total, n, out, slow, unread>>

\* The pipe is closed with what is still in it; nothing sent ends nexus_static_serve.
Return ==
  /\ pc = "return"
  /\ remaining' = remaining - total
  /\ pc' = IF total > 0 THEN "serve" ELSE "end"
  /\ UNCHANGED <<asked, size, status, fpos, lo, len, total, n, out, slow, unread>>

Next ==
  \/ Open \/ CallSplice \/ NoPipe \/ ServeDone
  \/ ReadFile \/ ReadFails \/ WriteSocket \/ WriteFails \/ SpliceDone \/ Return

Spec == Init /\ [][Next]_vars
FairSpec == Spec /\ WF_vars(Next)

-----------------------------------------------------------------------------
(* What must hold.                                                          *)

Capacity == Slots * Page

\* No more than the file is asked for or sent.
TypeOK ==
  /\ asked \in Paths /\ size \in 0 .. MaxSize
  /\ pc \in {"open", "serve", "read", "write", "return", "end"}
  /\ status \in {"none", "404", "200"}
  /\ fpos \in 0 .. size /\ lo \in 0 .. fpos
  /\ remaining \in 0 .. size /\ len \in 0 .. size /\ total \in 0 .. size /\ n \in 0 .. size
  /\ out \in Seq(1 .. size)
  /\ slow \in BOOLEAN /\ unread \in BOOLEAN

\* The client never gets a byte twice or out of order, whatever its reads and the pipes
\* that are thrown away with bytes in them.
InOrder == \A i, j \in 1 .. Len(out) : i < j => out[i] < out[j]

\* What is left to send is what the client has not got: the code never counts as sent what
\* was lost in a pipe.
InCall == pc \in {"read", "write", "return"}
SentCounted ==
  status = "200" => Len(out) = size - remaining + (IF InCall THEN total ELSE 0)

\* A byte that is missing in the middle was lost with a pipe: no hole is longer than one.
HolesBounded == \A i \in 1 .. Len(out) - 1 : out[i + 1] <= out[i] + Capacity + 1

\* A client that keeps up gets the bytes from the first one on without a hole, and all of them
\* unless a read of the file failed: then the 200 of line 41 has announced more than is sent,
\* and for a directory, of which no read succeeds, nothing is.
WholeIfFast ==
  ~slow => /\ \A i \in 1 .. Len(out) : out[i] = i
           /\ pc = "end" /\ status = "200" /\ ~unread => Len(out) = size

\* The loops do not spin: serving comes to an end, unless it waits for a place in the
\* full pipe.
Blocked == pc = "read" /\ len > 0 /\ PipeFull
ServingEnds == <>(pc = "end" \/ Blocked)
=============================================================================
