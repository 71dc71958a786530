----------------------------- MODULE MCRewrite -----------------------------
(***************************************************************************)
(* Rewrite for TLC: every request of up to four header lines over eight    *)
(* names.  "x-other" has the hash of X-Real-IP, "y-other" that of Host,    *)
(* and in "x-real-ip*" the * is a NUL.                                     *)
(***************************************************************************)
EXTENDS Rewrite

MCNames == {"x-real-ip", "x-forwarded-for", "x-forwarded-host", "x-forwarded-proto",
            "via", "x-gateway-req-id", "host", "x-other", "y-other", "x-real-ip*", ""}

MCHash == [n \in MCNames |->
  CASE n = "x-real-ip" -> 1 [] n = "x-forwarded-for" -> 2 [] n = "x-forwarded-host" -> 3
    [] n = "x-forwarded-proto" -> 4 [] n = "via" -> 5 [] n = "x-gateway-req-id" -> 6
    [] n \in {"host", "y-other"} -> 7 [] n = "" -> 8 [] n = "x-real-ip*" -> 9 [] OTHER -> 1]

MCCStr == [n \in MCNames |-> IF n = "x-real-ip*" THEN "x-real-ip" ELSE n]

Sent == {"x-real-ip", "x-real-ip*", "x-forwarded-host", "via", "host", "x-other", "y-other", ""}

MCRequests == UNION {[1 .. n -> Sent] : n \in 0 .. 4}

With(name) == [colon |-> TRUE, name |-> name]
Bare       == [colon |-> FALSE, name |-> ""]

\* No add_header; a name of the gateway, a token without colon and one too many.
MCSettings == {<<>>, <<With("via"), Bare, With("x-other"), With("host")>>}
=============================================================================
