--------------------------- MODULE MCHttpParser ---------------------------
(***************************************************************************)
(* HttpParser for TLC: a request line, a wrong one or none, and then up to *)
(* four chunks, whole header lines among them, so that short streams reach *)
(* every part of a request.                                                *)
(***************************************************************************)
EXTENDS HttpParser

Beginnings == {<<>>, <<"R", "CR", "LF">>, <<"R", "x", "CR", "LF">>}

Chunks == {<<>>, <<"CR", "LF">>, <<"H", "CR", "LF">>, <<"C", "CR", "LF">>, <<"Z", "CR", "LF">>,
           <<"H", "x">>, <<"x">>, <<"CR">>}

MCStreams == {b \o c \o d \o e \o f : b \in Beginnings, c, d, e, f \in Chunks}
=============================================================================
