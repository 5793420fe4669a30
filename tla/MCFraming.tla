------------------------------ MODULE MCFraming ------------------------------
(* Two ends and messages whose sizes meet the boundaries of the codecs. *)
EXTENDS Framing

BothProtocols == {"tcp", "websocket"}
\* The longest that one byte states, one more, a low byte of zero, and the
\* longest that is ever read.
Boundaries == {125, 126, 256, 65535}
=============================================================================
