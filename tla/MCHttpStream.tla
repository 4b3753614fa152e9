---------------------------- MODULE MCHttpStream ----------------------------
(* Instances of HttpStream for TLC. *)
EXTENDS HttpStream

BothModes == {TRUE, FALSE}
FlushOnly == {TRUE}
=============================================================================
