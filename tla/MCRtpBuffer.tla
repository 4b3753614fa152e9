---------------------------- MODULE MCRtpBuffer ----------------------------
(* Instances of RtpBuffer for TLC. *)
EXTENDS RtpBuffer

FlushOnly   == {TRUE}
SilenceOnly == {FALSE}
BothModes   == {TRUE, FALSE}
=============================================================================
