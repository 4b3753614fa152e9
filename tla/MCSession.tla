----------------------------- MODULE MCSession -----------------------------
(* Instances of Session for TLC. *)
EXTENDS Session

AllFaults == {"drop", "mdns", "anonymous", "setup", "order"}
Drops     == {"drop"}
=============================================================================
