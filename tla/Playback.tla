------------------------------ MODULE Playback ------------------------------
(***************************************************************************)
(* What the HTTP side of a session promises to the player, without cache,  *)
(* connection or thread.  The encoded sound is numbered byte by byte.      *)
(* Whoever listens hears one piece of it without gap or repeat: from where *)
(* the part since the last restart begins, or from the live end.  A        *)
(* restart (FLUSH) ends the listening, and nothing before it is heard      *)
(* again.                                                                  *)
(***************************************************************************)
EXTENDS Integers

VARIABLES
  made,     \* the bytes encoded so far
  start,    \* where the current part begins
  at        \* the last byte sent to the listener, or Nobody

vars == <<made, start, at>>

Nobody == -1

Init == made = 0 /\ start = 0 /\ at = Nobody

Listen ==
  /\ at' \in {start, made}
  /\ UNCHANGED <<made, start>>

CatchUp ==
  /\ at # Nobody
  /\ at' \in (at + 1)..made
  /\ UNCHANGED <<made, start>>

\* More is encoded only for a listener who has all there is, or whose loss has not
\* been noticed yet.
Produce ==
  /\ at \in {made, Nobody}
  /\ made' \in Nat /\ made' > made
  /\ at' = IF at = Nobody THEN Nobody ELSE made'
  /\ UNCHANGED start

Leave ==
  /\ at' = Nobody
  /\ UNCHANGED <<made, start>>

Restart ==
  /\ start' = made
  /\ at' = Nobody
  /\ UNCHANGED made

Next == Listen \/ CatchUp \/ Produce \/ Leave \/ Restart

Spec == Init /\ [][Next]_vars
=============================================================================
