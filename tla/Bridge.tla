------------------------------- MODULE Bridge -------------------------------
(***************************************************************************)
(* What one target promises, without threads, mutexes or memory: a target  *)
(* is there or not; while it is there, an event of the AirPlay sender sets *)
(* its session and may call a service of Home Assistant, and a report of   *)
(* Home Assistant sets its session and calls none.                         *)
(***************************************************************************)

CONSTANT Levels

VARIABLES
  up,       \* the target is there
  session,  \* the last event taken from either side
  level,    \* the last level taken from either side
  told      \* the last media service called

vars == <<up, session, level, told>>

Init == ~up /\ session = "STOP" /\ level = 0 /\ told = "none"

Appear ==
  /\ ~up /\ up' = TRUE
  /\ session' = "STOP" /\ level' = 0
  /\ UNCHANGED told

Vanish == up /\ up' = FALSE /\ UNCHANGED <<session, level, told>>

\* The sender starts, stops or flushes a stream.
SenderStarts   == session' = "STREAM" /\ UNCHANGED told
SenderPlays    == session # "PLAY" /\ session' = "PLAY" /\ told' = "play"
SenderStops(e) == session' = e /\ told' = "stop"

Sender ==
  /\ up
  /\ SenderStarts \/ SenderPlays \/ \E e \in {"STOP", "FLUSH"} : SenderStops(e)
  /\ UNCHANGED <<up, level>>

SenderVolume ==
  /\ up
  /\ session' = "VOLUME" /\ level' \in Levels
  /\ UNCHANGED <<up, told>>

\* The player starts, pauses or stops: news only if the session is not there yet,
\* and a pause only of what plays.
HomeReports ==
  /\ up
  /\ \/ session # "PLAY" /\ session' = "PLAY"
     \/ session = "PLAY" /\ session' = "PAUSE"
     \/ session # "STOP" /\ session' = "STOP"
  /\ UNCHANGED <<up, level, told>>

HomeVolume == up /\ level' \in Levels /\ UNCHANGED <<up, session, told>>

Next == Appear \/ Vanish \/ Sender \/ SenderVolume \/ HomeReports \/ HomeVolume

Spec == Init /\ [][Next]_vars
=============================================================================
