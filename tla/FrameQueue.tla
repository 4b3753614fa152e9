----------------------------- MODULE FrameQueue -----------------------------
(***************************************************************************)
(* What the ring of frames promises to whoever takes frames out, without   *)
(* slots, flags, pointers or sequence numbers that wrap: a queue of        *)
(* numbered frames.  They come in any order; the queue may move on past    *)
(* the first of them; what is left is heard in order.  No frame is lost    *)
(* from the middle, and none is heard that did not come in.                *)
(***************************************************************************)
EXTENDS Integers

CONSTANT First      \* the first frame of the stream

VARIABLES
  mode,     \* "closed", "open", or "lost": nothing is promised until a restart
  next,     \* the frame to be heard next
  held,     \* the frames in the queue
  heard,    \* the last frame heard
  floor,    \* the first frame not flushed
  repeats   \* clock corrections so far: each may repeat a frame

vars == <<mode, next, held, heard, floor, repeats>>

Empty == next' = First /\ held' = {}

Init ==
  /\ mode = "closed" /\ next = First /\ held = {}
  /\ heard = First - 1 /\ floor = First /\ repeats = 0

From(frames, n) == {m \in frames : m >= n}

Corrected == repeats' \in {repeats, repeats + 1}

\* Neither heard nor flushed yet, short of the frames repeated.
Fresh(n) == n + repeats' > heard /\ n + repeats' >= floor

\* The queue opens at a fresh frame, or with one that is heard at once.
Open ==
  /\ mode = "closed" /\ mode' = "open"
  /\ \/ Fresh(next') /\ UNCHANGED heard
     \/ Fresh(heard') /\ next' = heard' + 1
  /\ held' = From(held', next')
  /\ Corrected /\ UNCHANGED floor

Stays == mode = "open" /\ UNCHANGED <<mode, floor>>

Arrive ==
  /\ Stays /\ next' >= next
  /\ \E n \in held' : held' = From(held \union {n}, next')
  /\ UNCHANGED <<heard, repeats>>

\* The queue moves on, or stays, without a frame heard.
Pass ==
  /\ Stays /\ next' >= next
  /\ held' = From(held, next')
  /\ Corrected /\ UNCHANGED heard

Hear ==
  /\ Stays
  /\ heard' \in held /\ next' = heard' + 1
  /\ held' = From(held, next')
  /\ UNCHANGED repeats

\* The clock is corrected: once more what was heard last.
Repeat ==
  /\ Stays /\ next' = next - 1
  /\ repeats' = repeats + 1
  /\ UNCHANGED <<held, heard>>

Close ==
  /\ mode # "lost" /\ mode' = "closed" /\ Empty
  /\ Corrected /\ UNCHANGED <<heard, floor>>

Lose ==
  /\ mode' = "lost" /\ Empty
  /\ heard' \in Int
  /\ Corrected /\ UNCHANGED floor

\* The frames below the new floor are flushed; those above may be heard again.
Restart ==
  /\ floor' >= floor
  /\ heard' = IF floor' <= heard THEN floor' - 1 ELSE heard
  /\ mode' = "closed" \/ (mode = "lost" /\ UNCHANGED mode)
  /\ Empty /\ UNCHANGED repeats

Next == Open \/ Arrive \/ Pass \/ Hear \/ Repeat \/ Close \/ Lose \/ Restart

Spec == Init /\ [][Next]_vars
=============================================================================
