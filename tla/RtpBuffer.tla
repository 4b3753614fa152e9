----------------------------- MODULE RtpBuffer -----------------------------
(***************************************************************************)
(* The streamer's ring of decoded audio frames (raop_streamer.c): the RTP  *)
(* thread puts packets in by sequence number, the HTTP thread takes frames *)
(* out in order, the RTSP thread records and flushes, the NTP clock drops  *)
(* and repeats frames.  All of it happens under ab_mutex, one call at a    *)
(* time.                                                                   *)
(*                                                                         *)
(* Frames are numbered from First on without wrapping; the program sees    *)
(* only their sequence numbers, modulo W.  A frame's play time is left     *)
(* open: a missing frame is waited for or replaced by silence.             *)
(***************************************************************************)
EXTENDS Integers

CONSTANTS
  W,          \* the sequence numbers, 2^16 in the program
  B,          \* BUFFER_FRAMES
  Headroom,   \* the 64 frames short of a full ring that an overrun leaves
  Delay,      \* ctx->delay, in frames
  HttpFill,   \* ctx->http_fill
  Modes,      \* the values of the flush setting: TRUE flushes, FALSE plays silence
  First,      \* the number of the first frame of the stream
  Last,       \* bound on the frames of the stream
  Late,       \* a packet comes at most this many frames after a newer one ...
  Jump,       \* ... and at most this many frames ahead of the newest
  Ahead,      \* bound on how far the silence put in runs ahead of the newest frame
  MaxGaps     \* bound on the clock corrections

ASSUME BufferAssumption ==
  /\ B \in Nat /\ W \in Nat /\ B >= 2 /\ W % B = 0 /\ W >= 4 * B
  /\ Headroom \in 1..(B - 1)
  /\ Delay \in 0..(B - 1) /\ HttpFill \in BOOLEAN
  /\ Modes \subseteq BOOLEAN
  /\ First \in Nat /\ Last \in Nat /\ First <= Last
  /\ Late \in 0..(B - 1) /\ Jump \in 1..B
  /\ Ahead \in Nat /\ MaxGaps \in Nat

None   == -1        \* first_seqno when there is none
Filler == -1        \* what a clock correction repeats: whatever the slot holds
Slots  == 0..(B - 1)
SeqNos == 0..(W - 1)

VARIABLES
  flush,              \* ctx->flush of the receiver
  record,             \* RECORD: "none" yet, one that "told" the first number, or "untold"
  state,              \* ctx->state: "WAIT", "STREAM" or "PLAY"
  first,              \* ctx->first_seqno
  read, write,        \* ctx->ab_read, ctx->ab_write
  ready, frame,       \* of each slot: the flag, and the number of the frame decoded there
  pause, silence, skip,   \* of ctx
  stuck,              \* the RTP thread never leaves the loop of line 453
  newest,             \* the newest frame received, First - 1 before any
  floor,              \* everything below was flushed
  taken,              \* the last frame taken out
  astray,             \* since the ring was last reset, the read pointer was reset by an
                      \* overrun, ran past the writer in the loop of line 453, or was left
                      \* half of all numbers behind
  gaps                \* clock corrections so far

\* How far behind the reader may be left before the signed differences of sequence numbers
\* confuse before and after, short of how far a packet or the fill may be ahead.
Reach == W \div 2 - (Jump + Ahead + 2)

ring  == <<state, first, read, write, ready, frame, silence, skip>>
ghost == <<newest, floor, taken, astray>>
vars  == <<flush, record, ring, pause, stuck, ghost, gaps>>

-----------------------------------------------------------------------------
(* Sequence numbers.                                                       *)

\* Mutant: the counters do not wrap.
SeqUnwrapped(n) == n

Seq(n)    == n % W
Idx(s)    == s % B
Dist(a, b) == (b - a) % W

\* seq_order: b is after a, as a signed difference of 16 bits.
SeqOrder(a, b) == Dist(a, b) \in 1..(W \div 2 - 1)

\* The difference as the program's short.
Signed(d) == LET m == d % W IN IF m >= W \div 2 THEN m - W ELSE m

BufFill(r, w) == Signed(w - r + 1)

\* The number of the frame that has sequence number s, counted from the newest one.
Number(s) == newest + Signed(s - newest)

\* Mutant: one frame more is dropped.
DropOneMore(rdy, a, k) == [i \in Slots |-> rdy[i] /\ ~ \E j \in 0..k : Idx(Seq(a + j)) = i]

\* The flags once the frames from a on, k of them, are dropped.
Drop(rdy, a, k) == [i \in Slots |-> rdy[i] /\ ~ \E j \in 0..(k - 1) : Idx(Seq(a + j)) = i]

\* Of the ghost astray: the reader at r is left behind the newest packet, or behind the
\* writer when the stream has not begun.
LeftBehind(st, r, w, n) == Signed((IF st = "WAIT" THEN w ELSE n) - r) > Reach

TypeOK ==
  /\ flush \in BOOLEAN /\ record \in {"none", "told", "untold"}
  /\ state \in {"WAIT", "STREAM", "PLAY"}
  /\ first \in SeqNos \union {None}
  /\ read \in SeqNos /\ write \in SeqNos
  /\ ready \in [Slots -> BOOLEAN]
  /\ frame \in [Slots -> First..Last \union {Filler}]
  /\ pause \in BOOLEAN /\ silence \in BOOLEAN
  /\ skip \in 0..MaxGaps
  /\ stuck \in BOOLEAN
  /\ newest \in (First - 1)..Last
  /\ floor \in First..(Last + Jump) /\ taken \in (First - 1)..Last
  /\ astray \in BOOLEAN
  /\ gaps \in 0..MaxGaps

Init ==
  /\ flush \in Modes /\ record = "none"
  /\ state = "WAIT" /\ first = None
  /\ write = 0 /\ read = 1
  /\ ready = [i \in Slots |-> FALSE] /\ frame = [i \in Slots |-> Filler]
  /\ pause = FALSE /\ silence = FALSE /\ skip = 0
  /\ stuck = FALSE
  /\ newest = First - 1 /\ floor = First /\ taken = First - 1
  /\ astray = FALSE /\ gaps = 0

-----------------------------------------------------------------------------
(* raopst_record, once per session: with the first sequence number, or     *)
(* without, when a FLUSH will tell it.                                     *)

Record ==
  /\ record = "none"
  /\ \/ record' = "told" /\ first' = Seq(First)
     \/ record' = "untold" /\ first' = None
  /\ state' = "WAIT"
  /\ UNCHANGED <<flush, read, write, ready, frame, silence, skip, pause, stuck, ghost,
                 gaps>>

-----------------------------------------------------------------------------
(* raopst_flush: frame n is the first one the sender wants to hear.        *)

\* The ghost taken: the frames the sender sends again may be heard again.
Rewound(n) == IF n <= taken THEN n - 1 ELSE taken

\* Mutant: the flush of a playing stream keeps the frames in the ring.
FlushPlayingKeepsRing(n) ==
  /\ state' = "WAIT"
  /\ read' = Seq(write + 1)
  /\ astray' = FALSE /\ taken' = Rewound(n)
  /\ UNCHANGED <<write, ready, frame, silence, skip, pause>>

FlushPlaying(n) ==
  /\ ready' = [i \in Slots |-> FALSE]
  /\ state' = "WAIT"
  /\ read' = Seq(write + 1)
  /\ astray' = FALSE /\ taken' = Rewound(n)
  /\ UNCHANGED <<write, frame, silence, skip, pause>>

Flush(n) ==
  /\ record # "none" /\ ~stuck
  /\ first' = Seq(n)
  /\ n >= floor /\ floor' = n
  /\ \/ flush /\ state = "PLAY" /\ FlushPlaying(n)
     \/ /\ flush => state # "PLAY"
        /\ pause' = (pause \/ ~flush)
        /\ UNCHANGED <<state, read, write, ready, frame, silence, skip, astray, taken>>
  /\ UNCHANGED <<flush, record, stuck, newest, gaps>>

-----------------------------------------------------------------------------
(* buffer_put_packet.  The switch on the state first: what the ring is     *)
(* when the packet is put in.                                              *)

Ring == [state |-> state, first |-> first, read |-> read, write |-> write,
         ready |-> ready, silence |-> silence, skip |-> skip]

\* Mutant: the number is kept.
OpenedKeeps(s) ==
  [state |-> IF first # None THEN "PLAY" ELSE "STREAM", first |-> first,
   read |-> s, write |-> Seq(s - 1), ready |-> ready, silence |-> TRUE, skip |-> 0]

\* RTP_WAIT: the packet is the first one.
Opened(s) ==
  [state |-> IF first # None THEN "PLAY" ELSE "STREAM", first |-> None,
   read |-> s, write |-> Seq(s - 1), ready |-> ready, silence |-> TRUE, skip |-> 0]

\* RTP_STREAM and the FLUSH has come: the frames below it and those not ready are
\* discarded, up to the first that is neither.  A turn of the ring without one clears
\* every slot, and the loop never ends.
Kept(k) == LET s == Seq(read + k) IN ~SeqOrder(s, first) /\ ready[Idx(s)]
Discardable == {k \in Slots : Kept(k)}
Discarded ==
  LET k == CHOOSE k \in Discardable : \A j \in Discardable : k <= j
  IN [Ring EXCEPT !.state = "PLAY", !.first = None, !.read = Seq(read + k),
                  !.ready = Drop(ready, read, k)]

\* Where the packet goes: expected, newer than expected, recovered, or too late.
Placed(c, s) ==
  LET lag == Dist(c.read, s) - Delay + 1
  IN IF s = Seq(c.write + 1) THEN [c EXCEPT !.write = s]
     ELSE IF SeqOrder(c.write, s)
       THEN IF Delay # 0 /\ SeqOrder(Delay, Dist(c.read, s))
              THEN [c EXCEPT !.write = s, !.read = Seq(s - Delay + 1),
                             !.ready = Drop(c.ready, c.read, lag)]
              ELSE [c EXCEPT !.write = s]
     ELSE c

\* Mutant: a packet below the read pointer is stored as well.
AcceptedAlways(c, s) == TRUE
Accepted(c, s) == SeqOrder(c.write, s) \/ SeqOrder(c.read, Seq(s + 1))

\* While all was silence so far, silence is not let to pile up.
Thinned(c, quiet) ==
  IF c.silence /\ quiet /\ c.write - c.read > 1
    THEN [c EXCEPT !.ready[Idx(c.read)] = FALSE, !.read = Seq(c.read + 1)]
    ELSE c

\* Mutant: the order of the two is swapped.
ReleasedBefore(c, s) == SeqOrder(s, Seq(c.first))

\* A pause ends; with no first_seqno any more, at half of all numbers.
Released(c, s) == SeqOrder(Seq(c.first), s)

Store(c, n, quiet) ==
  LET s == Seq(n)
      p == Placed(c, s)
      t == IF Accepted(c, s)
             THEN Thinned([p EXCEPT !.ready[Idx(s)] = TRUE], quiet) ELSE p
  IN /\ state' = t.state /\ first' = t.first /\ read' = t.read /\ write' = t.write
     /\ ready' = t.ready /\ skip' = t.skip
     /\ frame' = IF Accepted(c, s) THEN [frame EXCEPT ![Idx(s)] = n] ELSE frame
     /\ silence' = (c.silence /\ ~(Accepted(c, s) /\ c.state = "PLAY" /\ ~quiet))
     /\ pause' = (pause /\ ~Released(c, s))

Ignored(s)  == first # None /\ SeqOrder(s, first)
Flushed(s)  == state = "STREAM" /\ first # None /\ SeqOrder(first, Seq(s + 1))

\* The network: a packet comes late, again, or not at all.
Receive(n) ==
  /\ record # "none" /\ ~stuck
  /\ newest' = IF n > newest THEN n ELSE newest
  /\ UNCHANGED <<flush, record, floor, taken, gaps>>

PutIgnored(n) ==
  /\ Receive(n)
  /\ Ignored(Seq(n))
  /\ astray' = (astray \/ LeftBehind(state, read, write, newest'))
  /\ UNCHANGED <<ring, pause, stuck>>

PutFirst(n, quiet) ==
  /\ Receive(n)
  /\ state = "WAIT" /\ ~Ignored(Seq(n))
  /\ Store(Opened(Seq(n)), n, quiet)
  /\ UNCHANGED <<stuck, astray>>

PutAfterFlush(n, quiet) ==
  /\ Receive(n)
  /\ Flushed(Seq(n)) /\ Discardable # {}
  /\ Store(Discarded, n, quiet)
  /\ astray' = (astray \/ BufFill(Discarded.read, write) < 0
                        \/ LeftBehind(state', read', write', newest'))
  /\ UNCHANGED stuck

PutNeverEnds(n) ==
  /\ Receive(n)
  /\ Flushed(Seq(n)) /\ Discardable = {}
  /\ ready' = [i \in Slots |-> FALSE]
  /\ stuck' = TRUE
  /\ UNCHANGED <<state, first, read, write, frame, silence, skip, pause, astray>>

Put(n, quiet) ==
  /\ Receive(n)
  /\ state # "WAIT" /\ ~Ignored(Seq(n)) /\ ~Flushed(Seq(n))
  /\ Store(Ring, n, quiet)
  /\ astray' = (astray \/ LeftBehind(state', read', write', newest'))
  /\ UNCHANGED stuck

-----------------------------------------------------------------------------
(* _buffer_get_frame, in its state after the frames to skip are skipped    *)
(* and an overrun has reset the read pointer.                              *)

Skipped == IF SeqOrder(read, write)
             THEN LET d == Dist(read, write) IN IF skip < d THEN skip ELSE d
             ELSE 0
Overran(r) == BufFill(r, write) >= B
Head ==
  LET r == Seq(read + Skipped)
  IN IF Overran(r) THEN Seq(write - (B - Headroom)) ELSE r
AfterSkip == Drop(ready, read, Skipped)

GetFrame ==
  /\ state = "PLAY" /\ ~pause /\ ~stuck
  /\ skip' = skip - Skipped
  /\ astray' = (astray \/ Overran(Seq(read + Skipped)))
  /\ UNCHANGED <<flush, record, state, first, frame, silence, pause, stuck, newest,
                 floor, gaps>>

\* The frame is not there: wait for it while there is time, or for good if the ring
\* is empty and must not be filled.
GetNothing ==
  /\ GetFrame
  /\ ~AfterSkip[Idx(Head)]
  /\ read' = Head /\ ready' = AfterSkip
  /\ UNCHANGED <<write, taken>>

\* The ring is empty: a frame of silence, and the write pointer moves too.
GetFill ==
  /\ GetFrame
  /\ BufFill(Head, write) = 0 /\ Signed(write - newest) < Ahead
  /\ HttpFill \/ AfterSkip[Idx(Head)]
  /\ read' = Seq(Head + 1) /\ write' = Seq(write + 1)
  /\ ready' = [AfterSkip EXCEPT ![Idx(Head)] = FALSE]
  /\ UNCHANGED taken

\* Its time has come and it is missing: a frame of silence in its place.
GetMissing ==
  /\ GetFrame
  /\ BufFill(Head, write) # 0 /\ ~AfterSkip[Idx(Head)]
  /\ read' = Seq(Head + 1) /\ ready' = AfterSkip
  /\ UNCHANGED <<write, taken>>

GetReady ==
  /\ GetFrame
  /\ BufFill(Head, write) # 0 /\ AfterSkip[Idx(Head)]
  /\ read' = Seq(Head + 1)
  /\ ready' = [AfterSkip EXCEPT ![Idx(Head)] = FALSE]
  /\ taken' = IF frame[Idx(Head)] = Filler THEN taken ELSE frame[Idx(Head)]
  /\ UNCHANGED write

-----------------------------------------------------------------------------
(* The NTP packet in rtp_thread_func: one frame is repeated or dropped     *)
(* when the clocks have drifted by a frame.                                *)

Correct ==
  /\ ~stuck
  /\ gaps < MaxGaps /\ gaps' = gaps + 1
  /\ UNCHANGED <<flush, record, state, first, write, silence, pause, stuck, newest,
                 floor, taken>>

\* Sending too fast: the frame before the read pointer once more.
RepeatFrame ==
  /\ Correct
  /\ LET r == Seq(read - 1)
     IN /\ read' = r
        /\ ready' = [ready EXCEPT ![Idx(r)] = TRUE]
        /\ frame' = [frame EXCEPT ![Idx(r)] = Filler]
        /\ astray' = (astray \/ LeftBehind(state, r, write, newest))
  /\ UNCHANGED skip

\* Mutant: a frame is dropped although it was the last one.
DropFrameUnchecked ==
  /\ Correct
  /\ ready' = [ready EXCEPT ![Idx(read)] = FALSE]
  /\ read' = Seq(read + 1)
  /\ UNCHANGED <<frame, skip, astray>>

\* Sending too slowly: a frame less, now or when there is one.
DropFrame ==
  /\ Correct
  /\ IF SeqOrder(read, write)
       THEN /\ ready' = [ready EXCEPT ![Idx(read)] = FALSE]
            /\ read' = Seq(read + 1)
            /\ UNCHANGED skip
       ELSE skip' = skip + 1 /\ UNCHANGED <<ready, read>>
  /\ UNCHANGED <<frame, astray>>

-----------------------------------------------------------------------------
Arrivals == {n \in First..Last : n >= newest - Late /\ n <= newest + Jump}
Wanted   == {n \in First..(Last + Jump) : n > newest - Late /\ n <= newest + Jump}

Next ==
  \/ Record
  \/ \E n \in Wanted : Flush(n)
  \/ \E n \in Arrivals : PutIgnored(n) \/ PutNeverEnds(n)
  \/ \E n \in Arrivals, quiet \in BOOLEAN :
       PutFirst(n, quiet) \/ PutAfterFlush(n, quiet) \/ Put(n, quiet)
  \/ GetNothing \/ GetFill \/ GetMissing \/ GetReady
  \/ RepeatFrame \/ DropFrame

Spec == Init /\ [][Next]_vars

-----------------------------------------------------------------------------
(* Properties *)

\* A frame that GetReady would take, read pointer and ring in order: after the reset of
\* an overrun, or once the loop of line 453 has run past the writer, they are not.
Due  == frame[Idx(Head)]
Held ==
  /\ state = "PLAY" /\ BufFill(Head, write) # 0 /\ AfterSkip[Idx(Head)]
  /\ ~astray /\ ~Overran(Seq(read + Skipped))

\* A frame about to be taken out is the one its sequence number stands for, never one
\* left in the slot a turn of the ring ago (the doubt of raop_streamer.c:882).
RightFrame ==
  Held => Due \in {Number(Head), Filler}

\* What a FLUSH threw away is not heard afterwards, short of the frames that clock
\* corrections repeat (raopst_flush and the discards of buffer_put_packet).
NothingBelowFlush ==
  Held /\ flush => Due = Filler \/ Due + gaps >= floor

\* The reader is never ahead of the writer: the fill, a short, would be negative and
\* pass for a ring that holds frames (raop_streamer.c:843, 885).
ReaderBehind ==
  ~astray => BufFill(read, write) >= 0

\* While it plays, the ring is a queue of the frames accepted: what is heard is in order and
\* nothing twice, whatever the network does to the packets, and no frame is lost from the
\* middle by a slot or a flag that is another's (buffer_put_packet, _buffer_get_frame).  A
\* ring filled by a turn or more is closed: a packet takes the slot of a frame still there.
Live     == state = "PLAY" /\ ~astray /\ BufFill(read, write) < B
Mode     == IF astray THEN "lost" ELSE IF Live THEN "open" ELSE "closed"
NextOut  == IF Live THEN Number(read) ELSE First
Holding  == {frame[i] : i \in {i \in Slots : ready[i]}} \ {Filler}
HeldBack == IF Live THEN Holding ELSE {}
Floor    == IF flush THEN floor ELSE First
Promise  == INSTANCE FrameQueue WITH
              mode <- Mode, next <- NextOut, held <- HeldBack, heard <- taken,
              floor <- Floor, repeats <- gaps
KeepsPromise == Promise!Spec

\* "release as soon as one recent frame is received" (raop_streamer.c:490): with flush
\* turned off, the first new packet beyond the one a FLUSH of the playing stream named ends
\* the pause, on whatever side of a wrap the two are.
PauseEnds ==
  [][newest' > newest /\ newest' > floor /\ state = "PLAY" /\ first # None
       => ~pause']_vars

\* "discard all packets with a seqno below first_seqno AND not ready"
\* (raop_streamer.c:452): the loop that does it ends.
DiscardEnds == ~stuck

\* "if we have a pending first seqno and we are below, always ignore it"
\* (raop_streamer.c:428): a packet after all those received, at or above the number the
\* last FLUSH gave, is not ignored.
IgnoresOnlyBelow ==
  \A n \in (newest + 1)..(newest + Jump) : n >= floor => ~Ignored(Seq(n))

\* What holds of it: with flush turned on the number is forgotten in time, by the first
\* packet in state WAIT and by the first one at or above it in state STREAM
\* (raop_streamer.c:436, 451).
ListensOn == flush => IgnoresOnlyBelow
=============================================================================
