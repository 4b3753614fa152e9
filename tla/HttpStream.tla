----------------------------- MODULE HttpStream -----------------------------
(***************************************************************************)
(* The HTTP side of a session (raop_streamer.c).  The HTTP thread serves   *)
(* one player at a time: it answers requests, takes frames from the ring,  *)
(* encodes, keeps the last Cache bytes for a player that comes again, and  *)
(* sends.  The RTSP thread records, flushes, hands over titles and ends    *)
(* the session; the RTP thread opens the encoder with the first packet.    *)
(*                                                                         *)
(* Bytes are numbered as they are encoded; the program sees only how many  *)
(* there were since the last flush, http_count.  Which frames there are    *)
(* is RtpBuffer's matter: here one is ready, or not, at any time.          *)
(***************************************************************************)
EXTENDS Integers

CONSTANTS
  Cache,      \* CACHE_SIZE
  Chunk,      \* what is sent again at a time, 16384
  Interval,   \* icy.interval, the bytes between two titles
  MaxFrame,   \* the most bytes one frame encodes to
  Delay,      \* ctx->delay, the frames of silence a stream starts with
  Flushes,    \* the values of the flush setting: FALSE pauses instead
  Ranges,     \* the positions a player asks for, 0 for a request without Range
  MaxMade     \* bound on the bytes encoded

ASSUME HttpAssumption ==
  /\ Chunk \in Nat \ {0} /\ Cache \in Nat \ {0} /\ Cache % Chunk = 0
  /\ MaxFrame \in Nat /\ MaxFrame <= Cache
  /\ Interval \in Nat /\ Interval >= MaxFrame /\ Interval > 0
  /\ Delay \in Nat /\ MaxMade \in Nat
  /\ Flushes \subseteq BOOLEAN /\ Ranges \subseteq Nat

Nobody  == -1    \* no listener
Garbage == 0     \* never written, or past the end of the cache

VARIABLES
  flush,          \* ctx->flush of the receiver
  record,         \* raopst_record was called
  state, first,   \* ctx->state, and whether ctx->first_seqno is set
  silence,        \* ctx->silence: only silence was received so far
  encoder,        \* "raw" as malloc leaves it, "open" or "closed"
  session,        \* "up", "ending" (running is false) or "freed"
  pc,             \* where the HTTP thread is; a connection is open unless "accept" or "gone"
  count,          \* ctx->http_count
  cache,          \* of each place of ctx->http_cache, the number of the byte there
  ready,          \* ctx->http_ready
  close,          \* ctx->close_socket
  quiet,          \* ctx->silence_count
  offset, done,   \* of the answer: where it begins to send again, and how much it has
  active, remain, \* ctx->icy
  title, updated, \* there is a title in ctx->metadata; ctx->icy.updated
  made,           \* the bytes encoded so far
  last, whole,    \* of the answer: the last byte sent, and whether none was missing or twice
  since,          \* of the answer: the bytes since the last title block
  sounded         \* some of the bytes since the last flush are not of start-up silence

ring  == <<flush, record, state, first, silence, encoder>>
icy   == <<active, remain, title, updated>>
ghost == <<last, whole, since, sounded>>
vars  == <<ring, session, pc, count, cache, ready, close, quiet, offset, done, icy, made,
           ghost>>

SessionType ==
  /\ flush \in BOOLEAN /\ record \in BOOLEAN
  /\ state \in {"WAIT", "STREAM", "PLAY"} /\ first \in BOOLEAN /\ silence \in BOOLEAN
  /\ encoder \in {"raw", "open", "closed"}
  /\ session \in {"up", "ending", "freed"}
  /\ title \in BOOLEAN /\ updated \in BOOLEAN

BytesType ==
  /\ made \in 0..MaxMade /\ count \in 0..made
  /\ cache \in [0..(Cache - 1) -> 0..made]
  /\ last \in 0..made \union {Nobody}

AnswerType ==
  /\ pc \in {"accept", "serve", "resend", "frame", "send", "gone"}
  /\ ready \in BOOLEAN /\ close \in BOOLEAN
  /\ offset \in Nat /\ done \in Nat
  /\ quiet \in 0..Delay
  /\ active \in BOOLEAN /\ remain \in 0..Interval
  /\ whole \in BOOLEAN /\ since \in 0..Interval /\ sounded \in BOOLEAN

TypeOK == SessionType /\ BytesType /\ AnswerType

Init ==
  /\ flush \in Flushes /\ record = FALSE
  /\ state = "WAIT" /\ first = FALSE /\ silence = FALSE /\ encoder = "raw"
  /\ session = "up" /\ pc = "accept"
  /\ count = 0 /\ cache = [i \in 0..(Cache - 1) |-> Garbage]
  /\ ready = FALSE /\ close = FALSE /\ quiet = 0
  /\ offset = 0 /\ done = 0
  /\ active = FALSE /\ remain = 0 /\ title = FALSE /\ updated = FALSE
  /\ made = 0
  /\ last = Nobody /\ whole = TRUE /\ since = 0 /\ sounded = FALSE

\* ab_mutex is free: the HTTP thread holds it while it answers and takes a frame.
Free == pc \notin {"resend", "frame"}

-----------------------------------------------------------------------------
(* The RTSP and RTP threads.                                               *)

\* raopst_record, once per session; with the first sequence number or without.
Record ==
  /\ session = "up" /\ ~record
  /\ record' = TRUE /\ first' \in BOOLEAN /\ state' = "WAIT"
  /\ UNCHANGED <<flush, silence, encoder, session, pc, count, cache, ready, close, quiet,
                 offset, done, icy, made, ghost>>

\* Mutant: a flush forgets that the bytes kept are of the old stream.
FlushPlayingKeepsCount ==
  /\ flush /\ state = "PLAY"
  /\ state' = "WAIT" /\ encoder' = "closed"
  /\ ready' = FALSE /\ close' = TRUE
  /\ sounded' = FALSE
  /\ UNCHANGED count

\* Mutant: the encoder is left open.
FlushPlayingKeepsEncoder ==
  /\ flush /\ state = "PLAY"
  /\ state' = "WAIT"
  /\ ready' = FALSE /\ close' = TRUE
  /\ count' = 0 /\ sounded' = FALSE
  /\ UNCHANGED encoder

FlushPlaying ==
  /\ flush /\ state = "PLAY"
  /\ state' = "WAIT" /\ encoder' = "closed"
  /\ ready' = FALSE /\ close' = TRUE
  /\ count' = 0 /\ sounded' = FALSE

\* raopst_flush.  With the setting off it only pauses: the ring gives silence.
Flush ==
  /\ session = "up" /\ record /\ Free
  /\ first' = TRUE
  /\ \/ FlushPlaying
     \/ /\ ~(flush /\ state = "PLAY")
        /\ UNCHANGED <<state, encoder, ready, close, count, sounded>>
  /\ UNCHANGED <<flush, record, silence, session, pc, cache, quiet, offset, done, icy, made,
                 last, whole, since>>

\* buffer_put_packet, the first packet accepted in RTP_WAIT.
FirstPacket ==
  /\ session # "freed" /\ record /\ Free
  /\ state = "WAIT"
  /\ count' = 0 /\ sounded' = FALSE /\ silence' = TRUE
  /\ IF first THEN state' = "PLAY" /\ encoder' = "open"
              ELSE state' = "STREAM" /\ UNCHANGED encoder
  /\ first' = FALSE
  /\ UNCHANGED <<flush, record, session, pc, cache, ready, close, quiet, offset, done, icy,
                 made, last, whole, since>>

\* The same, the packet after the FLUSH in RTP_STREAM.
FlushedPacket ==
  /\ session # "freed" /\ Free
  /\ state = "STREAM" /\ first
  /\ state' = "PLAY" /\ first' = FALSE /\ encoder' = "open"
  /\ UNCHANGED <<flush, record, silence, session, pc, count, cache, ready, close, quiet,
                 offset, done, icy, made, ghost>>

\* The same, the first packet with sound: "just do a refresh".
FirstSound ==
  /\ session # "freed" /\ Free
  /\ state = "PLAY" /\ silence
  /\ silence' = FALSE
  /\ updated' = (updated \/ title)
  /\ UNCHANGED <<flush, record, state, first, encoder, session, pc, count, cache, ready,
                 close, quiet, offset, done, active, remain, title, made, ghost>>

\* raopst_metadata; what only has an artwork has no title.
Metadata ==
  /\ session = "up" /\ Free
  /\ title' \in BOOLEAN /\ updated' = TRUE
  /\ UNCHANGED <<ring, session, pc, count, cache, ready, close, quiet, offset, done, active,
                 remain, made, ghost>>

\* raopst_end: running is cleared without the mutex ...
End ==
  /\ session = "up"
  /\ session' = "ending"
  /\ UNCHANGED <<ring, pc, count, cache, ready, close, quiet, offset, done, icy, made, ghost>>

\* ... and once the threads are joined everything is freed.
EndFrees ==
  /\ session = "ending" /\ pc = "gone"
  /\ session' = "freed" /\ encoder' = "closed"
  /\ UNCHANGED <<flush, record, state, first, silence, pc, count, cache, ready, close, quiet,
                 offset, done, icy, made, ghost>>

-----------------------------------------------------------------------------
(* The HTTP thread (http_thread_func): a connection, then a request or     *)
(* none, then a frame or none.                                             *)

Minimum(a, b) == IF a < b THEN a ELSE b

Accept ==
  /\ pc = "accept" /\ session = "up"
  /\ pc' = "serve"
  /\ UNCHANGED <<ring, session, count, cache, ready, close, quiet, offset, done, icy, made,
                 ghost>>

\* The player asks for nothing.
NoRequest ==
  /\ pc = "serve" /\ session = "up"
  /\ pc' = "frame"
  /\ UNCHANGED <<ring, session, count, cache, ready, close, quiet, offset, done, icy, made,
                 ghost>>

\* Where a Range is answered from: "the position in the memorized data".
Offset(range) ==
  IF range # 0 /\ count > Cache THEN Minimum(range, count - Cache - 1) ELSE 0

\* Whether anything is sent again: the range, or all there is if all is still there.
\* Mutant: also when not all is there.
SendsAgainAlways(o) == o # 0 \/ count # 0
SendsAgain(o) == o # 0 \/ count \in 1..Cache

\* How many frames of silence the stream starts with, given what the ring holds.
\* Mutant: whether it has started or not.
StartSilenceAlways == 0..Delay
StartSilence == IF count = 0 THEN 0..Delay ELSE {quiet}

\* handle_http, a GET that is answered.
Answer(range) ==
  /\ pc = "serve" /\ session = "up"
  /\ active' \in BOOLEAN
  /\ remain' = IF active' THEN Interval ELSE remain
  /\ offset' = Offset(range) /\ done' = 0
  /\ ready' = TRUE
  /\ IF SendsAgain(offset')
       THEN pc' = "resend" /\ quiet' = 0 /\ last' = made - count + offset'
       ELSE pc' = "frame" /\ quiet' \in StartSilence /\ last' = made
  /\ whole' = TRUE /\ since' = 0
  /\ UNCHANGED <<ring, session, count, cache, close, title, updated, made, sounded>>

\* A HEAD, a request that cannot be read, a connection that broke: it is closed.
Refuse ==
  /\ pc = "serve" /\ session = "up"
  /\ \/ UNCHANGED <<active, remain>>
     \/ active' \in BOOLEAN /\ remain' = IF active' THEN Interval ELSE remain
  /\ quiet' \in StartSilence
  /\ pc' = "accept" /\ ready' = FALSE /\ close' = FALSE
  /\ last' = Nobody
  /\ UNCHANGED <<ring, session, count, cache, offset, done, title, updated, made, whole,
                 since, sounded>>

-----------------------------------------------------------------------------
(* handle_http sends again, with ab_mutex held.                            *)

Rest == count - offset - done
Size == Minimum(IF active THEN remain ELSE Chunk, Rest)

Kept(place) == IF place < Cache THEN cache[place] ELSE Garbage

\* The bytes sent are those that follow the last one.
Follows(sent) ==
  \A j \in 1..sent : Kept(((offset + done) % Cache) + j - 1) = last + j

\* A title block, empty, is due when nothing of the interval remains.
\* Mutant: the interval does not begin anew.
TitleDueNever(sent) == FALSE
TitleDue(sent) == remain = sent

Resend ==
  /\ pc = "resend"
  /\ \E sent \in 1..Size :
       /\ done' = done + sent
       /\ pc' = IF sent = Rest THEN "frame" ELSE "resend"
       /\ remain' = IF ~active THEN remain
                    ELSE IF TitleDue(sent) THEN Interval ELSE remain - sent
       /\ since' = IF ~active \/ TitleDue(sent) THEN 0 ELSE since + sent
       /\ whole' = (whole /\ Follows(sent))
       /\ last' = last + sent
  /\ UNCHANGED <<ring, session, count, cache, ready, close, quiet, offset, active, title,
                 updated, made, sounded>>

\* send fails; the request counts as answered all the same.
ResendFails ==
  /\ pc = "resend"
  /\ pc' = "frame" /\ last' = Nobody
  /\ UNCHANGED <<ring, session, count, cache, ready, close, quiet, offset, done, icy, made,
                 whole, since, sounded>>

-----------------------------------------------------------------------------
(* http_thread_func takes a frame, still with ab_mutex, and sends without. *)

\* Mutant: only a player that was answered is hung up on.
CloseAnswered ==
  /\ pc = "frame" /\ close /\ ready
  /\ pc' = "accept" /\ ready' = FALSE /\ close' = FALSE
  /\ last' = Nobody
  /\ UNCHANGED <<ring, session, count, cache, quiet, offset, done, icy, made, whole, since,
                 sounded>>

Close ==
  /\ pc = "frame" /\ close
  /\ pc' = "accept" /\ ready' = FALSE /\ close' = FALSE
  /\ last' = Nobody
  /\ UNCHANGED <<ring, session, count, cache, quiet, offset, done, icy, made, whole, since,
                 sounded>>

NoFrame ==
  /\ pc = "frame" /\ ~close
  /\ pc' = "serve"
  /\ UNCHANGED <<ring, session, count, cache, ready, close, quiet, offset, done, icy, made,
                 ghost>>

\* The k bytes of a frame are kept, over the oldest ones.
Stored(k) ==
  [i \in 0..(Cache - 1) |->
     LET j == (i - count) % Cache IN IF j < k THEN made + j + 1 ELSE cache[i]]

\* A title block comes within the bytes of the frame; the title there is goes with it.
\* Mutant: it does not count what of the frame comes after the block.
TitleWithinForgets(k) ==
  /\ remain' = Interval
  /\ since' = k - remain
  /\ updated' = FALSE /\ title' = (title /\ ~updated)

TitleWithin(k) ==
  /\ remain' = Interval - (k - remain)
  /\ since' = k - remain
  /\ updated' = FALSE /\ title' = (title /\ ~updated)

NoTitle(k) ==
  /\ remain' = IF active THEN remain - k ELSE remain
  /\ since' = IF active THEN since + k ELSE 0
  /\ UNCHANGED <<title, updated>>

\* Mutant: the silence is counted down past its end.
SilenceLeftUnchecked == quiet - 1
SilenceLeft == IF quiet = 0 THEN 0 ELSE quiet - 1

Encode(k) ==
  /\ pc = "frame" /\ ~close
  /\ ready /\ state = "PLAY"
  /\ made + k <= MaxMade
  /\ quiet' = SilenceLeft
  /\ sounded' = (sounded \/ (quiet = 0 /\ k > 0))
  /\ cache' = Stored(k) /\ count' = count + k
  /\ made' = made + k
  /\ IF active /\ k > remain THEN TitleWithin(k) ELSE NoTitle(k)
  /\ whole' = (whole /\ last \in {made, Nobody})
  /\ last' = IF last = Nobody THEN Nobody ELSE made'
  /\ pc' = IF k = 0 THEN "serve" ELSE "send"
  /\ UNCHANGED <<ring, session, ready, close, offset, done, active>>

\* send returns: all is sent, or the connection is lost and that is only logged.
Sent ==
  /\ pc = "send"
  /\ pc' = "serve"
  /\ last' \in {last, Nobody}
  /\ UNCHANGED <<ring, session, count, cache, ready, close, quiet, offset, done, icy, made,
                 whole, since, sounded>>

HttpExit ==
  /\ pc \in {"accept", "serve"} /\ session # "up"
  /\ pc' = "gone"
  /\ UNCHANGED <<ring, session, count, cache, ready, close, quiet, offset, done, icy, made,
                 ghost>>

-----------------------------------------------------------------------------
Requests == Refuse \/ \E range \in Ranges : Answer(range)
Frames   == NoFrame \/ \E k \in 0..MaxFrame : Encode(k)
HttpThread == NoRequest \/ Requests \/ Resend \/ Close \/ Frames \/ Sent \/ HttpExit

Next ==
  \/ Record \/ Flush \/ Metadata \/ End \/ EndFrees
  \/ FirstPacket \/ FlushedPacket \/ FirstSound
  \/ Accept \/ ResendFails \/ HttpThread

Spec == Init /\ [][Next]_vars

\* The threads run and send returns; it need not fail.
FairSpec == Spec /\ WF_vars(HttpThread) /\ WF_vars(EndFrees)

-----------------------------------------------------------------------------
(* Properties *)

\* The player hears one piece of the stream, without gap or repeat, from its beginning
\* or from the live end, and nothing from before a FLUSH (http_cache, http_count,
\* close_socket together).  A Range answered from elsewhere than the beginning is taken
\* out: see RangeFromMemory.
Listening == offset = 0 /\ (pc = "resend" \/ ready)
Begins    == made - count
Heard     == IF ~Listening THEN Nobody ELSE IF whole THEN last ELSE Garbage - 2
Promise   == INSTANCE Playback WITH start <- Begins, at <- Heard
KeepsPromise == Promise!Spec

\* Two title blocks are exactly Interval bytes apart, whether the bytes between them are
\* sent again or live, or the block comes within a frame (icy.remain).
TitleEveryInterval ==
  active /\ ready => since + remain = Interval

\* "only send silence when it's the first GET (or after a flush)"
\* (raop_streamer.c:972): start-up silence never comes after sound.
SilenceFirst == quiet > 0 => ~sounded

\* What the encoder is asked to encode it has been opened for, and it is opened only
\* when it is not (encoder_open forgets what was allocated).
EncoderOpen == state = "PLAY" /\ session # "freed" <=> encoder = "open"

\* TEARDOWN's raopst_end comes to its end, whatever the player does, if send returns.
Ends == session = "ending" ~> session = "freed"

\* A FLUSH of a playing stream hangs up on the player that listened to it.
HangsUp == close /\ pc # "accept" ~> pc \in {"accept", "gone"}

\* "try to find the position in the memorized data" (raop_streamer.c:1112): what is sent
\* again for a Range is still in the cache.
RangeFromMemory ==
  pc = "resend" => count - offset <= Cache
=============================================================================
