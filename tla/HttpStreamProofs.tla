-------------------------- MODULE HttpStreamProofs --------------------------
(* What HttpStream guarantees for every size of cache, frame, interval and  *)
(* start-up silence: types, titles, silence, the encoder's turns, and the   *)
(* promise of Playback to whoever listens.                                  *)
EXTENDS HttpStream, Moduli, TLAPS

-----------------------------------------------------------------------------
(* The inductive invariant *)

\* Where the HTTP thread stands in the answer: what it has sent again ends where it goes on,
\* and once it is through it has sent all there is.
Sending ==
  /\ pc = "resend" =>
       /\ ready
       /\ offset + done < count
       /\ last = made - count + offset + done
       /\ IF offset = 0 THEN count <= Cache ELSE count - offset > Cache
  /\ ready /\ pc # "resend" => last \in {made, Nobody}
  /\ ready /\ offset = 0 => whole

\* The cache holds the last Cache bytes since the last flush, each where its number puts it.
Memory ==
  \A i \in 0..(count - 1) :
    i + Cache >= count => cache[i % Cache] = made - count + i + 1

\* Nothing is encoded, and nothing sounds, before the stream plays.
Starting ==
  /\ count = 0 => ~sounded
  /\ state # "PLAY" => count = 0
  /\ ~record => state = "WAIT"

IInv ==
  /\ TypeOK /\ Sending /\ Memory /\ Starting
  /\ TitleEveryInterval /\ SilenceFirst /\ EncoderOpen

-----------------------------------------------------------------------------
(* Small facts *)

LEMMA Constants ==
  /\ Chunk \in Nat /\ Chunk > 0 /\ Cache \in Nat /\ Cache > 0
  /\ MaxFrame \in Nat /\ MaxFrame <= Cache
  /\ Interval \in Nat /\ Interval >= MaxFrame /\ Interval > 0
  /\ Delay \in Nat /\ MaxMade \in Nat
  /\ Flushes \subseteq BOOLEAN /\ Ranges \subseteq Nat
BY HttpAssumption

\* A place before the end of the cache is itself; one a turn back comes after it.
LEMMA Places ==
  ASSUME NEW n \in Nat, n > 0, NEW a \in Int
  PROVE  /\ a % n \in 0..(n - 1)
         /\ 0 <= a /\ a < n => a % n = a
         /\ a < 0 /\ a + n >= 0 => a % n = a + n
BY SMT

LEMMA MinimumIs ==
  ASSUME NEW a \in Int, NEW b \in Int
  PROVE  /\ Minimum(a, b) \in Int
         /\ Minimum(a, b) <= a /\ Minimum(a, b) <= b
         /\ Minimum(a, b) = a \/ Minimum(a, b) = b
BY DEF Minimum

\* An answer begins within what there is, and sends again only if something is left.
LEMMA OffsetWithin ==
  ASSUME TypeOK, NEW range \in Ranges
  PROVE  /\ Offset(range) \in Nat /\ Offset(range) <= count
         /\ SendsAgain(Offset(range)) => Offset(range) < count
         /\ SendsAgain(Offset(range)) /\ Offset(range) = 0 => count <= Cache
         /\ Offset(range) # 0 => count - Offset(range) > Cache
<1>1. range \in Nat /\ count \in Nat
  BY Constants DEF TypeOK, SessionType, BytesType, AnswerType
<1>2. CASE range # 0 /\ count > Cache
  <2>1. Minimum(range, count - Cache - 1) \in Nat
    BY <1>1, <1>2, Constants DEF Minimum
  <2>2. Minimum(range, count - Cache - 1) <= count - Cache - 1
    BY <1>1, <1>2, MinimumIs, Constants
  <2>3. Offset(range) = Minimum(range, count - Cache - 1)
    BY <1>2 DEF Offset
  <2> HIDE DEF Offset, Minimum
  <2>4. SendsAgain(Offset(range)) /\ Offset(range) = 0 => count <= Cache
    BY <1>1, Constants DEF SendsAgain
  <2> QED
    BY <1>1, <1>2, <2>1, <2>2, <2>3, <2>4, Constants
<1>3. CASE ~(range # 0 /\ count > Cache)
  BY <1>1, <1>3, Constants DEF Offset, SendsAgain
<1> QED
  BY <1>2, <1>3

\* What is sent at a time is left of what is sent again, and of the interval.
LEMMA SizeWithin ==
  ASSUME TypeOK, NEW sent \in 1..Size
  PROVE  /\ sent \in Nat /\ sent >= 1 /\ sent <= count - offset - done
         /\ active => sent <= remain
<1>1. remain \in Int /\ count \in Int /\ offset \in Int /\ done \in Int /\ active \in BOOLEAN
  BY Constants DEF TypeOK, SessionType, BytesType, AnswerType
<1>2. CASE active
  BY <1>1, <1>2, MinimumIs DEF Size, Rest
<1>3. CASE ~active
  BY <1>1, <1>3, MinimumIs, Constants DEF Size, Rest
<1> QED
  BY <1>1, <1>2, <1>3

\* A frame stored leaves bytes of the stream in every place, and lands behind those kept
\* while all fits.
LEMMA StoredType ==
  ASSUME TypeOK, NEW k \in 0..MaxFrame
  PROVE  Stored(k) \in [0..(Cache - 1) -> 0..(made + k)]
<1> SUFFICES ASSUME NEW i \in 0..(Cache - 1)
             PROVE  (IF (i - count) % Cache < k THEN made + ((i - count) % Cache) + 1
                                                ELSE cache[i]) \in 0..(made + k)
  BY DEF Stored
<1>1. count \in Nat /\ made \in Nat /\ cache[i] \in 0..made
  BY Constants DEF TypeOK, SessionType, BytesType, AnswerType
<1>2. (i - count) % Cache \in 0..(Cache - 1)
  BY <1>1, Places, Constants
<1> QED
  BY <1>1, <1>2, Constants

LEMMA StoredBehind ==
  ASSUME TypeOK, Memory, NEW k \in 0..MaxFrame,
         NEW i \in 0..(count + k - 1), i + Cache >= count + k
  PROVE  Stored(k)[i % Cache] = made - count + i + 1
<1>1. /\ count \in Nat /\ made \in Nat /\ k \in Nat /\ i \in Nat /\ i < count + k
      /\ Cache \in Nat \ {0} /\ k <= Cache
  BY Constants DEF TypeOK, SessionType, BytesType, AnswerType
<1>2. PICK q \in Int, p \in 0..(Cache - 1) : i = Cache * q + p /\ p = i % Cache
  <2>1. i \in Int /\ Cache \in Nat \ {0}
    BY <1>1
  <2> QED
    BY <2>1, Division
<1>3. (p - count) % Cache = (i - count) % Cache
  <2>1. (Cache * q + (p - count)) % Cache = (p - count) % Cache
    <3>1. p - count \in Int /\ q \in Int /\ Cache \in Nat \ {0}
      BY <1>1
    <3> QED
      BY <3>1, Turns
  <2>2. Cache * q + (p - count) = i - count
    <3>1. \A x \in Int : i = x + p => x + (p - count) = i - count
      BY <1>1
    <3>2. Cache * q \in Int
      BY <1>1
    <3> QED
      BY <1>2, <3>1, <3>2
  <2> QED
    BY <2>1, <2>2
<1>4. Stored(k)[p] = IF (i - count) % Cache < k THEN made + ((i - count) % Cache) + 1
                                                ELSE cache[p]
  BY <1>1, <1>3 DEF Stored
<1>5. CASE i < count
  <2>1. (i - count) % Cache = i - count + Cache
    BY <1>1, <1>5, Places
  <2>2. i \in 0..(count - 1) /\ i + Cache >= count
    BY <1>1, <1>5
  <2>3. cache[i % Cache] = made - count + i + 1
    BY <2>2, Zenon DEF Memory
  <2>4. ~((i - count) % Cache < k)
    BY <1>1, <2>1
  <2> QED
    BY <1>2, <1>4, <2>3, <2>4
<1>6. CASE i >= count
  <2>1. (i - count) % Cache = i - count
    BY <1>1, <1>6, Places
  <2>2. Stored(k)[p] = made + (i - count) + 1
    BY <1>1, <1>4, <1>6, <2>1
  <2>3. made + (i - count) + 1 = made - count + i + 1
    BY <1>1
  <2> QED
    BY <1>2, <2>2, <2>3
<1> QED
  BY <1>1, <1>5, <1>6

\* What is sent again from the beginning follows on what was sent.
LEMMA AllFollows ==
  ASSUME TypeOK, Memory, Sending, pc = "resend", offset = 0, NEW sent \in 1..Size
  PROVE  Follows(sent)
<1> SUFFICES ASSUME NEW j \in 1..sent
             PROVE  Kept(((offset + done) % Cache) + j - 1) = last + j
  BY DEF Follows
<1>1. /\ count \in Nat /\ made \in Nat /\ done \in Nat /\ j \in Nat /\ j >= 1
      /\ sent \in Nat /\ sent <= count - done /\ j <= sent
      /\ count <= Cache /\ last = made - count + done
  BY SizeWithin, Constants DEF TypeOK, SessionType, BytesType, AnswerType, Sending
<1>2. (offset + done) % Cache = done
  BY <1>1, Places, Constants
<1>3. Kept(done + j - 1) = cache[done + j - 1]
  BY <1>1, Constants DEF Kept
<1>4. cache[done + j - 1] = made - count + (done + j - 1) + 1
  <2>1. (done + j - 1) % Cache = done + j - 1
    BY <1>1, Places, Constants
  <2>2. done + j - 1 \in 0..(count - 1) /\ (done + j - 1) + Cache >= count
    BY <1>1, Constants
  <2> QED
    BY <2>1, <2>2 DEF Memory
<1> QED
  BY <1>1, <1>2, <1>3, <1>4

-----------------------------------------------------------------------------
(* Every step keeps the invariant, part by part. *)

\* The types, part by part.
LEMMA SessionTypeStep ==
  ASSUME IInv, [Next]_vars
  PROVE  SessionType'
<1>1. CASE Record
  BY <1>1, Zenon DEF Record, icy, IInv, TypeOK, SessionType
<1>2. CASE FlushedPacket
  BY <1>2, Zenon DEF FlushedPacket, icy, IInv, TypeOK, SessionType
<1>3. CASE End
  BY <1>3, Zenon DEF End, ring, icy, IInv, TypeOK, SessionType
<1>4. CASE EndFrees
  BY <1>4, Zenon DEF EndFrees, icy, IInv, TypeOK, SessionType
<1>5. CASE Flush
  BY <1>5, Zenon DEF Flush, FlushPlaying, icy, IInv, TypeOK, SessionType
<1>6. CASE FirstPacket
  BY <1>6, Zenon DEF FirstPacket, icy, IInv, TypeOK, SessionType
<1>7. CASE FirstSound
  BY <1>7, Zenon DEF FirstSound, ghost, IInv, TypeOK, SessionType
<1>8. CASE Metadata
  BY <1>8, Zenon DEF Metadata, ring, ghost, IInv, TypeOK, SessionType
<1>9. ASSUME NEW k \in 0..MaxFrame, Encode(k) PROVE SessionType'
  BY <1>9 DEF Encode, TitleWithin, NoTitle, ring, IInv, TypeOK, SessionType
<1>10. CASE Accept \/ NoRequest \/ (\E range \in Ranges : Answer(range)) \/ Refuse \/
            Resend \/ ResendFails \/ Close \/ NoFrame \/ Sent \/ HttpExit \/
            UNCHANGED vars
  <2>1. UNCHANGED <<flush, record, state, first, silence, encoder, session, title,
                     updated>>
    BY <1>10
       DEF vars, ring, icy, ghost, Accept, NoRequest, Answer, Refuse, Resend,
           ResendFails, Close, NoFrame, Sent, HttpExit
  <2> QED
    BY <2>1, Zenon DEF IInv, TypeOK, SessionType
<1> QED
  BY <1>1, <1>2, <1>3, <1>4, <1>5, <1>6, <1>7, <1>8, <1>9, <1>10
     DEF Next, HttpThread, Requests, Frames

LEMMA BytesTypeStep ==
  ASSUME IInv, [Next]_vars
  PROVE  BytesType'
<1>1. CASE Flush
  BY <1>1 DEF Flush, FlushPlaying, IInv, TypeOK, BytesType
<1>2. CASE FirstPacket
  BY <1>2, Constants DEF FirstPacket, IInv, TypeOK, BytesType
<1>3. ASSUME NEW range \in Ranges, Answer(range) PROVE BytesType'
  <2>1. /\ offset' \in Nat /\ offset' <= count /\ count \in 0..made /\ made \in Nat
        /\ SendsAgain(offset') => offset' < count
    BY <1>3, OffsetWithin, Constants DEF Answer, IInv, TypeOK, BytesType
  <2>2. last' \in 0..made
    BY <1>3, <2>1 DEF Answer
  <2> QED
    BY <1>3, <2>2 DEF Answer, IInv, TypeOK, BytesType
<1>4. CASE Resend
  <2>1. PICK sent \in 1..Size : last' = last + sent
    BY <1>4 DEF Resend
  <2>2. /\ sent \in Nat /\ sent <= count - offset - done
        /\ last = made - count + offset + done
        /\ count \in 0..made /\ made \in Nat /\ offset \in Nat /\ done \in Nat
    BY <1>4, SizeWithin, Constants
       DEF Resend, IInv, Sending, TypeOK, BytesType, AnswerType
  <2>3. last' \in 0..made
    BY <2>1, <2>2
  <2> QED
    BY <1>4, <2>3 DEF Resend, IInv, TypeOK, BytesType
<1>5. ASSUME NEW k \in 0..MaxFrame, Encode(k) PROVE BytesType'
  <2>1. count \in 0..made /\ made \in Nat /\ k \in Nat
    BY <1>5, Constants DEF IInv, TypeOK, BytesType
  <2>2. made' \in 0..MaxMade /\ count' \in 0..made'
    BY <1>5, <2>1, Constants DEF Encode
  <2>3. cache' \in [0..(Cache - 1) -> 0..made']
    BY <1>5, StoredType DEF Encode, IInv
  <2>4. last' \in 0..made' \union {Nobody}
    BY <1>5, <2>2, Constants DEF Encode
  <2> QED
    BY <2>2, <2>3, <2>4 DEF BytesType
<1>6. CASE Record \/ FlushedPacket \/ FirstSound \/ Metadata \/ End \/ EndFrees \/
           Accept \/ NoRequest \/ Refuse \/ ResendFails \/ Close \/ NoFrame \/ Sent \/
           HttpExit \/ UNCHANGED vars
  BY <1>6
     DEF IInv, TypeOK, BytesType, vars, ring, icy, ghost, Record, FlushedPacket,
         FirstSound, Metadata, End, EndFrees, Accept, NoRequest, Refuse, ResendFails,
         Close, NoFrame, Sent, HttpExit
<1> QED
  BY <1>1, <1>2, <1>3, <1>4, <1>5, <1>6 DEF Next, HttpThread, Requests, Frames

LEMMA AnswerTypeStep ==
  ASSUME IInv, [Next]_vars
  PROVE  AnswerType'
<1>1. CASE Flush
  BY <1>1 DEF Flush, FlushPlaying, icy, IInv, TypeOK, AnswerType
<1>2. ASSUME NEW range \in Ranges, Answer(range) PROVE AnswerType'
  <2>1. offset' \in Nat
    BY <1>2, OffsetWithin DEF Answer, IInv
  <2>2. remain' \in 0..Interval /\ active' \in BOOLEAN
    BY <1>2, Constants DEF Answer, IInv, TypeOK, AnswerType
  <2>3. quiet' \in 0..Delay
    BY <1>2, Constants DEF Answer, StartSilence, IInv, TypeOK, AnswerType
  <2> QED
    BY <1>2, <2>1, <2>2, <2>3, Constants DEF Answer, IInv, TypeOK, AnswerType
<1>3. CASE Refuse
  <2>1. remain' \in 0..Interval /\ active' \in BOOLEAN
    BY <1>3, Constants DEF Refuse, IInv, TypeOK, AnswerType
  <2>2. quiet' \in 0..Delay
    BY <1>3, Constants DEF Refuse, StartSilence, IInv, TypeOK, AnswerType
  <2> QED
    BY <1>3, <2>1, <2>2 DEF Refuse, IInv, TypeOK, AnswerType
<1>4. CASE Resend
  <2>1. PICK sent \in 1..Size :
          /\ done' = done + sent
          /\ pc' = IF sent = Rest THEN "frame" ELSE "resend"
          /\ remain' = IF ~active THEN remain
                       ELSE IF TitleDue(sent) THEN Interval ELSE remain - sent
          /\ since' = IF ~active \/ TitleDue(sent) THEN 0 ELSE since + sent
          /\ whole' = (whole /\ Follows(sent))
    BY <1>4 DEF Resend
  <2>2. /\ sent \in Nat /\ done \in Nat /\ whole \in BOOLEAN /\ active \in BOOLEAN
        /\ active => sent <= remain /\ since + remain = Interval
        /\ remain \in 0..Interval /\ since \in 0..Interval
    BY <1>4, SizeWithin, Constants
       DEF Resend, IInv, Sending, TitleEveryInterval, TypeOK, AnswerType
  <2>3. remain' \in 0..Interval /\ since' \in 0..Interval
    BY <2>1, <2>2, Constants DEF TitleDue
  <2>4. done' \in Nat /\ whole' \in BOOLEAN /\ pc' \in {"resend", "frame"}
    BY <2>1, <2>2
  <2> QED
    BY <1>4, <2>3, <2>4 DEF Resend, IInv, TypeOK, AnswerType
<1>5. ASSUME NEW k \in 0..MaxFrame, Encode(k) PROVE AnswerType'
  <2>1. /\ k \in Nat /\ k <= Interval /\ active \in BOOLEAN
        /\ quiet \in 0..Delay /\ remain \in 0..Interval /\ since \in 0..Interval
        /\ active => since + remain = Interval
    BY <1>5, Constants DEF Encode, IInv, TypeOK, AnswerType, TitleEveryInterval
  <2>2. quiet' \in 0..Delay
    BY <1>5, <2>1, Constants DEF Encode, SilenceLeft
  <2>3. remain' \in 0..Interval /\ since' \in 0..Interval
    BY <1>5, <2>1, Constants DEF Encode, TitleWithin, NoTitle
  <2>4. whole' \in BOOLEAN /\ sounded' \in BOOLEAN
    BY <1>5 DEF Encode
  <2>5. pc' \in {"serve", "send"}
    BY <1>5 DEF Encode
  <2> QED
    BY <1>5, <2>2, <2>3, <2>4, <2>5 DEF Encode, IInv, TypeOK, AnswerType
<1>6. CASE Record \/ FirstPacket \/ FlushedPacket \/ FirstSound \/ Metadata \/ End \/
           EndFrees
  BY <1>6, Constants
     DEF IInv, TypeOK, AnswerType, ring, icy, ghost, Record, FirstPacket, FlushedPacket,
         FirstSound, Metadata, End, EndFrees
<1>7. CASE Accept \/ NoRequest \/ ResendFails \/ Close \/ NoFrame \/ Sent \/ HttpExit \/
           UNCHANGED vars
  BY <1>7, Constants
     DEF IInv, TypeOK, AnswerType, vars, ring, icy, ghost, Accept, NoRequest, ResendFails,
         Close, NoFrame, Sent, HttpExit
<1> QED
  BY <1>1, <1>2, <1>3, <1>4, <1>5, <1>6, <1>7 DEF Next, HttpThread, Requests, Frames

\* Where the answer stands.
LEMMA SendingStep ==
  ASSUME IInv, [Next]_vars
  PROVE  Sending'
<1>1. CASE Flush
  BY <1>1 DEF Flush, FlushPlaying, Free, IInv, Sending
<1>2. ASSUME NEW range \in Ranges, Answer(range) PROVE Sending'
  <2>1. /\ offset' \in Nat /\ count \in Nat /\ made \in Nat
        /\ SendsAgain(offset') => offset' < count
        /\ SendsAgain(offset') /\ offset' = 0 => count <= Cache
        /\ offset' # 0 => count - offset' > Cache
    BY <1>2, OffsetWithin, Constants
       DEF Answer, IInv, TypeOK, SessionType, BytesType, AnswerType
  <2> QED
    BY <1>2, <2>1 DEF Answer, Sending
<1>3. CASE Resend
  <2>1. PICK sent \in 1..Size :
          /\ done' = done + sent
          /\ pc' = IF sent = Rest THEN "frame" ELSE "resend"
          /\ whole' = (whole /\ Follows(sent))
          /\ last' = last + sent
    BY <1>3 DEF Resend
  <2>2. /\ sent \in Nat /\ sent <= count - offset - done
        /\ last = made - count + offset + done /\ ready
        /\ IF offset = 0 THEN count <= Cache ELSE count - offset > Cache
        /\ offset = 0 => whole
        /\ whole \in BOOLEAN
        /\ count \in Nat /\ made \in Nat /\ offset \in Nat /\ done \in Nat
    BY <1>3, SizeWithin, Constants
       DEF Resend, IInv, Sending, TypeOK, SessionType, BytesType, AnswerType
  <2>3. offset = 0 => Follows(sent)
    BY <1>3, AllFollows DEF Resend, IInv
  <2>4. /\ ready' = ready /\ count' = count /\ offset' = offset /\ made' = made
    BY <1>3 DEF Resend
  <2>5. sent = Rest <=> offset + done' = count
    BY <2>1, <2>2 DEF Rest
  <2>6. last' = made - count + offset + done'
    BY <2>1, <2>2
  <2>7. offset + done' <= count
    BY <2>1, <2>2
  <2>8. CASE sent = Rest
    BY <2>1, <2>2, <2>3, <2>4, <2>5, <2>6, <2>8 DEF Sending
  <2>9. CASE sent # Rest
    BY <2>1, <2>2, <2>3, <2>4, <2>5, <2>6, <2>7, <2>9 DEF Sending
  <2> QED
    BY <2>8, <2>9
<1>4. ASSUME NEW k \in 0..MaxFrame, Encode(k) PROVE Sending'
  <2>1. last \in {made, Nobody} /\ (offset = 0 => whole)
    BY <1>4 DEF Encode, IInv, Sending
  <2> QED
    BY <1>4, <2>1 DEF Encode, Sending
<1>5. CASE Record \/ FirstPacket \/ FlushedPacket \/ FirstSound \/ Metadata \/ End \/
           EndFrees \/ Accept \/ NoRequest \/ Refuse \/ ResendFails \/ Close \/
           NoFrame \/ Sent \/ HttpExit \/ UNCHANGED vars
  BY <1>5
     DEF IInv, Sending, Free, vars, ring, icy, ghost, Record, FirstPacket,
         FlushedPacket, FirstSound, Metadata, End, EndFrees, Accept, NoRequest, Refuse,
         ResendFails, Close, NoFrame, Sent, HttpExit
<1> QED
  BY <1>1, <1>2, <1>3, <1>4, <1>5 DEF Next, HttpThread, Requests, Frames

\* The cache.
LEMMA MemoryStep ==
  ASSUME IInv, [Next]_vars
  PROVE  Memory'
<1>1. CASE Flush
  BY <1>1, Constants DEF Flush, FlushPlaying, IInv, Memory, TypeOK, BytesType
<1>2. ASSUME NEW k \in 0..MaxFrame, Encode(k) PROVE Memory'
  <2>1. count \in Nat /\ made \in Nat /\ k \in Nat
    BY <1>2, Constants DEF IInv, TypeOK, SessionType, BytesType, AnswerType
  <2>2. cache' = Stored(k) /\ count' = count + k /\ made' = made + k
    BY <1>2 DEF Encode
  <2> SUFFICES ASSUME NEW i \in 0..(count' - 1), i + Cache >= count'
               PROVE  cache'[i % Cache] = made' - count' + i + 1
    BY DEF Memory
  <2>3. i \in 0..(count + k - 1) /\ i + Cache >= count + k
    BY <2>1, <2>2
  <2>4. Stored(k)[i % Cache] = made - count + i + 1
    BY <2>3, StoredBehind DEF IInv
  <2>5. made' - count' = made - count
    BY <2>1, <2>2
  <2> QED
    BY <2>2, <2>4, <2>5
<1>3. CASE Record \/ FirstPacket \/ FlushedPacket \/ FirstSound \/ Metadata \/ End \/
           EndFrees \/ Accept \/ NoRequest \/ (\E range \in Ranges : Answer(range)) \/
           Refuse \/ Resend \/ ResendFails \/ Close \/ NoFrame \/ Sent \/ HttpExit \/
           UNCHANGED vars
  BY <1>3
     DEF IInv, Memory, vars, ring, icy, ghost, Record, FirstPacket, FlushedPacket,
         FirstSound, Metadata, End, EndFrees, Accept, NoRequest, Answer, Refuse, Resend,
         ResendFails, Close, NoFrame, Sent, HttpExit
<1> QED
  BY <1>1, <1>2, <1>3 DEF Next, HttpThread, Requests, Frames

\* The beginning of a stream.
LEMMA StartingStep ==
  ASSUME IInv, [Next]_vars
  PROVE  Starting'
<1>1. ASSUME NEW k \in 0..MaxFrame, Encode(k) PROVE Starting'
  <2>1. count \in Nat /\ k \in Nat /\ sounded \in BOOLEAN
    BY <1>1, Constants DEF IInv, TypeOK, SessionType, BytesType, AnswerType
  <2> QED
    BY <1>1, <2>1 DEF Encode, ring, IInv, Starting
<1>2. CASE Record \/ Flush \/ FirstPacket \/ FlushedPacket \/ FirstSound \/ Metadata \/
           End \/ EndFrees \/ Accept \/ NoRequest \/
           (\E range \in Ranges : Answer(range)) \/ Refuse \/ Resend \/ ResendFails \/
           Close \/ NoFrame \/ Sent \/ HttpExit \/ UNCHANGED vars
  BY <1>2
     DEF IInv, Starting, FlushPlaying, vars, ring, icy, ghost, Record, Flush,
         FirstPacket, FlushedPacket, FirstSound, Metadata, End, EndFrees, Accept,
         NoRequest, Answer, Refuse, Resend, ResendFails, Close, NoFrame, Sent, HttpExit
<1> QED
  BY <1>1, <1>2 DEF Next, HttpThread, Requests, Frames

\* The interval.
LEMMA TitleStep ==
  ASSUME IInv, [Next]_vars
  PROVE  TitleEveryInterval'
<1>1. ASSUME NEW range \in Ranges, Answer(range) PROVE TitleEveryInterval'
  BY <1>1, Constants DEF Answer, TitleEveryInterval
<1>2. CASE Resend
  <2>1. PICK sent \in 1..Size :
          /\ remain' = IF ~active THEN remain
                       ELSE IF TitleDue(sent) THEN Interval ELSE remain - sent
          /\ since' = IF ~active \/ TitleDue(sent) THEN 0 ELSE since + sent
    BY <1>2 DEF Resend
  <2>2. sent \in Nat /\ remain \in Int /\ since \in Int
    BY SizeWithin, Constants DEF IInv, TypeOK, SessionType, BytesType, AnswerType
  <2> QED
    BY <1>2, <2>1, <2>2, Constants DEF Resend, TitleDue, IInv, TitleEveryInterval
<1>3. ASSUME NEW k \in 0..MaxFrame, Encode(k) PROVE TitleEveryInterval'
  <2>1. k \in Nat /\ remain \in Int /\ since \in Int
    BY Constants DEF IInv, TypeOK, SessionType, BytesType, AnswerType
  <2> QED
    BY <1>3, <2>1, Constants DEF Encode, TitleWithin, NoTitle, IInv, TitleEveryInterval
<1>4. CASE Record \/ Flush \/ FirstPacket \/ FlushedPacket \/ FirstSound \/ Metadata \/
           End \/ EndFrees \/ Accept \/ NoRequest \/ Refuse \/ ResendFails \/ Close \/
           NoFrame \/ Sent \/ HttpExit \/ UNCHANGED vars
  BY <1>4
     DEF IInv, TitleEveryInterval, FlushPlaying, vars, ring, icy, ghost, Record, Flush,
         FirstPacket, FlushedPacket, FirstSound, Metadata, End, EndFrees, Accept,
         NoRequest, Refuse, ResendFails, Close, NoFrame, Sent, HttpExit
<1> QED
  BY <1>1, <1>2, <1>3, <1>4 DEF Next, HttpThread, Requests, Frames

\* Start-up silence.
LEMMA SilenceStep ==
  ASSUME IInv, [Next]_vars
  PROVE  SilenceFirst'
<1>1. ASSUME NEW range \in Ranges, Answer(range) PROVE SilenceFirst'
  BY <1>1, Constants
     DEF Answer, StartSilence, IInv, Starting, SilenceFirst, TypeOK, BytesType,
         AnswerType
<1>2. CASE Refuse
  BY <1>2, Constants
     DEF Refuse, StartSilence, IInv, Starting, SilenceFirst, TypeOK, BytesType,
         AnswerType
<1>3. ASSUME NEW k \in 0..MaxFrame, Encode(k) PROVE SilenceFirst'
  BY <1>3, Constants DEF Encode, SilenceLeft, IInv, SilenceFirst, TypeOK, BytesType,
         AnswerType
<1>4. CASE Record \/ Flush \/ FirstPacket \/ FlushedPacket \/ FirstSound \/ Metadata \/
           End \/ EndFrees \/ Accept \/ NoRequest \/ Resend \/ ResendFails \/ Close \/
           NoFrame \/ Sent \/ HttpExit \/ UNCHANGED vars
  BY <1>4
     DEF IInv, SilenceFirst, FlushPlaying, vars, ring, icy, ghost, Record, Flush,
         FirstPacket, FlushedPacket, FirstSound, Metadata, End, EndFrees, Accept,
         NoRequest, Resend, ResendFails, Close, NoFrame, Sent, HttpExit
<1> QED
  BY <1>1, <1>2, <1>3, <1>4 DEF Next, HttpThread, Requests, Frames

\* The encoder's turns.
LEMMA EncoderStep ==
  ASSUME IInv, [Next]_vars
  PROVE  EncoderOpen'
<1>1. CASE Record \/ Flush \/ FirstPacket \/ FlushedPacket \/ FirstSound \/ Metadata \/
           End \/ EndFrees \/ Accept \/ NoRequest \/
           (\E range \in Ranges : Answer(range)) \/ Refuse \/ Resend \/ ResendFails \/
           Close \/ NoFrame \/ (\E k \in 0..MaxFrame : Encode(k)) \/ Sent \/ HttpExit \/
           UNCHANGED vars
  BY <1>1
     DEF IInv, EncoderOpen, Starting, FlushPlaying, vars, ring, icy, ghost, Record,
         Flush, FirstPacket, FlushedPacket, FirstSound, Metadata, End, EndFrees, Accept,
         NoRequest, Answer, Refuse, Resend, ResendFails, Close, NoFrame, Encode, Sent,
         HttpExit
<1> QED
  BY <1>1 DEF Next, HttpThread, Requests, Frames

LEMMA InitHolds == Init => IInv
<1> SUFFICES ASSUME Init PROVE IInv
  OBVIOUS
<1>1. SessionType
  <2>1. flush \in BOOLEAN
    BY Constants, Zenon DEF Init
  <2> QED
    BY <2>1 DEF Init, SessionType
<1>2. BytesType
  <2>1. cache \in [0..(Cache - 1) -> 0..made]
    BY DEF Init, Garbage
  <2> QED
    BY <2>1, Constants DEF Init, BytesType
<1>3. AnswerType
  <2>1. 0 \in 0..Delay /\ 0 \in 0..Interval /\ 0 \in Nat
    BY Constants
  <2> QED
    BY <2>1, Zenon DEF Init, AnswerType
<1>4. Sending /\ Memory /\ Starting
  BY Constants DEF Init, Sending, Memory, Starting
<1> QED
  BY <1>1, <1>2, <1>3, <1>4
     DEF Init, IInv, TypeOK, TitleEveryInterval, SilenceFirst, EncoderOpen

\* The inductive invariant holds in every behaviour.
THEOREM Invariant == Spec => []IInv
<1>1. IInv /\ [Next]_vars => IInv'
  BY SessionTypeStep, BytesTypeStep, AnswerTypeStep, SendingStep, MemoryStep, StartingStep,
     TitleStep, SilenceStep, EncoderStep DEF IInv, TypeOK
<1> QED
  BY InitHolds, <1>1, PTL DEF Spec

-----------------------------------------------------------------------------
(* What follows *)

\* The state of the HTTP stream keeps its types; in particular remain, since and quiet
\* never run below zero and nothing is sent beyond what was encoded.
THEOREM TypeCorrect == Spec => []TypeOK
BY Invariant, PTL DEF IInv

\* Two title blocks are exactly one interval apart, for any interval at least as long as
\* a frame.
THEOREM TitlesEveryInterval == Spec => []TitleEveryInterval
BY Invariant, PTL DEF IInv

\* Start-up silence never comes after sound.
THEOREM SilenceComesFirst == Spec => []SilenceFirst
BY Invariant, PTL DEF IInv

\* The encoder is open exactly while the stream plays.
THEOREM EncoderOpenWhilePlaying == Spec => []EncoderOpen
BY Invariant, PTL DEF IInv

\* http_cache always holds the last CACHE_SIZE bytes since the last flush, in their places:
\* what a Range gets wrong is not the memory.
THEOREM CacheHoldsTheLatest == Spec => []Memory
BY Invariant, PTL DEF IInv

\* What is sent again is in the cache exactly for an answer from the very beginning: every
\* Range answered from elsewhere begins before the oldest byte kept.
RangeFromMemoryOnlyAtTheBeginning ==
  pc = "resend" => (count - offset <= Cache <=> offset = 0)

THEOREM RangesBeginTooEarly == Spec => []RangeFromMemoryOnlyAtTheBeginning
<1>1. IInv => RangeFromMemoryOnlyAtTheBeginning
  <2> SUFFICES ASSUME IInv, pc = "resend"
               PROVE  count - offset <= Cache <=> offset = 0
    BY DEF RangeFromMemoryOnlyAtTheBeginning
  <2>1. count \in Nat /\ offset \in Nat
    BY Constants DEF IInv, TypeOK, BytesType, AnswerType
  <2> QED
    BY <2>1, Constants DEF IInv, Sending
<1> QED
  BY Invariant, <1>1, PTL

-----------------------------------------------------------------------------
(* The promise of Playback *)

LEMMA InitPromise == Init => Promise!Init
BY DEF Init, Promise!Init, Begins, Heard, Listening, Nobody, Promise!Nobody

\* To a listener nothing is missing, so what is heard is the last byte sent.
LEMMA HeardIs ==
  ASSUME IInv
  PROVE  /\ ready /\ offset = 0 => Heard = last
         /\ ~(ready /\ offset = 0) => Heard = Nobody
BY DEF IInv, Sending, Heard, Listening

LEMMA HeardNext ==
  ASSUME IInv'
  PROVE  /\ ready' /\ offset' = 0 => Heard' = last'
         /\ ~(ready' /\ offset' = 0) => Heard' = Nobody
         /\ last' <= made'
<1>1. last' <= made'
  BY Constants DEF IInv, TypeOK, BytesType, Nobody
<1> QED
  BY <1>1 DEF IInv, Sending, Heard, Listening

LEMMA Numbers ==
  ASSUME IInv
  PROVE  /\ made \in Nat /\ count \in Nat /\ count <= made /\ Begins \in Nat
         /\ last \in Nat \union {Nobody} /\ last <= made
BY Constants DEF IInv, TypeOK, BytesType, Begins, Nobody

\* A step after which as much is heard of the same piece changes nothing in Playback, and
\* one after which nothing is heard is a Leave.
LEMMA Quiet ==
  ASSUME IInv, IInv', UNCHANGED <<made, count>>,
         \/ UNCHANGED <<ready, offset, last>>
         \/ ready' = FALSE
         \/ UNCHANGED <<ready, offset>> /\ last' = Nobody
  PROVE  [Promise!Next]_(Promise!vars)
<1>1. UNCHANGED <<made, Begins>>
  BY DEF Begins
<1>2. Heard' = Heard \/ Heard' = Nobody
  BY HeardIs, HeardNext
<1> QED
  BY <1>1, <1>2 DEF Promise!Next, Promise!Leave, Promise!vars, Promise!Nobody, Nobody

\* A FLUSH of the stream that plays restarts; any other leaves all as it was.
LEMMA FlushPromise ==
  ASSUME IInv, IInv', Flush
  PROVE  [Promise!Next]_(Promise!vars)
<1>1. CASE FlushPlaying
  <2>1. made' = made /\ Begins' = made
    BY <1>1, Numbers DEF Flush, FlushPlaying, Begins
  <2>2. Heard' = Nobody
    BY <1>1, HeardNext DEF FlushPlaying
  <2> QED
    BY <2>1, <2>2 DEF Promise!Next, Promise!Restart, Promise!Nobody, Nobody
<1>2. CASE ~FlushPlaying
  BY <1>2, Quiet DEF Flush
<1> QED
  BY <1>1, <1>2

\* The first packet finds nothing encoded since the last flush.
LEMMA FirstPacketPromise ==
  ASSUME IInv, IInv', FirstPacket
  PROVE  [Promise!Next]_(Promise!vars)
<1>1. count = 0
  BY DEF FirstPacket, IInv, Starting
<1> QED
  BY <1>1, Quiet DEF FirstPacket

\* An answer starts at the beginning, at the live end, or for nobody.
LEMMA AnswerPromise ==
  ASSUME IInv, IInv', NEW range \in Ranges, Answer(range)
  PROVE  [Promise!Next]_(Promise!vars)
<1>1. UNCHANGED <<made, Begins>>
  BY DEF Answer, Begins
<1>2. CASE offset' = 0
  <2>1. last' \in {Begins, made}
    BY <1>2, Numbers DEF Answer, Begins
  <2>2. Heard' = last'
    BY <1>2, HeardNext DEF Answer
  <2> QED
    BY <1>1, <2>1, <2>2 DEF Promise!Next, Promise!Listen
<1>3. CASE offset' # 0
  <2>1. Heard' = Nobody
    BY <1>3, HeardNext
  <2> QED
    BY <1>1, <2>1 DEF Promise!Next, Promise!Leave, Promise!Nobody, Nobody
<1> QED
  BY <1>2, <1>3

\* What is sent again catches up.
LEMMA ResendPromise ==
  ASSUME IInv, IInv', Resend
  PROVE  [Promise!Next]_(Promise!vars)
<1>1. PICK sent \in 1..Size : last' = last + sent
  BY DEF Resend
<1>2. /\ sent \in Nat /\ sent >= 1 /\ last \in Nat
      /\ UNCHANGED <<made, count, ready, offset>>
  BY SizeWithin, Numbers DEF Resend, IInv, Sending, TypeOK, BytesType, AnswerType
<1>3. UNCHANGED <<made, Begins>>
  BY <1>2 DEF Begins
<1>4. CASE ready /\ offset = 0
  <2>1. Heard = last /\ Heard' = last'
    BY <1>2, <1>4, HeardIs, HeardNext
  <2>2. Heard # Promise!Nobody /\ Heard' \in (Heard + 1)..made
    BY <1>1, <1>2, <2>1, Numbers, HeardNext DEF Promise!Nobody
  <2> QED
    BY <1>3, <2>2 DEF Promise!Next, Promise!CatchUp
<1>5. CASE ~(ready /\ offset = 0)
  <2>1. Heard = Nobody /\ Heard' = Nobody
    BY <1>2, <1>5, HeardIs, HeardNext
  <2> QED
    BY <1>3, <2>1 DEF Promise!vars
<1> QED
  BY <1>4, <1>5

\* A frame is encoded for who has heard all there is, or is gone.
LEMMA EncodePromise ==
  ASSUME IInv, IInv', NEW k \in 0..MaxFrame, Encode(k)
  PROVE  [Promise!Next]_(Promise!vars)
<1>1. /\ k \in Nat /\ made' = made + k /\ Begins' = Begins
      /\ UNCHANGED <<ready, offset>> /\ ready
      /\ last \in {made, Nobody}
      /\ last' = IF last = Nobody THEN Nobody ELSE made'
  BY Numbers, Constants DEF Encode, Begins, IInv, Sending
<1>2. CASE k = 0
  BY <1>1, <1>2, Quiet, Numbers DEF Encode
<1>3. CASE k # 0
  <2>1. made' \in Nat /\ made' > made
    BY <1>1, <1>3, Numbers
  <2>2. Heard \in {made, Nobody} /\ Heard' = IF Heard = Nobody THEN Nobody ELSE made'
    BY <1>1, HeardIs, HeardNext, Numbers DEF Nobody
  <2> QED
    BY <1>1, <2>1, <2>2 DEF Promise!Next, Promise!Produce, Promise!Nobody, Nobody
<1> QED
  BY <1>2, <1>3

\* Every step is one of Playback, or changes nothing it sees.
LEMMA StepPromise ==
  ASSUME IInv, IInv', [Next]_vars
  PROVE  [Promise!Next]_(Promise!vars)
<1>1. CASE Flush
  BY <1>1, FlushPromise
<1>2. CASE FirstPacket
  BY <1>2, FirstPacketPromise
<1>3. ASSUME NEW range \in Ranges, Answer(range) PROVE [Promise!Next]_(Promise!vars)
  BY <1>3, AnswerPromise
<1>4. CASE Resend
  BY <1>4, ResendPromise
<1>5. ASSUME NEW k \in 0..MaxFrame, Encode(k) PROVE [Promise!Next]_(Promise!vars)
  BY <1>5, EncodePromise
<1>6. CASE Refuse \/ Close \/ ResendFails \/ Sent
  BY <1>6, Quiet DEF Refuse, Close, ResendFails, Sent
<1>7. CASE Record \/ FlushedPacket \/ FirstSound \/ Metadata \/ End \/ EndFrees \/
           Accept \/ NoRequest \/ NoFrame \/ HttpExit \/ UNCHANGED vars
  BY <1>7, Quiet
     DEF vars, ghost, Record, FlushedPacket, FirstSound, Metadata, End, EndFrees, Accept,
         NoRequest, NoFrame, HttpExit
<1> QED
  BY <1>1, <1>2, <1>3, <1>4, <1>5, <1>6, <1>7 DEF Next, HttpThread, Requests, Frames

\* Whatever cache, connection and threads do in between, the player hears what Playback
\* promises.
THEOREM HttpKeepsPromise == Spec => KeepsPromise
<1>1. IInv /\ IInv' /\ [Next]_vars => [Promise!Next]_(Promise!vars)
  BY StepPromise
<1> QED
  BY InitPromise, <1>1, Invariant, PTL DEF Spec, KeepsPromise, Promise!Spec
=============================================================================
