----------------------------- MODULE RtpProofs -----------------------------
(***************************************************************************)
(* Theorems about RtpBuffer, for any sizes and streams of any length: what *)
(* seq_order decides near the number a FLUSH gave.  The sequence numbers   *)
(* must be eight times as many as the slots; the program has 2^16 and 2048. *)
(***************************************************************************)
EXTENDS RtpBuffer, Moduli, WellFoundedInduction, TLAPS

-----------------------------------------------------------------------------
(* Sequence numbers.                                                       *)

LEMMA Widths ==
  /\ W \in Nat \ {0} /\ B \in Nat \ {0} /\ First \in Int
  /\ Late \in Nat /\ Jump \in Nat /\ Last \in Int /\ MaxGaps \in Nat
  /\ Delay \in Nat /\ Headroom \in Nat
BY BufferAssumption

LEMMA SeqType ==
  /\ \A n \in Int : Seq(n) \in SeqNos
  /\ \A s \in Int : Idx(s) \in Slots
  /\ \A a, b \in Int : Dist(a, b) \in SeqNos
BY Widths DEF Seq, SeqNos, Idx, Slots, Dist

LEMMA SeqTwice ==
  ASSUME NEW s \in SeqNos
  PROVE  Seq(s) = s
<1>1. s = W * 0 + s
  BY Widths DEF SeqNos
<1> QED
  BY <1>1, Widths, Remainder DEF Seq, SeqNos

LEMMA SeqNext ==
  ASSUME NEW n \in Int
  PROVE  Seq(Seq(n) + 1) = Seq(n + 1)
<1>1. PICK q \in Int, r \in 0..(W - 1) : n = W * q + r /\ r = n % W
  BY Widths, Division
<1>2. W * q \in Int /\ W * (q + 1) = W * q + W /\ q + 1 \in Int
  BY Widths
<1>3. CASE r + 1 < W
  <2>1. n + 1 = W * q + (r + 1) /\ r + 1 \in SeqNos
    BY <1>1, <1>2, <1>3, Widths DEF SeqNos
  <2>2. (n + 1) % W = r + 1
    BY <2>1, Widths, Remainder DEF SeqNos
  <2> QED
    BY <1>1, <2>1, <2>2, SeqTwice DEF Seq
<1>4. CASE r + 1 = W
  <2>1. n + 1 = W * (q + 1) + 0
    BY <1>1, <1>2, <1>4, Widths
  <2>2. (n + 1) % W = 0
    <3>1. (W * (q + 1) + 0) % W = 0
      BY <1>2, Widths, Remainder
    <3> QED
      BY <2>1, <3>1
  <2>3. W = W * 1 + 0 /\ 0 \in 0..(W - 1)
    BY Widths
  <2>4. W % W = 0
    BY <2>3, Widths, Remainder
  <2> QED
    BY <1>1, <1>4, <2>2, <2>4 DEF Seq
<1> QED
  BY <1>1, <1>3, <1>4, Widths

\* Within half a turn seq_order tells which of two frames comes first.
LEMMA Order ==
  ASSUME NEW m \in Int, NEW n \in Int, n - m \in 0..(W \div 2 - 1)
  PROVE  /\ ~SeqOrder(Seq(n), Seq(m))
         /\ n # m => SeqOrder(Seq(m), Seq(n))
<1>1. W \div 2 \in Nat /\ 2 * (W \div 2) <= W
  BY Widths
<1>2. n - m \in 0..(W - 1)
  BY <1>1, Widths
<1>3. Dist(Seq(m), Seq(n)) = n - m
  BY <1>2, Widths, DistUp DEF Dist, Seq
<1>4. CASE n = m
  BY <1>3, <1>4, <1>1 DEF SeqOrder
<1>5. CASE n # m
  <2>1. Dist(Seq(n), Seq(m)) = W - (n - m)
    <3>1. n - m \in 1..(W - 1)
      BY <1>2, <1>5
    <3> QED
      BY <3>1, Widths, DistDown DEF Dist, Seq
  <2> QED
    BY <1>1, <1>3, <1>5, <2>1, Widths DEF SeqOrder
<1> QED
  BY <1>4, <1>5

\* Every set of numbers has a least one.
LEMMA Least ==
  ASSUME NEW T, T \subseteq Nat, T # {}
  PROVE  \E x \in T : \A y \in T : ~(y < x)
<1>1. PICK x \in T : \A y \in T : <<y, x>> \notin OpToRel(<, Nat)
  BY NatLessThanWellFounded, WFMin
<1> QED
  BY <1>1 DEF OpToRel

-----------------------------------------------------------------------------
(* The invariant.                                                          *)

\* The session's RECORD comes before any FLUSH or packet.
Recorded == record = "none" => floor = First /\ newest = First - 1 /\ first = None

\* A number that is still pending is the one the last FLUSH, or RECORD, gave.
Told == first # None => first = Seq(floor)

\* In a playing stream only a FLUSH that pauses leaves a number.
Cleared == flush /\ first # None => state # "PLAY"

\* While it is waited for, the stream does not get far beyond it.
Pending == first # None /\ (state # "PLAY" \/ pause)
Near == Pending => newest <= floor + Late + (IF stuck THEN Jump ELSE 0)

IInv == TypeOK /\ skip <= gaps /\ Recorded /\ Told /\ Cleared /\ Near

-----------------------------------------------------------------------------
(* Types.                                                                  *)

\* What the switch on the state leaves for the rest of buffer_put_packet.
Context == [state : {"WAIT", "STREAM", "PLAY"}, first : SeqNos \union {None},
            read : SeqNos, write : SeqNos, ready : [Slots -> BOOLEAN],
            silence : BOOLEAN, skip : 0..MaxGaps]

LEMMA DropType ==
  ASSUME NEW rdy \in [Slots -> BOOLEAN], NEW a, NEW k
  PROVE  Drop(rdy, a, k) \in [Slots -> BOOLEAN]
BY DEF Drop

LEMMA Pointers ==
  ASSUME TypeOK
  PROVE  read \in Nat /\ write \in Nat
BY Widths DEF TypeOK, SeqNos

LEMMA OpenedType ==
  ASSUME TypeOK, NEW s \in SeqNos
  PROVE  Opened(s) \in Context
<1>1. Seq(s - 1) \in SeqNos /\ 0 \in 0..MaxGaps
  BY SeqType, Widths DEF SeqNos
<1> QED
  BY <1>1 DEF Opened, Context, TypeOK

LEMMA RingType ==
  ASSUME TypeOK
  PROVE  Ring \in Context
BY DEF Ring, Context, TypeOK

LEMMA DiscardedType ==
  ASSUME TypeOK, Discardable # {}
  PROVE  Discarded \in Context
<1> DEFINE k == CHOOSE k \in Discardable : \A j \in Discardable : k <= j
<1>1. Discardable \subseteq Nat
  BY Widths DEF Discardable, Slots
<1>2. \E j \in Discardable : \A i \in Discardable : j <= i
  <2>1. PICK j \in Discardable : \A i \in Discardable : ~(i < j)
    BY <1>1, Least
  <2> QED
    BY <1>1, <2>1
<1>3. k \in Discardable
  BY <1>2
<1> HIDE DEF k
<1>4. Seq(read + k) \in SeqNos
  <2>1. read \in Int /\ k \in Int
    BY <1>1, <1>3, Widths DEF TypeOK, SeqNos
  <2> QED
    BY <2>1, SeqType
<1>5. Drop(ready, read, k) \in [Slots -> BOOLEAN]
  BY DropType DEF TypeOK
<1>6. Discarded = [Ring EXCEPT !.state = "PLAY", !.first = None, !.read = Seq(read + k),
                               !.ready = Drop(ready, read, k)]
  BY DEF Discarded, k
<1> QED
  BY <1>4, <1>5, <1>6, RingType DEF Context

LEMMA PlacedType ==
  ASSUME NEW c \in Context, NEW s \in SeqNos
  PROVE  /\ Placed(c, s) \in Context
         /\ Placed(c, s).state = c.state /\ Placed(c, s).first = c.first
         /\ Placed(c, s).skip = c.skip
<1>1. Seq(s - Delay + 1) \in SeqNos
  BY SeqType, Widths DEF SeqNos
<1>2. \A k : Drop(c.ready, c.read, k) \in [Slots -> BOOLEAN]
  BY DropType DEF Context
<1> QED
  BY <1>1, <1>2 DEF Placed, Context

LEMMA ThinnedType ==
  ASSUME NEW c \in Context, NEW quiet \in BOOLEAN
  PROVE  /\ Thinned(c, quiet) \in Context
         /\ Thinned(c, quiet).state = c.state /\ Thinned(c, quiet).first = c.first
         /\ Thinned(c, quiet).skip = c.skip
<1>1. Seq(c.read + 1) \in SeqNos
  <2>1. c.read \in SeqNos
    BY DEF Context
  <2>2. c.read + 1 \in Int
    BY <2>1, Widths DEF SeqNos
  <2> QED
    BY <2>2, SeqType
<1> QED
  BY <1>1 DEF Thinned, Context

LEMMA StoreType ==
  ASSUME TypeOK, NEW c \in Context, NEW n \in First..Last, NEW quiet \in BOOLEAN,
         Store(c, n, quiet)
  PROVE  /\ state' = c.state /\ first' = c.first /\ skip' = c.skip
         /\ state' \in {"WAIT", "STREAM", "PLAY"} /\ first' \in SeqNos \union {None}
         /\ read' \in SeqNos /\ write' \in SeqNos /\ ready' \in [Slots -> BOOLEAN]
         /\ frame' \in [Slots -> First..Last \union {Filler}]
         /\ pause' \in BOOLEAN /\ silence' \in BOOLEAN
         /\ pause' = (pause /\ ~Released(c, Seq(n)))
<1> DEFINE s == Seq(n)
           p == Placed(c, s)
           q == [p EXCEPT !.ready[Idx(s)] = TRUE]
           t == IF Accepted(c, s) THEN Thinned(q, quiet) ELSE p
<1>1. s \in SeqNos
  BY SeqType, Widths
<1>2. /\ p \in Context /\ p.state = c.state /\ p.first = c.first /\ p.skip = c.skip
  BY <1>1, PlacedType
<1>3. /\ q \in Context /\ q.state = c.state /\ q.first = c.first /\ q.skip = c.skip
  BY <1>2 DEF Context
<1>4. /\ t \in Context /\ t.state = c.state /\ t.first = c.first /\ t.skip = c.skip
  BY <1>2, <1>3, ThinnedType
<1>5. /\ state' = t.state /\ first' = t.first /\ read' = t.read /\ write' = t.write
      /\ ready' = t.ready /\ skip' = t.skip
      /\ frame' = IF Accepted(c, s) THEN [frame EXCEPT ![Idx(s)] = n] ELSE frame
      /\ silence' = (c.silence /\ ~(Accepted(c, s) /\ c.state = "PLAY" /\ ~quiet))
      /\ pause' = (pause /\ ~Released(c, s))
  BY DEF Store
<1>6. frame' \in [Slots -> First..Last \union {Filler}]
  BY <1>5 DEF TypeOK
<1> HIDE DEF t
<1> QED
  BY <1>4, <1>5, <1>6 DEF Context

LEMMA HeadType ==
  ASSUME TypeOK
  PROVE  /\ Skipped \in 0..skip /\ Head \in SeqNos
         /\ AfterSkip \in [Slots -> BOOLEAN]
<1>1. Dist(read, write) \in Nat
  BY Pointers, Widths DEF Dist
<1>2. Skipped \in 0..skip
  BY <1>1 DEF Skipped, TypeOK
<1>3. Head \in SeqNos
  <2>1. read + Skipped \in Int /\ write - (B - Headroom) \in Int
    BY <1>2, Widths DEF TypeOK, SeqNos
  <2> QED
    BY <2>1, SeqType DEF Head
<1> QED
  BY <1>2, <1>3, DropType DEF AfterSkip, TypeOK

LEMMA PutType ==
  ASSUME TypeOK, skip <= gaps, NEW n \in First..Last, NEW c \in Context, NEW quiet \in BOOLEAN,
         c.skip \in {0, skip}, Receive(n), Store(c, n, quiet),
         stuck' \in BOOLEAN, astray' \in BOOLEAN
  PROVE  TypeOK' /\ skip' <= gaps'
<1>1. newest' \in (First - 1)..Last
  BY Widths DEF Receive, TypeOK
<1>2. /\ state' \in {"WAIT", "STREAM", "PLAY"} /\ first' \in SeqNos \union {None}
      /\ read' \in SeqNos /\ write' \in SeqNos /\ ready' \in [Slots -> BOOLEAN]
      /\ frame' \in [Slots -> First..Last \union {Filler}]
      /\ pause' \in BOOLEAN /\ silence' \in BOOLEAN
      /\ skip' = c.skip
  BY StoreType
<1>3. skip' \in 0..MaxGaps /\ skip' <= gaps
  BY <1>2, Widths DEF TypeOK
<1> QED
  BY <1>1, <1>2, <1>3 DEF Receive, TypeOK

LEMMA TypeStep ==
  ASSUME TypeOK, skip <= gaps, [Next]_vars
  PROVE  TypeOK' /\ skip' <= gaps'
<1>1. CASE Record
  BY <1>1, SeqType, Widths DEF Record, ghost, TypeOK
<1>2. ASSUME NEW n \in Wanted, Flush(n)
      PROVE  TypeOK' /\ skip' <= gaps'
  <2>1. n \in First..(Last + Jump) /\ Seq(n) \in SeqNos
    BY SeqType, Widths DEF Wanted
  <2>2. CASE FlushPlaying(n)
    <3>1. Seq(write + 1) \in SeqNos
      BY SeqType, Pointers
    <3>2. Rewound(n) \in (First - 1)..Last
      BY <2>1, Widths DEF Rewound, TypeOK
    <3> QED
      BY <1>2, <2>1, <2>2, <3>1, <3>2 DEF Flush, FlushPlaying, TypeOK
  <2>3. CASE UNCHANGED <<state, read, write, ready, frame, silence, skip, astray, taken>>
             /\ pause' = (pause \/ ~flush)
    BY <1>2, <2>1, <2>3 DEF Flush, TypeOK
  <2> QED
    BY <1>2, <2>2, <2>3 DEF Flush
<1>3. ASSUME NEW n \in Arrivals, PutIgnored(n)
      PROVE  TypeOK' /\ skip' <= gaps'
  BY <1>3, Widths DEF Arrivals, PutIgnored, Receive, ring, TypeOK
<1>4. ASSUME NEW n \in Arrivals, PutNeverEnds(n)
      PROVE  TypeOK' /\ skip' <= gaps'
  BY <1>4, Widths DEF Arrivals, PutNeverEnds, Receive, TypeOK
<1>5. ASSUME NEW n \in Arrivals, NEW quiet \in BOOLEAN, PutFirst(n, quiet)
      PROVE  TypeOK' /\ skip' <= gaps'
  <2>1. Seq(n) \in SeqNos /\ n \in First..Last
    BY SeqType, Widths DEF Arrivals
  <2>2. Opened(Seq(n)) \in Context /\ Opened(Seq(n)).skip = 0
    BY <2>1, OpenedType DEF Opened
  <2> QED
    BY <1>5, <2>1, <2>2, PutType DEF PutFirst, TypeOK
<1>6. ASSUME NEW n \in Arrivals, NEW quiet \in BOOLEAN, PutAfterFlush(n, quiet)
      PROVE  TypeOK' /\ skip' <= gaps'
  <2>1. Discarded \in Context /\ Discarded.skip = skip
    BY <1>6, DiscardedType DEF PutAfterFlush, Discarded, Ring
  <2>2. stuck' \in BOOLEAN /\ astray' \in BOOLEAN
    BY <1>6 DEF PutAfterFlush, TypeOK
  <2> QED
    BY <1>6, <2>1, <2>2, PutType DEF PutAfterFlush, Arrivals
<1>7. ASSUME NEW n \in Arrivals, NEW quiet \in BOOLEAN, Put(n, quiet)
      PROVE  TypeOK' /\ skip' <= gaps'
  <2>1. Ring \in Context /\ Ring.skip = skip
    BY RingType DEF Ring
  <2> QED
    BY <1>7, <2>1, PutType DEF Put, TypeOK, Arrivals
<1>8. CASE GetNothing \/ GetFill \/ GetMissing \/ GetReady
  <2>1. GetFrame
    BY <1>8 DEF GetNothing, GetFill, GetMissing, GetReady
  <2>2. skip' \in 0..MaxGaps /\ skip' <= gaps
    BY <2>1, HeadType, Widths DEF GetFrame, TypeOK
  <2>3. astray' \in BOOLEAN
    BY <2>1 DEF GetFrame, TypeOK
  <2>4. /\ read' \in SeqNos /\ write' \in SeqNos /\ ready' \in [Slots -> BOOLEAN]
        /\ taken' \in (First - 1)..Last
    <3>1. /\ Head \in SeqNos /\ AfterSkip \in [Slots -> BOOLEAN]
          /\ Seq(Head + 1) \in SeqNos /\ Seq(write + 1) \in SeqNos /\ Idx(Head) \in Slots
      <4>1. Head \in Int /\ write \in Int
        BY HeadType, Widths DEF TypeOK, SeqNos
      <4> QED
        BY <4>1, HeadType, SeqType
    <3>2. frame[Idx(Head)] # Filler => frame[Idx(Head)] \in First..Last
      BY <3>1 DEF TypeOK
    <3>3. taken' \in (First - 1)..Last
      <4>1. /\ taken' \in {taken, frame[Idx(Head)]}
            /\ taken' = taken \/ frame[Idx(Head)] # Filler
        BY <1>8 DEF GetNothing, GetFill, GetMissing, GetReady
      <4> QED
        BY <3>2, <4>1, Widths DEF TypeOK
    <3>4. write' \in SeqNos
      BY <1>8, <3>1 DEF GetNothing, GetFill, GetMissing, GetReady, TypeOK
    <3>5. read' \in SeqNos
      BY <1>8, <3>1 DEF GetNothing, GetFill, GetMissing, GetReady
    <3>6. ready' \in [Slots -> BOOLEAN]
      BY <1>8, <3>1 DEF GetNothing, GetFill, GetMissing, GetReady
    <3> QED
      BY <3>3, <3>4, <3>5, <3>6
  <2> QED
    BY <2>1, <2>2, <2>3, <2>4 DEF GetFrame, TypeOK
<1>9. CASE RepeatFrame \/ DropFrame
  <2>1. /\ Seq(read - 1) \in SeqNos /\ Seq(read + 1) \in SeqNos
        /\ gaps' = gaps + 1 /\ gaps' \in 0..MaxGaps
    BY <1>9, SeqType, Pointers, Widths DEF RepeatFrame, DropFrame, Correct, TypeOK
  <2>2. CASE RepeatFrame
    <3>1. /\ ready' \in [Slots -> BOOLEAN] /\ read' \in SeqNos
          /\ frame' \in [Slots -> First..Last \union {Filler}]
      BY <2>1, <2>2 DEF RepeatFrame, TypeOK
    <3>2. skip' \in 0..MaxGaps /\ skip' <= gaps'
      BY <2>1, <2>2, Widths DEF RepeatFrame, TypeOK
    <3> QED
      BY <2>1, <2>2, <3>1, <3>2 DEF RepeatFrame, Correct, TypeOK
  <2>3. CASE DropFrame
    <3>1. ready' \in [Slots -> BOOLEAN] /\ read' \in SeqNos
      BY <2>1, <2>3 DEF DropFrame, TypeOK
    <3>2. skip' \in 0..MaxGaps /\ skip' <= gaps'
      BY <2>1, <2>3, Widths DEF DropFrame, TypeOK
    <3> QED
      BY <2>1, <2>3, <3>1, <3>2 DEF DropFrame, Correct, TypeOK
  <2> QED
    BY <1>9, <2>2, <2>3
<1>10. CASE UNCHANGED vars
  BY <1>10 DEF vars, ring, ghost, TypeOK
<1> QED
  BY <1>1, <1>2, <1>3, <1>4, <1>5, <1>6, <1>7, <1>8, <1>9, <1>10 DEF Next

-----------------------------------------------------------------------------
(* The pending number.                                                     *)

\* What each call of buffer_put_packet does to what Near speaks of.
LEMMA PutKeeps ==
  ASSUME TypeOK, NEW n \in Arrivals, NEW quiet \in BOOLEAN, Put(n, quiet)
  PROVE  /\ state' = state /\ first' = first
         /\ pause' = (pause /\ ~Released(Ring, Seq(n)))
<1>1. Ring \in Context /\ n \in First..Last
  BY RingType DEF Arrivals
<1>2. Store(Ring, n, quiet)
  BY DEF Put
<1> QED
  BY <1>1, <1>2, StoreType DEF Ring

LEMMA PutClears ==
  ASSUME TypeOK, NEW n \in Arrivals, NEW quiet \in BOOLEAN,
         PutFirst(n, quiet) \/ PutAfterFlush(n, quiet)
  PROVE  first' = None
<1>1. n \in First..Last /\ Seq(n) \in SeqNos
  BY SeqType, Widths DEF Arrivals
<1>2. CASE PutFirst(n, quiet)
  <2>1. Opened(Seq(n)) \in Context /\ Opened(Seq(n)).first = None
    BY <1>1, OpenedType DEF Opened
  <2> QED
    BY <1>1, <1>2, <2>1, StoreType DEF PutFirst
<1>3. CASE PutAfterFlush(n, quiet)
  <2>1. Discarded \in Context /\ Discarded.first = None
    BY <1>3, DiscardedType DEF PutAfterFlush, Discarded, Ring
  <2> QED
    BY <1>1, <1>3, <2>1, StoreType DEF PutAfterFlush
<1> QED
  BY <1>2, <1>3

\* The steps that leave it alone.
Others == \/ \E n \in Arrivals : PutIgnored(n) \/ PutNeverEnds(n)
          \/ GetNothing \/ GetFill \/ GetMissing \/ GetReady
          \/ RepeatFrame \/ DropFrame
          \/ UNCHANGED vars

LEMMA OthersKeep ==
  ASSUME Others
  PROVE  UNCHANGED <<flush, record, floor, state, first, pause>>
BY DEF Others, PutIgnored, PutNeverEnds, Receive, GetNothing, GetFill, GetMissing, GetReady,
       GetFrame, RepeatFrame, DropFrame, Correct, vars, ring, ghost

LEMMA ToldStep ==
  ASSUME TypeOK, Recorded, Told, [Next]_vars
  PROVE  Recorded' /\ Told'
<1>1. CASE Record
  BY <1>1 DEF Record, Recorded, Told, ghost
<1>2. ASSUME NEW n \in Wanted, Flush(n)
      PROVE  Recorded' /\ Told'
  BY <1>2 DEF Flush, Recorded, Told
<1>3. ASSUME NEW n \in Arrivals, NEW quiet \in BOOLEAN, Put(n, quiet)
      PROVE  Recorded' /\ Told'
  BY <1>3, PutKeeps DEF Put, Receive, Recorded, Told
<1>4. ASSUME NEW n \in Arrivals, NEW quiet \in BOOLEAN,
             PutFirst(n, quiet) \/ PutAfterFlush(n, quiet)
      PROVE  Recorded' /\ Told'
  BY <1>4, PutClears DEF PutFirst, PutAfterFlush, Receive, Recorded, Told
<1>5. CASE Others
  <2>1. record' = "none" => newest' = newest
    BY <1>5 DEF Others, PutIgnored, PutNeverEnds, Receive, GetNothing, GetFill, GetMissing,
                GetReady, GetFrame, RepeatFrame, DropFrame, Correct, vars, ghost
  <2> QED
    BY <1>5, <2>1, OthersKeep DEF Recorded, Told
<1> QED
  BY <1>1, <1>2, <1>3, <1>4, <1>5 DEF Next, Others

LEMMA ClearedStep ==
  ASSUME TypeOK, Cleared, [Next]_vars
  PROVE  Cleared'
<1>1. CASE Record
  BY <1>1 DEF Record, Cleared
<1>2. ASSUME NEW n \in Wanted, Flush(n)
      PROVE  Cleared'
  BY <1>2 DEF Flush, FlushPlaying, Cleared
<1>3. ASSUME NEW n \in Arrivals, NEW quiet \in BOOLEAN, Put(n, quiet)
      PROVE  Cleared'
  BY <1>3, PutKeeps DEF Put, Receive, Cleared
<1>4. ASSUME NEW n \in Arrivals, NEW quiet \in BOOLEAN,
             PutFirst(n, quiet) \/ PutAfterFlush(n, quiet)
      PROVE  Cleared'
  BY <1>4, PutClears DEF Cleared
<1>5. CASE Others
  BY <1>5, OthersKeep DEF Cleared
<1> QED
  BY <1>1, <1>2, <1>3, <1>4, <1>5 DEF Next, Others

\* A packet at or beyond the pending number, and not far beyond it, is told from those
\* below: it is not ignored, ends the discarding, and, if beyond, ends a pause.
LEMMA Recognised ==
  ASSUME 8 * B <= W, TypeOK, Told, first # None, NEW n \in Int,
         n >= floor, n <= floor + Late + 2 * Jump
  PROVE  /\ ~Ignored(Seq(n))
         /\ state = "STREAM" => Flushed(Seq(n))
         /\ n # floor => Released(Ring, Seq(n))
<1>1. floor \in Int /\ first = Seq(floor) /\ first \in SeqNos
  BY Widths DEF TypeOK, Told
<1>2. Late + 2 * Jump + 1 <= W \div 2 - 1
  <2>1. Late <= B - 1 /\ Jump <= B /\ B >= 2
    BY BufferAssumption
  <2>2. W \div 2 >= 4 * B
    BY Widths
  <2> QED
    BY <2>1, <2>2, Widths
<1>3. n - floor \in 0..(W \div 2 - 1) /\ (n + 1) - floor \in 0..(W \div 2 - 1)
  BY <1>1, <1>2, Widths
<1>4. ~SeqOrder(Seq(n), Seq(floor)) /\ (n # floor => SeqOrder(Seq(floor), Seq(n)))
  BY <1>1, <1>3, Order
<1>5. SeqOrder(Seq(floor), Seq(n + 1))
  <2>1. n + 1 # floor /\ n + 1 \in Int
    BY <1>1
  <2> QED
    BY <1>1, <1>3, <2>1, Order
<1>6. Seq(Seq(n) + 1) = Seq(n + 1)
  BY SeqNext
<1>7. Seq(first) = first
  BY <1>1, SeqTwice
<1> QED
  BY <1>1, <1>4, <1>5, <1>6, <1>7 DEF Ignored, Flushed, Released, Ring

LEMMA NearStep ==
  ASSUME 8 * B <= W, TypeOK, TypeOK', Recorded, Told, Near, [Next]_vars
  PROVE  Near'
<1> USE Widths
<1>1. CASE Record
  BY <1>1 DEF Record, Recorded, Near, Pending, ghost, TypeOK
<1>2. ASSUME NEW n \in Wanted, Flush(n)
      PROVE  Near'
  BY <1>2 DEF Wanted, Flush, Near, TypeOK
<1>3. ASSUME NEW n \in Arrivals, PutIgnored(n)
      PROVE  Near'
  <2>1. Pending' <=> Pending
    BY <1>3, OthersKeep DEF Others, Pending
  <2>2. CASE Pending
    <3>1. newest <= floor + Late
      BY <1>3, <2>2 DEF PutIgnored, Receive, Near, TypeOK
    <3>2. n <= floor + Late + 2 * Jump /\ n \in Int /\ floor \in Int
      BY <3>1 DEF Arrivals, TypeOK
    <3>3. n < floor
      BY <1>3, <2>2, <3>2, Recognised DEF PutIgnored, Pending
    <3> QED
      BY <1>3, <3>1, <3>2, <3>3 DEF PutIgnored, Receive, Near, TypeOK
  <2> QED
    BY <2>1, <2>2 DEF Near
<1>4. ASSUME NEW n \in Arrivals, PutNeverEnds(n)
      PROVE  Near'
  <2>1. Pending' <=> Pending
    BY <1>4, OthersKeep DEF Others, Pending
  <2> QED
    BY <1>4, <2>1 DEF Arrivals, PutNeverEnds, Receive, Near, TypeOK
<1>5. ASSUME NEW n \in Arrivals, NEW quiet \in BOOLEAN,
             PutFirst(n, quiet) \/ PutAfterFlush(n, quiet)
      PROVE  Near'
  BY <1>5, PutClears DEF Near, Pending
<1>6. ASSUME NEW n \in Arrivals, NEW quiet \in BOOLEAN, Put(n, quiet)
      PROVE  Near'
  <2>1. /\ state' = state /\ first' = first /\ floor' = floor
        /\ pause' = (pause /\ ~Released(Ring, Seq(n)))
        /\ ~stuck /\ stuck' = stuck /\ newest' = (IF n > newest THEN n ELSE newest)
    BY <1>6, PutKeeps DEF Put, Receive
  <2> SUFFICES ASSUME Pending' PROVE newest' <= floor + Late
    BY <2>1 DEF Near, TypeOK
  <2>2. Pending
    BY <2>1 DEF Pending
  <2>3. newest <= floor + Late
    BY <2>1, <2>2 DEF Near, TypeOK
  <2>4. n <= floor + Late + 2 * Jump /\ n \in Int /\ floor \in Int
    BY <2>3 DEF Arrivals, TypeOK
  <2>5. n <= floor
    BY <1>6, <2>1, <2>2, <2>4, Recognised DEF Put, Pending, TypeOK
  <2> QED
    BY <2>1, <2>3, <2>4, <2>5 DEF TypeOK
<1>7. CASE GetNothing \/ GetFill \/ GetMissing \/ GetReady
  BY <1>7, OthersKeep DEF Others, GetNothing, GetFill, GetMissing, GetReady, GetFrame,
                          Near, Pending
<1>8. CASE RepeatFrame \/ DropFrame \/ UNCHANGED vars
  BY <1>8, OthersKeep DEF Others, RepeatFrame, DropFrame, Correct, vars, ghost, Near,
                          Pending
<1> QED
  BY <1>1, <1>2, <1>3, <1>4, <1>5, <1>6, <1>7, <1>8 DEF Next

-----------------------------------------------------------------------------
LEMMA InitHolds == Init => IInv
<1> SUFFICES ASSUME Init PROVE IInv
  OBVIOUS
<1>1. read \in SeqNos /\ write \in SeqNos
  BY BufferAssumption DEF Init, SeqNos
<1>2. /\ newest \in (First - 1)..Last /\ taken \in (First - 1)..Last
      /\ floor \in First..(Last + Jump)
      /\ skip \in 0..MaxGaps /\ gaps \in 0..MaxGaps
  BY BufferAssumption DEF Init
<1>3. ready \in [Slots -> BOOLEAN] /\ frame \in [Slots -> First..Last \union {Filler}]
  BY DEF Init
<1>4. TypeOK
  BY <1>1, <1>2, <1>3, BufferAssumption DEF Init, TypeOK
<1> QED
  BY <1>4, Widths DEF Init, IInv, Recorded, Told, Cleared, Near, Pending

\* Every variable of the ring keeps its type, for any sizes.
THEOREM TypeCorrect == Spec => []TypeOK
<1>1. Init => TypeOK /\ skip <= gaps
  BY InitHolds DEF IInv
<1>2. (TypeOK /\ skip <= gaps) /\ [Next]_vars => (TypeOK /\ skip <= gaps)'
  BY TypeStep
<1> QED
  BY <1>1, <1>2, PTL DEF Spec

\* A number that FLUSH or RECORD gave is the last one, and the stream is near it as long
\* as it is waited for.
THEOREM Invariant == 8 * B <= W => (Spec => []IInv)
<1> SUFFICES ASSUME 8 * B <= W PROVE Spec => []IInv
  OBVIOUS
<1>1. IInv /\ [Next]_vars => IInv'
  BY TypeStep, ToldStep, ClearedStep, NearStep DEF IInv
<1> QED
  BY <1>1, InitHolds, PTL DEF Spec

\* With flush turned on, no packet at or above the number given is ever ignored, however
\* long the stream (raop_streamer.c:428).
THEOREM AlwaysListens == 8 * B <= W => (Spec => []ListensOn)
<1> SUFFICES ASSUME 8 * B <= W PROVE Spec => []ListensOn
  OBVIOUS
<1>1. ASSUME IInv, flush, NEW n \in (newest + 1)..(newest + Jump), n >= floor
      PROVE  ~Ignored(Seq(n))
  <2>1. CASE first = None
    BY <2>1 DEF Ignored
  <2>2. CASE first # None
    <3>1. newest <= floor + Late + Jump
      BY <1>1, <2>2, Widths DEF IInv, Cleared, Near, Pending, TypeOK
    <3>2. n <= floor + Late + 2 * Jump /\ n \in Int
      BY <1>1, <3>1, Widths DEF IInv, TypeOK
    <3> QED
      BY <1>1, <2>2, <3>2, Recognised DEF IInv
  <2> QED
    BY <2>1, <2>2
<1>2. IInv => ListensOn
  BY <1>1 DEF ListensOn, IgnoresOnlyBelow
<1>3. Spec => []IInv
  BY Invariant
<1> QED
  BY <1>2, <1>3, PTL

\* With flush turned off, a pause ends with the first new packet beyond the number the
\* FLUSH of the playing stream gave, however long the stream (raop_streamer.c:490).
THEOREM PauseIsReleased == 8 * B <= W => (Spec => PauseEnds)
<1> SUFFICES ASSUME 8 * B <= W PROVE Spec => PauseEnds
  OBVIOUS
<1>1. ASSUME IInv, [Next]_vars, newest' > newest, newest' > floor, state = "PLAY", first # None
      PROVE  ~pause'
  <2>1. PICK n \in Arrivals : newest' = n /\ \/ PutIgnored(n)
                                              \/ \E quiet \in BOOLEAN : Put(n, quiet)
    <3>1. ASSUME NEW n \in Arrivals, Receive(n)
          PROVE  newest' = n
      BY <1>1, <3>1 DEF Receive, IInv, TypeOK
    <3>2. ~(newest' = newest)
      BY <1>1, Widths DEF IInv, TypeOK
    <3>3. \E n \in Arrivals :
            \/ PutIgnored(n) \/ PutNeverEnds(n)
            \/ \E quiet \in BOOLEAN :
                 PutFirst(n, quiet) \/ PutAfterFlush(n, quiet) \/ Put(n, quiet)
      BY <1>1, <3>2 DEF Next, Record, ghost, Flush, GetNothing, GetFill, GetMissing, GetReady,
                        GetFrame, RepeatFrame, DropFrame, Correct, vars
    <3> QED
      BY <1>1, <3>1, <3>3 DEF PutIgnored, PutNeverEnds, PutFirst, PutAfterFlush, Put, Flushed
  <2> SUFFICES ASSUME pause PROVE ~pause'
    <3>1. CASE PutIgnored(n)
      BY <3>1 DEF PutIgnored
    <3>2. ASSUME NEW quiet \in BOOLEAN, Put(n, quiet)
          PROVE  ~pause => ~pause'
      BY <1>1, <3>2, PutKeeps DEF IInv
    <3> QED
      BY <1>1, <2>1, <3>1, <3>2 DEF IInv, TypeOK
  <2>2. newest <= floor + Late
    <3>1. ~stuck
      BY <2>1 DEF PutIgnored, Put, Receive
    <3>2. Pending
      BY <1>1 DEF Pending
    <3> QED
      BY <1>1, <3>1, <3>2, Widths DEF IInv, Near, TypeOK
  <2>3. n \in Int /\ n >= floor /\ n # floor /\ n <= floor + Late + 2 * Jump
    BY <1>1, <2>1, <2>2, Widths DEF Arrivals, IInv, TypeOK
  <2>4. ~Ignored(Seq(n)) /\ Released(Ring, Seq(n))
    BY <1>1, <2>3, Recognised DEF IInv
  <2> QED
    BY <1>1, <2>1, <2>4, PutKeeps DEF PutIgnored, IInv
<1>2. Spec => []IInv
  BY Invariant
<1>3. IInv /\ [Next]_vars
        => [newest' > newest /\ newest' > floor /\ state = "PLAY" /\ first # None
              => ~pause']_vars
  BY <1>1
<1> QED
  BY <1>2, <1>3, PTL DEF Spec, PauseEnds

-----------------------------------------------------------------------------
(* The loop of line 453 that never ends: who can get into it.              *)

\* Who waits for a FLUSH to start playing was not told the first number, and who was told
\* still has it when the first packet comes.
Waiting ==
  /\ stuck \/ state = "STREAM" => record = "untold"
  /\ record = "told" /\ state = "WAIT" => first # None

LEMMA SeqIsSome == \A n \in Int : Seq(n) # None
BY SeqType, Widths DEF SeqNos, None

LEMMA WaitingStep ==
  ASSUME TypeOK, Waiting, [Next]_vars
  PROVE  Waiting'
<1>1. CASE Record
  BY <1>1, SeqType, Widths, SeqIsSome DEF Record, Waiting
<1>2. ASSUME NEW n \in Wanted, Flush(n)
      PROVE  Waiting'
  <2>1. Seq(n) # None
    BY SeqIsSome, Widths DEF Wanted
  <2> QED
    BY <1>2, <2>1 DEF Flush, FlushPlaying, Waiting
<1>3. ASSUME NEW n \in Arrivals, PutNeverEnds(n)
      PROVE  Waiting'
  BY <1>3 DEF PutNeverEnds, Receive, Flushed, Waiting
<1>4. ASSUME NEW n \in Arrivals, NEW quiet \in BOOLEAN, PutFirst(n, quiet)
      PROVE  Waiting'
  <2>1. Seq(n) \in SeqNos /\ n \in First..Last
    BY SeqType, Widths DEF Arrivals
  <2>2. /\ Opened(Seq(n)) \in Context
        /\ Opened(Seq(n)).state = IF first # None THEN "PLAY" ELSE "STREAM"
    BY <2>1, OpenedType DEF Opened
  <2>3. state' = IF first # None THEN "PLAY" ELSE "STREAM"
    BY <1>4, <2>1, <2>2, StoreType DEF PutFirst
  <2>4. record \in {"told", "untold"} /\ record' = record /\ stuck' = stuck
    BY <1>4 DEF PutFirst, Receive, TypeOK
  <2> QED
    BY <1>4, <2>3, <2>4 DEF PutFirst, Waiting
<1>5. ASSUME NEW n \in Arrivals, NEW quiet \in BOOLEAN, PutAfterFlush(n, quiet)
      PROVE  Waiting'
  <2>1. Discarded \in Context /\ Discarded.state = "PLAY" /\ n \in First..Last
    BY <1>5, DiscardedType DEF PutAfterFlush, Discarded, Ring, Arrivals
  <2>2. state' = "PLAY"
    BY <1>5, <2>1, StoreType DEF PutAfterFlush
  <2> QED
    BY <1>5, <2>2 DEF PutAfterFlush, Receive, Waiting
<1>6. ASSUME NEW n \in Arrivals, NEW quiet \in BOOLEAN, Put(n, quiet)
      PROVE  Waiting'
  BY <1>6, PutKeeps DEF Put, Receive, Waiting
<1>7. ASSUME NEW n \in Arrivals, PutIgnored(n)
      PROVE  Waiting'
  BY <1>7 DEF PutIgnored, Receive, ring, Waiting
<1>8. CASE GetNothing \/ GetFill \/ GetMissing \/ GetReady \/ RepeatFrame \/ DropFrame
           \/ UNCHANGED vars
  BY <1>8 DEF GetNothing, GetFill, GetMissing, GetReady, GetFrame, RepeatFrame, DropFrame,
              Correct, vars, ring, Waiting
<1> QED
  BY <1>1, <1>2, <1>3, <1>4, <1>5, <1>6, <1>7, <1>8 DEF Next

\* The discard of buffer_put_packet (raop_streamer.c:452) ends unless RECORD came without
\* the first number: only then a packet is in the ring before the FLUSH that discards.
DiscardEndsIfTold == record # "untold" => DiscardEnds

THEOREM DiscardEndsWhenTold == Spec => []DiscardEndsIfTold
<1>1. Init => Waiting
  BY DEF Init, Waiting
<1>2. TypeOK /\ Waiting /\ [Next]_vars => Waiting'
  BY WaitingStep
<1>3. Waiting => DiscardEndsIfTold
  BY DEF Waiting, DiscardEndsIfTold, DiscardEnds
<1> QED
  BY <1>1, <1>2, <1>3, TypeCorrect, PTL DEF Spec
=============================================================================
