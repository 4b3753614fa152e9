----------------------------- MODULE RingProofs -----------------------------
(***************************************************************************)
(* Theorems about RtpBuffer, for any sizes and streams of any length: what *)
(* the ring holds between its two pointers, and what is taken out of it.   *)
(* The program's pointers are sequence numbers; the proof finds the frames *)
(* they stand for.                                                         *)
(***************************************************************************)
EXTENDS RtpProofs

-----------------------------------------------------------------------------
(* Sizes.                                                                  *)

\* Half of all numbers.
Half == W \div 2

\* The sequence numbers tell eight turns of the ring apart, and the packets out of order
\* and the fill take less than half of them.  The program has 2^16 numbers, 2048 slots.
Room == 8 * B <= W /\ Late + Jump + Ahead + 2 <= Half

LEMMA Sizes ==
  ASSUME Room
  PROVE  /\ Half \in Nat /\ 4 * B <= Half /\ 2 * Half <= W
         /\ Reach \in Nat /\ Late <= Reach /\ Reach + Jump + Ahead + 2 = Half
         /\ W \in Nat \ {0} /\ B \in Nat \ {0} /\ B >= 2
         /\ Late \in Nat /\ Jump \in Nat /\ Jump >= 1 /\ Ahead \in Nat
         /\ Late < B /\ Jump <= B
         /\ First \in Nat /\ Last \in Nat /\ MaxGaps \in Nat
         /\ Delay \in Nat /\ Delay < B /\ Headroom \in Nat
<1>1. /\ W \in Nat \ {0} /\ B \in Nat \ {0} /\ B >= 2
      /\ Late \in Nat /\ Jump \in Nat /\ Jump >= 1 /\ Ahead \in Nat
      /\ Late < B /\ Jump <= B
      /\ First \in Nat /\ Last \in Nat /\ MaxGaps \in Nat
      /\ Delay \in Nat /\ Delay < B /\ Headroom \in Nat
  BY BufferAssumption
<1>2. Half \in Nat /\ 4 * B <= Half /\ 2 * Half <= W
  BY <1>1 DEF Room, Half
<1>3. Reach = Half - (Jump + Ahead + 2)
  BY DEF Reach, Half
<1> QED
  BY <1>1, <1>2, <1>3 DEF Room

-----------------------------------------------------------------------------
(* Sequence numbers.                                                       *)

LEMMA SeqInt == \A n \in Int : Seq(n) \in Int
<1> TAKE n \in Int
<1>1. Seq(n) \in SeqNos
  BY SeqType
<1> QED
  BY <1>1, Widths DEF SeqNos

LEMMA SeqPlus ==
  ASSUME NEW a \in Int, NEW j \in Int
  PROVE  Seq(Seq(a) + j) = Seq(a + j)
<1>1. PICK q \in Int, r \in 0..(W - 1) : a = W * q + r /\ r = a % W
  BY Widths, Division
<1>2. W * q \in Int /\ r \in Int /\ r + j \in Int
  BY Widths
<1>3. a + j = W * q + (r + j)
  BY <1>1, <1>2
<1>4. (W * q + (r + j)) % W = (r + j) % W
  BY <1>2, Widths, Turns
<1> QED
  BY <1>1, <1>3, <1>4 DEF Seq

LEMMA SeqMinus ==
  ASSUME NEW x \in Int, NEW b \in Int
  PROVE  Seq(x - Seq(b)) = Seq(x - b)
<1>1. PICK q \in Int, r \in 0..(W - 1) : b = W * q + r /\ r = b % W
  BY Widths, Division
<1>2. W * q \in Int /\ r \in Int /\ x - b \in Int
  BY Widths
<1>3. x - r = W * q + (x - b)
  BY <1>1, <1>2
<1>4. (W * q + (x - b)) % W = (x - b) % W
  BY <1>2, Widths, Turns
<1> QED
  BY <1>1, <1>3, <1>4 DEF Seq

\* The slot of a frame is that of its sequence number: B divides W.
LEMMA IdxSeq ==
  ASSUME NEW x \in Int
  PROVE  Idx(Seq(x)) = Idx(x)
<1>1. PICK q \in Int, r \in 0..(W - 1) : x = W * q + r /\ r = x % W
  BY Widths, Division
<1>2. PICK c \in Int : W = B * c
  <2>1. W \in Int /\ B \in Nat \ {0} /\ W % B = 0
    BY BufferAssumption
  <2>2. PICK d \in Int, z \in 0..(B - 1) : W = B * d + z /\ z = W % B
    BY <2>1, Division
  <2>3. z = 0
    BY <2>1, <2>2
  <2>4. W = B * d
    <3>1. \A y \in Int : y + 0 = y
      OBVIOUS
    <3>2. B * d \in Int
      BY <2>1
    <3> QED
      BY <2>2, <2>3, <3>1, <3>2
  <2> QED
    BY <2>4
<1>4. W * q = B * (c * q) /\ c * q \in Int
  BY <1>2, Widths
<1>5. r \in Int
  BY Widths
<1>6. (B * (c * q) + r) % B = r % B
  BY <1>4, <1>5, Widths, Turns
<1> QED
  BY <1>1, <1>4, <1>6 DEF Seq, Idx

\* The program's short is the difference itself as long as it is less than half a turn.
LEMMA SignedIs ==
  ASSUME Room, NEW d \in Int, NEW e \in Int, Seq(d) = Seq(e), e < Half, e > -Half
  PROVE  Signed(d) = e
<1>1. d % W = e % W
  BY DEF Seq
<1>2. CASE e >= 0
  <2>1. e % W = e
    <3>1. e \in SeqNos
      BY <1>2, Sizes DEF SeqNos
    <3> QED
      BY <3>1, SeqTwice DEF Seq
  <2>2. ~(e >= Half)
    BY Sizes
  <2> QED
    BY <1>1, <2>1, <2>2 DEF Signed, Half
<1>3. CASE e < 0
  <2>1. e % W = W + e
    <3>1. e = W * (-1) + (W + e) /\ W + e \in 0..(W - 1) /\ -1 \in Int
      BY <1>3, Sizes
    <3> QED
      BY <3>1, Sizes, Remainder
  <2>2. W + e >= Half /\ (W + e) - W = e
    BY Sizes
  <2> QED
    BY <1>1, <2>1, <2>2 DEF Signed, Half
<1> QED
  BY <1>2, <1>3

LEMMA Fill ==
  ASSUME Room, NEW R \in Int, NEW T \in Int, T - R + 1 < Half, T - R + 1 > -Half
  PROVE  BufFill(Seq(R), Seq(T)) = T - R + 1
<1>1. Seq(T) \in Int /\ Seq(R) \in Int
  BY SeqInt
<1>2. Seq((Seq(T) + 1) - Seq(R)) = Seq((Seq(T) + 1) - R)
  BY <1>1, SeqMinus
<1>3. (Seq(T) + 1) - R = Seq(T) + (1 - R) /\ T + (1 - R) = T - R + 1
  BY <1>1
<1>4. Seq(Seq(T) + (1 - R)) = Seq(T + (1 - R))
  BY SeqPlus
<1>5. (Seq(T) + 1) - Seq(R) = Seq(T) - Seq(R) + 1
  BY <1>1
<1> QED
  BY <1>1, <1>2, <1>3, <1>4, <1>5, SignedIs DEF BufFill

LEMMA Behind ==
  ASSUME Room, NEW n \in Int, NEW R \in Int, n - R < Half, n - R > -Half
  PROVE  Signed(n - Seq(R)) = n - R /\ Signed(Seq(n) - Seq(R)) = n - R
         /\ Signed(Seq(n) - R) = n - R
<1>1. Seq(n) \in Int /\ Seq(R) \in Int
  BY SeqInt
<1>2. Seq(n - Seq(R)) = Seq(n - R)
  BY SeqMinus
<1>3. Seq(Seq(n) - R) = Seq(n - R)
  <2>1. Seq(n) - R = Seq(n) + (-R) /\ n + (-R) = n - R
    BY <1>1
  <2> QED
    BY <2>1, SeqPlus
<1>4. Seq(Seq(n) - Seq(R)) = Seq(Seq(n) - R)
  BY <1>1, SeqMinus
<1> QED
  BY <1>1, <1>2, <1>3, <1>4, SignedIs

\* Within half a turn seq_order is the order of the frames.
LEMMA Before ==
  ASSUME Room, NEW a \in Int, NEW b \in Int, b - a < Half, a - b < Half
  PROVE  SeqOrder(Seq(a), Seq(b)) <=> a < b
<1>1. Half \in Nat
  BY Sizes
<1>2. CASE a < b
  <2>1. b - a \in 0..(W \div 2 - 1) /\ b # a
    BY <1>1, <1>2 DEF Half
  <2> QED
    BY <1>2, <2>1, Order
<1>3. CASE ~(a < b)
  <2>1. a - b \in 0..(W \div 2 - 1)
    BY <1>1, <1>3 DEF Half
  <2> QED
    BY <1>3, <2>1, Order
<1> QED
  BY <1>2, <1>3

-----------------------------------------------------------------------------
(* What the slots hold.                                                    *)

\* A slot whose flag is set holds a frame from R to T, in its place, or what a clock
\* correction repeats.
Frames(rdy, frm, R, T) ==
  \A i \in Slots : rdy[i] /\ frm[i] # Filler => frm[i] \in R..T /\ Idx(frm[i]) = i

LEMMA SameSlot ==
  ASSUME NEW x \in Int, NEW y \in Int, Idx(x) = Idx(y), x - y < B, y - x < B
  PROVE  x = y
BY Widths, SameRemainder DEF Idx

\* Frames dropped are gone, and no flag is set by it.
LEMMA FramesDrop ==
  ASSUME NEW rdy \in [Slots -> BOOLEAN], NEW frm, NEW R \in Int, NEW T \in Int,
         NEW k \in Nat, Frames(rdy, frm, R, T)
  PROVE  Frames(Drop(rdy, Seq(R), k), frm, R + k, T)
<1> SUFFICES ASSUME NEW i \in Slots, Drop(rdy, Seq(R), k)[i], frm[i] # Filler
             PROVE  frm[i] \in (R + k)..T /\ Idx(frm[i]) = i
  BY DEF Frames
<1>1. rdy[i] /\ ~ \E j \in 0..(k - 1) : Idx(Seq(Seq(R) + j)) = i
  BY DEF Drop
<1>2. frm[i] \in R..T /\ Idx(frm[i]) = i
  BY <1>1 DEF Frames
<1>3. ~(frm[i] < R + k)
  <2> SUFFICES ASSUME frm[i] < R + k PROVE FALSE
    OBVIOUS
  <2> DEFINE j == frm[i] - R
  <2>1. j \in 0..(k - 1) /\ j \in Int /\ R + j = frm[i] /\ frm[i] \in Int
    BY <1>2
  <2>2. Seq(Seq(R) + j) = Seq(frm[i])
    BY <2>1, SeqPlus
  <2>3. Idx(Seq(Seq(R) + j)) = i
    BY <1>2, <2>1, <2>2, IdxSeq
  <2> QED
    BY <1>1, <2>1, <2>3
<1> QED
  BY <1>2, <1>3

LEMMA DropNone ==
  ASSUME NEW rdy \in [Slots -> BOOLEAN], NEW a
  PROVE  Drop(rdy, a, 0) = rdy
BY DEF Drop

\* The frame at the read pointer is taken out.
LEMMA FramesTake ==
  ASSUME NEW rdy \in [Slots -> BOOLEAN], NEW frm, NEW R \in Int, NEW T \in Int,
         Frames(rdy, frm, R, T)
  PROVE  Frames([rdy EXCEPT ![Idx(Seq(R))] = FALSE], frm, R + 1, T)
<1> SUFFICES ASSUME NEW i \in Slots, [rdy EXCEPT ![Idx(Seq(R))] = FALSE][i], frm[i] # Filler
             PROVE  frm[i] \in (R + 1)..T /\ Idx(frm[i]) = i
  BY DEF Frames
<1>1. i # Idx(R) /\ rdy[i]
  BY IdxSeq
<1>2. frm[i] \in R..T /\ Idx(frm[i]) = i
  BY <1>1 DEF Frames
<1>3. frm[i] # R
  BY <1>1, <1>2
<1> QED
  BY <1>2, <1>3

\* The frame at the read pointer is not there.
LEMMA FramesPass ==
  ASSUME NEW rdy \in [Slots -> BOOLEAN], NEW frm, NEW R \in Int, NEW T \in Int,
         Frames(rdy, frm, R, T), ~rdy[Idx(Seq(R))]
  PROVE  Frames(rdy, frm, R + 1, T)
<1> SUFFICES ASSUME NEW i \in Slots, rdy[i], frm[i] # Filler
             PROVE  frm[i] \in (R + 1)..T /\ Idx(frm[i]) = i
  BY DEF Frames
<1>1. i # Idx(R)
  BY IdxSeq
<1>2. frm[i] \in R..T /\ Idx(frm[i]) = i
  BY DEF Frames
<1>3. frm[i] # R
  BY <1>1, <1>2
<1> QED
  BY <1>2, <1>3

\* A frame is stored in its slot.
LEMMA FramesPut ==
  ASSUME NEW rdy \in [Slots -> BOOLEAN], NEW frm \in [Slots -> Int],
         NEW R \in Int, NEW T \in Int,
         NEW n \in R..T, Frames(rdy, frm, R, T)
  PROVE  Frames([rdy EXCEPT ![Idx(Seq(n))] = TRUE], [frm EXCEPT ![Idx(Seq(n))] = n], R, T)
<1> DEFINE s == Idx(Seq(n))
<1>1. s = Idx(n) /\ s \in Slots /\ n \in Int
  BY IdxSeq, SeqType
<1> SUFFICES ASSUME NEW i \in Slots, [rdy EXCEPT ![s] = TRUE][i],
                    [frm EXCEPT ![s] = n][i] # Filler
             PROVE  [frm EXCEPT ![s] = n][i] \in R..T /\ Idx([frm EXCEPT ![s] = n][i]) = i
  BY DEF Frames
<1>2. CASE i = s
  BY <1>1, <1>2
<1>3. CASE i # s
  BY <1>3 DEF Frames
<1> QED
  BY <1>2, <1>3

\* More room at the writer's end.
LEMMA FramesMore ==
  ASSUME NEW rdy, NEW frm, NEW R \in Int, NEW T \in Int, NEW U \in Int, T <= U,
         Frames(rdy, frm, R, T)
  PROVE  Frames(rdy, frm, R, U)
<1> SUFFICES ASSUME NEW i \in Slots, rdy[i], frm[i] # Filler
             PROVE  frm[i] \in R..U /\ Idx(frm[i]) = i
  BY DEF Frames
<1>1. frm[i] \in R..T /\ Idx(frm[i]) = i
  BY DEF Frames
<1> QED
  BY <1>1

-----------------------------------------------------------------------------
(* buffer_put_packet.                                                      *)

\* The pointers of c stand for R and T, and the packet n is within half a turn of both.
Within(c, R, T, n) ==
  /\ c.read = Seq(R) /\ c.write = Seq(T) /\ R <= T + 1
  /\ n - R < Half - 1 /\ R - n < Half - 1
  /\ n - T < Half /\ T - n < Half

Larger(a, b) == IF a > b THEN a ELSE b

\* A packet beyond the writer moves it there, and the reader with it when it is more than
\* the delay ahead: what is between is dropped.
LEMMA PlacedAt ==
  ASSUME Room, NEW c \in Context, NEW R \in Int, NEW T \in Int, NEW n \in First..Last,
         NEW frm, Within(c, R, T, n), Frames(c.ready, frm, R, T)
  PROVE  \E Q \in Int :
           LET p == Placed(c, Seq(n))
               U == Larger(n, T)
           IN /\ p.read = Seq(Q) /\ p.write = Seq(U) /\ Frames(p.ready, frm, Q, U)
              /\ R <= Q /\ Q <= U + 1 /\ (R <= n => Q <= n)
              /\ p.ready = Drop(c.ready, Seq(R), Q - R)
<1> DEFINE p == Placed(c, Seq(n))
           U == Larger(n, T)
           Goal(Q) == /\ p.read = Seq(Q) /\ p.write = Seq(U) /\ Frames(p.ready, frm, Q, U)
                      /\ R <= Q /\ Q <= U + 1 /\ (R <= n => Q <= n)
                      /\ p.ready = Drop(c.ready, Seq(R), Q - R)
<1>0. c.ready = Drop(c.ready, Seq(R), R - R)
  <2>1. R - R = 0 /\ c.ready \in [Slots -> BOOLEAN]
    BY DEF Context
  <2> QED
    BY <2>1, DropNone
<1>1. n \in Int /\ T + 1 \in Int /\ U \in Int /\ T <= U /\ n <= U
  BY Sizes DEF Larger
<1>2. /\ c.read = Seq(R) /\ c.write = Seq(T) /\ R <= T + 1
      /\ n - R < Half - 1 /\ R - n < Half - 1
      /\ n - T < Half /\ T - n < Half
  BY DEF Within
<1>3. Seq(Seq(T) + 1) = Seq(T + 1)
  BY SeqNext
<1>4. SeqOrder(Seq(T), Seq(n)) <=> T < n
  BY <1>1, <1>2, Before
<1>5. CASE Seq(n) = Seq(T + 1)
  <2>1. n = T + 1
    <3>1. n - (T + 1) < W /\ (T + 1) - n < W
      BY <1>1, <1>2, Sizes
    <3>2. n % W = (T + 1) % W /\ W \in Nat \ {0}
      BY <1>5, Sizes DEF Seq
    <3> QED
      BY <1>1, <3>1, <3>2, SameRemainder
  <2>2. U = n
    BY <1>1, <2>1 DEF Larger
  <2>3. p = [c EXCEPT !.write = Seq(n)]
    BY <1>2, <1>3, <1>5 DEF Placed
  <2>4. p.read = Seq(R) /\ p.write = Seq(U) /\ p.ready = c.ready
    BY <1>2, <2>2, <2>3 DEF Context
  <2>5. Frames(p.ready, frm, R, U)
    BY <1>1, <2>4, FramesMore
  <2>6. Goal(R)
    BY <1>0, <1>1, <1>2, <2>1, <2>2, <2>4, <2>5
  <2> QED
    BY <2>6
<1>6. CASE Seq(n) # Seq(T + 1) /\ T < n
  <2>1. U = n /\ R <= n
    BY <1>1, <1>2, <1>6 DEF Larger
  <2> DEFINE far == Delay # 0 /\ SeqOrder(Delay, Dist(c.read, Seq(n)))
             lag == Dist(c.read, Seq(n)) - Delay + 1
  <2>2. p = IF far THEN [c EXCEPT !.write = Seq(n), !.read = Seq(Seq(n) - Delay + 1),
                                  !.ready = Drop(c.ready, c.read, lag)]
                   ELSE [c EXCEPT !.write = Seq(n)]
    BY <1>2, <1>3, <1>4, <1>6 DEF Placed
  <2>3. Dist(c.read, Seq(n)) = n - R
    <3>1. n - R \in 0..(W - 1)
      BY <1>1, <1>2, <2>1, Sizes
    <3>2. ((n % W) - (R % W)) % W = n - R
      BY <1>1, <3>1, Widths, DistUp
    <3> QED
      BY <1>2, <3>2 DEF Dist, Seq
  <2>4. CASE far
    <3>1. Delay < n - R
      <4>1. Delay \in SeqNos /\ n - R \in SeqNos
        BY <1>1, <1>2, <2>1, Sizes DEF SeqNos
      <4>2. Seq(Delay) = Delay /\ Seq(n - R) = n - R
        BY <4>1, SeqTwice
      <4>3. /\ (n - R) - Delay < Half /\ Delay - (n - R) < Half
            /\ Delay \in Int /\ n - R \in Int
        BY <1>1, <1>2, <2>1, Sizes
      <4>4. SeqOrder(Seq(Delay), Seq(n - R)) <=> Delay < n - R
        BY <4>3, Before
      <4> QED
        BY <2>3, <2>4, <4>2, <4>4
    <3>2. lag \in Nat /\ R + lag = n - Delay + 1 /\ n - Delay + 1 \in Int /\ Delay >= 1
      BY <1>1, <2>3, <2>4, <3>1, Sizes
    <3>3. Seq(Seq(n) - Delay + 1) = Seq(R + lag)
      <4>1. Seq(Seq(n) + (1 - Delay)) = Seq(n + (1 - Delay))
        <5>1. 1 - Delay \in Int
          BY Sizes
        <5> QED
          BY <1>1, <5>1, SeqPlus
      <4>2. Seq(n) - Delay + 1 = Seq(n) + (1 - Delay) /\ n + (1 - Delay) = n - Delay + 1
        <5>1. Seq(n) \in Int /\ Delay \in Int
          BY <1>1, SeqInt, Sizes
        <5> QED
          BY <1>1, <5>1
      <4> QED
        BY <3>2, <4>1, <4>2
    <3>4. /\ p.read = Seq(R + lag) /\ p.write = Seq(U)
          /\ p.ready = Drop(c.ready, Seq(R), lag)
      BY <1>2, <2>1, <2>2, <2>4, <3>3 DEF Context
    <3>5. Frames(p.ready, frm, R + lag, U)
      <4>1. Frames(Drop(c.ready, Seq(R), lag), frm, R + lag, T)
        BY <3>2, FramesDrop DEF Context
      <4> QED
        BY <1>1, <3>2, <3>4, <4>1, FramesMore
    <3>6. R <= R + lag /\ R + lag <= n /\ R + lag <= U + 1 /\ R + lag \in Int
      BY <1>1, <2>1, <3>2, Sizes
    <3>7. Goal(R + lag)
      <4>1. (R + lag) - R = lag
        BY <3>2
      <4> QED
        BY <3>4, <3>5, <3>6, <4>1
    <3> QED
      BY <3>6, <3>7
  <2>5. CASE ~far
    <3>1. p.read = Seq(R) /\ p.write = Seq(U) /\ p.ready = c.ready
      BY <1>2, <2>1, <2>2, <2>5 DEF Context
    <3>2. Frames(p.ready, frm, R, U)
      BY <1>1, <3>1, FramesMore
    <3>3. Goal(R)
      BY <1>0, <1>1, <2>1, <3>1, <3>2
    <3> QED
      BY <3>3
  <2> QED
    BY <2>4, <2>5
<1>7. CASE Seq(n) # Seq(T + 1) /\ ~(T < n)
  <2>1. U = T /\ p = c
    BY <1>1, <1>2, <1>3, <1>4, <1>7 DEF Placed, Larger
  <2>2. Goal(R)
    BY <1>0, <1>2, <2>1
  <2> QED
    BY <2>2
<1> QED
  BY <1>5, <1>6, <1>7

\* A packet is stored unless it is below the reader.
LEMMA AcceptedIs ==
  ASSUME Room, NEW c \in Context, NEW R \in Int, NEW T \in Int, NEW n \in Int,
         Within(c, R, T, n)
  PROVE  Accepted(c, Seq(n)) <=> n >= R
<1>1. /\ c.read = Seq(R) /\ c.write = Seq(T) /\ R <= T + 1
      /\ n - R < Half - 1 /\ R - n < Half - 1
      /\ n - T < Half /\ T - n < Half
  BY DEF Within
<1>2. SeqOrder(Seq(T), Seq(n)) <=> T < n
  BY <1>1, Before
<1>3. SeqOrder(Seq(R), Seq(n + 1)) <=> R < n + 1
  <2>1. n + 1 \in Int /\ (n + 1) - R < Half /\ R - (n + 1) < Half
    BY <1>1, Sizes
  <2> QED
    BY <2>1, Before
<1>4. Seq(Seq(n) + 1) = Seq(n + 1)
  BY SeqNext
<1>5. Accepted(c, Seq(n)) <=> T < n \/ R < n + 1
  BY <1>1, <1>2, <1>3, <1>4 DEF Accepted
<1> QED
  BY <1>1, <1>5

\* What is stored leaves the ring in order, whatever the state was.
LEMMA StoredAt ==
  ASSUME Room, TypeOK, NEW c \in Context, NEW R \in Int, NEW T \in Int,
         NEW n \in First..Last, NEW quiet \in BOOLEAN,
         Within(c, R, T, n), Frames(c.ready, frame, R, T), Store(c, n, quiet)
  PROVE  \E Q \in Int :
           LET U == Larger(n, T)
           IN /\ read' = Seq(Q) /\ write' = Seq(U) /\ Frames(ready', frame', Q, U)
              /\ R <= Q /\ Q <= U + 1
<1> DEFINE s == Seq(n)
           p == Placed(c, s)
           U == Larger(n, T)
           q == [p EXCEPT !.ready[Idx(s)] = TRUE]
           t == IF Accepted(c, s) THEN Thinned(q, quiet) ELSE p
<1>1. n \in Int /\ U \in Int /\ n <= U /\ s \in SeqNos
  BY Sizes, SeqType DEF Larger
<1>2. PICK Q \in Int : /\ p.read = Seq(Q) /\ p.write = Seq(U) /\ Frames(p.ready, frame, Q, U)
                       /\ R <= Q /\ Q <= U + 1 /\ (R <= n => Q <= n)
  BY PlacedAt
<1>3. /\ read' = t.read /\ write' = t.write /\ ready' = t.ready
      /\ frame' = IF Accepted(c, s) THEN [frame EXCEPT ![Idx(s)] = n] ELSE frame
  BY DEF Store
<1>4. Accepted(c, s) <=> n >= R
  BY <1>1, AcceptedIs
<1>5. p \in Context
  BY <1>1, PlacedType
<1>6. CASE n >= R
  <2>1. Q <= n /\ n \in Q..U
    BY <1>1, <1>2, <1>6
  <2>2. /\ q \in Context /\ q.read = Seq(Q) /\ q.write = Seq(U)
        /\ q.ready = [p.ready EXCEPT ![Idx(s)] = TRUE]
    BY <1>2, <1>5 DEF Context
  <2>3. frame' = [frame EXCEPT ![Idx(s)] = n]
    BY <1>3, <1>4, <1>6
  <2>4. Frames(q.ready, frame', Q, U)
    <3>1. frame \in [Slots -> Int] /\ p.ready \in [Slots -> BOOLEAN]
      BY <1>5, Sizes DEF TypeOK, Context, Filler
    <3>2. Frames([p.ready EXCEPT ![Idx(s)] = TRUE], [frame EXCEPT ![Idx(s)] = n], Q, U)
      BY <1>1, <1>2, <2>1, <3>1, FramesPut
    <3> QED
      BY <2>2, <2>3, <3>2
  <2>5. t = Thinned(q, quiet)
    BY <1>4, <1>6
  <2> HIDE DEF q
  <2>6. CASE t = q
    BY <1>1, <1>2, <1>3, <2>2, <2>4, <2>6
  <2>7. CASE t = [q EXCEPT !.ready[Idx(q.read)] = FALSE, !.read = Seq(q.read + 1)]
    <3>1. Seq(q.read + 1) = Seq(Q + 1)
      BY <2>2, SeqNext
    <3>2. /\ t.read = Seq(Q + 1) /\ t.write = Seq(U)
          /\ t.ready = [q.ready EXCEPT ![Idx(Seq(Q))] = FALSE]
      BY <2>2, <2>7, <3>1 DEF Context
    <3>3. Frames(t.ready, frame', Q + 1, U)
      <4>1. q.ready \in [Slots -> BOOLEAN]
        BY <2>2 DEF Context
      <4>2. Frames([q.ready EXCEPT ![Idx(Seq(Q))] = FALSE], frame', Q + 1, U)
        BY <1>1, <2>4, <4>1, FramesTake
      <4> QED
        BY <3>2, <4>2
    <3>4. Q + 1 \in Int /\ R <= Q + 1 /\ Q + 1 <= U + 1
      BY <1>1, <1>2, <2>1
    <3> HIDE DEF t
    <3> QED
      BY <1>3, <3>2, <3>3, <3>4
  <2> QED
    BY <2>5, <2>6, <2>7 DEF Thinned
<1>7. CASE ~(n >= R)
  <2>1. t = p /\ frame' = frame
    BY <1>3, <1>4, <1>7
  <2> QED
    BY <1>2, <1>3, <2>1
<1> QED
  BY <1>6, <1>7

-----------------------------------------------------------------------------
(* The invariant.                                                          *)

\* Before the first packet nothing is in the ring, what was heard is below the number that
\* is waited for, and without a number nothing has come.
Begun ==
  /\ record = "none" => state = "WAIT"
  /\ state = "WAIT" => /\ taken < floor
                       /\ \A i \in Slots : ready[i] => frame[i] = Filler
                       /\ first = None => floor = First /\ newest = First - 1
  /\ state = "STREAM" => taken = First - 1
  /\ stuck => state = "STREAM"
  /\ floor <= newest + Jump

\* The frames the two pointers stand for.
Placement(R, T) ==
  /\ read = Seq(R) /\ write = Seq(T) /\ R <= T + 1
  /\ state = "WAIT" => T - R <= Reach
  /\ state # "WAIT" => T - R <= Reach + Ahead /\ T <= newest + Ahead
  /\ state # "WAIT" /\ ~stuck => newest - R <= Reach

Contents(R, T) == state # "WAIT" => Frames(ready, frame, R, T)

\* What was heard, and what was flushed, is below the reader, short of what was repeated.
Heard(R) ==
  /\ state = "PLAY" => taken < R + gaps /\ (flush => floor <= R + gaps)
  /\ state = "STREAM" => First <= R + gaps

Around(R, T) == Placement(R, T) /\ Contents(R, T) /\ Heard(R)

InPlace == ~astray => \E R, T \in Int : Around(R, T)

RInv == IInv /\ Begun /\ InPlace

\* What the type invariant says of the numbers, for the arithmetic below.
LEMMA Ints ==
  ASSUME TypeOK
  PROVE  /\ newest \in Int /\ floor \in Int /\ taken \in Int /\ gaps \in Nat /\ skip \in Nat
         /\ read \in Int /\ write \in Int /\ First \in Int
         /\ floor >= First /\ taken >= First - 1 /\ newest >= First - 1
         /\ ready \in [Slots -> BOOLEAN]
BY Widths DEF TypeOK, SeqNos

LEMMA RingInit == Room /\ Init => Begun /\ InPlace
<1> SUFFICES ASSUME Room, Init PROVE Begun /\ InPlace
  OBVIOUS
<1>1. Begun
  BY Sizes DEF Init, Begun
<1>2. Seq(0) = 0 /\ Seq(1) = 1
  <2>1. 0 \in SeqNos /\ 1 \in SeqNos
    BY Sizes DEF SeqNos
  <2> QED
    BY <2>1, SeqTwice
<1>3. Around(1, 0)
  BY <1>2, Sizes DEF Init, Around, Placement, Contents, Heard
<1>4. 0 \in Int /\ 1 \in Int
  OBVIOUS
<1> QED
  BY <1>1, <1>3, <1>4 DEF InPlace

\* A packet not ignored, while a number is pending, is not below it.
LEMMA NotBelow ==
  ASSUME Room, TypeOK, Told, Begun, first # None, NEW n \in Arrivals, ~Ignored(Seq(n))
  PROVE  floor <= n
<1> SUFFICES ASSUME n < floor PROVE FALSE
  BY Ints, Sizes DEF Arrivals
<1>1. n \in Int /\ n >= newest - Late /\ floor <= newest + Jump
  BY Sizes DEF Arrivals, Begun
<1>2. floor - n < Half /\ n - floor < Half
  BY <1>1, Ints, Sizes
<1>3. SeqOrder(Seq(n), Seq(floor))
  BY <1>1, <1>2, Ints, Before
<1> QED
  BY <1>3 DEF Ignored, Told

\* The reader is left behind when the newest packet is that far ahead of it.
LEMMA LeftIs ==
  ASSUME Room, NEW R \in Int, NEW n \in Int, NEW st, NEW w, st # "WAIT",
         n - R < Half, R - n < Half
  PROVE  LeftBehind(st, Seq(R), w, n) <=> n - R > Reach
<1>1. n - R > -Half
  BY Sizes
<1>2. Signed(n - Seq(R)) = n - R
  BY <1>1, Behind
<1> QED
  BY <1>2 DEF LeftBehind

\* A packet stored leaves the two pointers around what the ring holds.
LEMMA PutAt ==
  ASSUME Room, TypeOK, TypeOK', NEW c \in Context, NEW R \in Int, NEW T \in Int,
         NEW n \in Arrivals, NEW quiet \in BOOLEAN, Receive(n), Store(c, n, quiet),
         c.read = Seq(R), c.write = Seq(T), Frames(c.ready, frame, R, T), c.state # "WAIT",
         R <= T + 1, T <= newest' + Ahead,
         \/ newest' - R <= Reach
         \/ newest' - R <= Reach + Jump /\ ~LeftBehind(state', read', write', newest'),
         R <= n + Ahead + Late + 1, n - R <= Reach + Jump, T - n <= Ahead + Late
  PROVE  \E Q, U \in Int : Placement(Q, U)' /\ Contents(Q, U)' /\ R <= Q
<1>1. n \in First..Last /\ n \in Int /\ newest' = Larger(n, newest)
  BY Sizes DEF Arrivals, Receive, Larger
<1>2. newest' \in Int /\ newest' >= n /\ newest' >= newest /\ newest \in Int
  BY <1>1, Ints DEF Larger
<1>3. Within(c, R, T, n)
  BY <1>1, Sizes DEF Within
<1> DEFINE U == Larger(n, T)
<1>4. U \in Int /\ U <= newest' + Ahead /\ (U = n \/ U = T) /\ U >= T
  BY <1>1, <1>2, Sizes DEF Larger
<1>5. PICK Q \in Int : /\ read' = Seq(Q) /\ write' = Seq(U) /\ Frames(ready', frame', Q, U)
                       /\ R <= Q /\ Q <= U + 1
  BY <1>1, <1>3, StoredAt
<1>6. state' # "WAIT"
  BY <1>1, StoreType
<1>7. newest' - Q <= Reach
  <2>1. newest' - Q < Half /\ Q - newest' < Half
    BY <1>2, <1>4, <1>5, Sizes
  <2>2. LeftBehind(state', read', write', newest') <=> newest' - Q > Reach
    BY <1>2, <1>5, <1>6, <2>1, LeftIs
  <2> QED
    BY <1>2, <1>5, <2>2, Sizes
<1>8. U - Q <= Reach + Ahead
  BY <1>2, <1>4, <1>7, Sizes
<1>9. Placement(Q, U)'
  BY <1>4, <1>5, <1>6, <1>7, <1>8 DEF Placement
<1>10. Contents(Q, U)'
  BY <1>5 DEF Contents
<1> QED
  BY <1>4, <1>5, <1>9, <1>10

LEMMA FirstStep ==
  ASSUME Room, RInv, TypeOK', NEW n \in Arrivals, NEW quiet \in BOOLEAN,
         PutFirst(n, quiet)
  PROVE  InPlace'
<1> USE DEF RInv, IInv
<1> DEFINE c == Opened(Seq(n))
<1>1. /\ n \in First..Last /\ n \in Int /\ n >= newest - Late /\ n <= newest + Jump
      /\ Seq(n) \in SeqNos /\ state = "WAIT" /\ ~Ignored(Seq(n))
      /\ Receive(n) /\ Store(c, n, quiet)
  BY SeqType, Sizes DEF Arrivals, PutFirst
<1>2. c \in Context /\ c.read = Seq(n) /\ c.ready = ready /\ c.state # "WAIT"
      /\ c.state = (IF first # None THEN "PLAY" ELSE "STREAM")
  BY <1>1, OpenedType DEF Opened
<1>3. c.write = Seq(n - 1)
  <2>1. Seq(n) - 1 = Seq(n) + (-1) /\ n - 1 = n + (-1)
    BY <1>1, SeqInt
  <2>2. Seq(Seq(n) + (-1)) = Seq(n + (-1))
    BY <1>1, SeqPlus
  <2> QED
    BY <2>1, <2>2 DEF Opened
<1>4. Frames(c.ready, frame, n, n - 1)
  BY <1>1, <1>2 DEF Begun, Frames
<1>5. newest' = Larger(n, newest) /\ newest \in Int
  BY <1>1, Ints DEF Receive, Larger
<1>6. PICK Q, U \in Int : Placement(Q, U)' /\ Contents(Q, U)' /\ n <= Q
  <2>1. /\ n <= (n - 1) + 1 /\ n - 1 <= newest' + Ahead /\ newest' - n <= Reach
        /\ n <= n + Ahead + Late + 1 /\ n - n <= Reach + Jump /\ (n - 1) - n <= Ahead + Late
        /\ n - 1 \in Int
    BY <1>1, <1>5, Sizes DEF Larger
  <2> HIDE DEF c
  <2> QED
    BY <1>1, <1>2, <1>3, <1>4, <2>1, PutAt
<1>7. Heard(Q)'
  <2>1. state' = c.state /\ UNCHANGED <<gaps, taken, floor, flush>>
    BY <1>1, <1>2, StoreType DEF Receive
  <2>2. taken < floor
    BY <1>1 DEF Begun
  <2>3. CASE first # None
    <3>1. floor <= n
      BY <2>3, <1>1, NotBelow
    <3> QED
      BY <1>2, <1>6, <2>1, <2>2, <2>3, <3>1, Ints, <1>1 DEF Heard
  <2>4. CASE first = None
    BY <1>1, <1>2, <1>6, <2>1, <2>4, Ints DEF Heard
  <2> QED
    BY <2>3, <2>4
<1> QED
  BY <1>6, <1>7 DEF InPlace, Around

\* What the discarding of line 453 leaves: the first frame kept is the next to be read.
LEMMA DiscardedIs ==
  ASSUME TypeOK, Discardable # {}
  PROVE  \E k \in Slots : /\ Kept(k)
                          /\ Discarded = [Ring EXCEPT !.state = "PLAY", !.first = None,
                                            !.read = Seq(read + k),
                                            !.ready = Drop(ready, read, k)]
<1> DEFINE k == CHOOSE k \in Discardable : \A j \in Discardable : k <= j
<1>1. Discardable \subseteq Nat
  BY Widths DEF Discardable, Slots
<1>2. \E j \in Discardable : \A i \in Discardable : j <= i
  <2>1. PICK j \in Discardable : \A i \in Discardable : ~(i < j)
    BY <1>1, Least
  <2> QED
    BY <1>1, <2>1
<1>3. k \in Discardable
  BY <1>2
<1>4. Discarded = [Ring EXCEPT !.state = "PLAY", !.first = None, !.read = Seq(read + k),
                               !.ready = Drop(ready, read, k)]
  BY DEF Discarded
<1> HIDE DEF k
<1> QED
  BY <1>3, <1>4 DEF Discardable

LEMMA AfterFlushStep ==
  ASSUME Room, RInv, TypeOK', NEW n \in Arrivals, NEW quiet \in BOOLEAN,
         PutAfterFlush(n, quiet)
  PROVE  InPlace'
<1> USE DEF RInv, IInv
<1> SUFFICES ASSUME ~astray' PROVE InPlace'
  BY DEF InPlace
<1> DEFINE c == Discarded
<1>1. /\ n \in First..Last /\ n \in Int /\ n >= newest - Late /\ n <= newest + Jump
      /\ state = "STREAM" /\ first # None /\ Discardable # {} /\ ~stuck
      /\ Receive(n) /\ Store(c, n, quiet)
      /\ ~astray /\ ~(BufFill(c.read, write) < 0)
      /\ ~LeftBehind(state', read', write', newest')
  <2>1. n \in First..Last /\ n \in Int /\ n >= newest - Late /\ n <= newest + Jump
    BY Sizes DEF Arrivals
  <2>2. Receive(n) /\ Store(c, n, quiet) /\ Flushed(Seq(n)) /\ Discardable # {}
    BY DEF PutAfterFlush
  <2>3. /\ ~astray /\ ~(BufFill(c.read, write) < 0)
        /\ ~LeftBehind(state', read', write', newest')
    BY DEF PutAfterFlush
  <2>4. state = "STREAM" /\ first # None /\ ~stuck
    BY <2>2 DEF Flushed, Receive
  <2> QED
    BY <2>1, <2>2, <2>3, <2>4
<1>2. PICK R, T \in Int : Around(R, T)
  BY <1>1 DEF InPlace
<1>3. /\ read = Seq(R) /\ write = Seq(T) /\ R <= T + 1 /\ T <= newest + Ahead
      /\ newest - R <= Reach /\ Frames(ready, frame, R, T)
  BY <1>1, <1>2 DEF Around, Placement, Contents
<1>4. PICK k \in Slots : Kept(k) /\ c = [Ring EXCEPT !.state = "PLAY", !.first = None,
                                           !.read = Seq(read + k),
                                           !.ready = Drop(ready, read, k)]
  BY <1>1, DiscardedIs
<1> HIDE DEF c
<1>5. k \in Nat /\ k < B
  BY <1>4, Sizes DEF Slots
<1>6. Seq(read + k) = Seq(R + k) /\ R + k \in Int
  BY <1>3, <1>5, SeqPlus
<1>7. /\ c \in Context /\ c.read = Seq(R + k) /\ c.write = Seq(T) /\ c.state = "PLAY"
      /\ c.ready = Drop(ready, Seq(R), k)
  BY <1>1, <1>3, <1>4, <1>6, DiscardedType DEF Ring, c
<1>8. Frames(c.ready, frame, R + k, T)
  <2>1. Frames(Drop(ready, Seq(R), k), frame, R + k, T)
    BY <1>3, <1>5, Ints, FramesDrop
  <2> QED
    BY <1>7, <2>1
<1>9. newest' = Larger(n, newest) /\ newest \in Int
  BY <1>1, Ints DEF Receive, Larger
<1>10. R + k <= T + 1
  <2>1. T - (R + k) + 1 < Half /\ T - (R + k) + 1 > -Half
    BY <1>3, <1>5, <1>9, Sizes
  <2>2. BufFill(Seq(R + k), Seq(T)) = T - (R + k) + 1
    BY <1>6, <2>1, Fill
  <2> QED
    BY <1>1, <1>3, <1>6, <1>7, <2>2
<1>11. floor <= R + k
  <2> SUFFICES ASSUME R + k < floor PROVE FALSE
    BY <1>6, Ints
  <2>1. floor - (R + k) < Half /\ (R + k) - floor < Half
    BY <1>3, <1>5, <1>9, Ints, Sizes DEF Begun
  <2>2. SeqOrder(Seq(R + k), Seq(floor))
    BY <1>6, <2>1, Ints, Before
  <2> QED
    BY <1>1, <1>4, <1>6, <2>2 DEF Kept, Told
<1>12. PICK Q, U \in Int : Placement(Q, U)' /\ Contents(Q, U)' /\ R + k <= Q
  <2>1. /\ T <= newest' + Ahead /\ newest' - (R + k) <= Reach + Jump
        /\ R + k <= n + Ahead + Late + 1 /\ n - (R + k) <= Reach + Jump
        /\ T - n <= Ahead + Late
    BY <1>1, <1>3, <1>5, <1>9, <1>10, Sizes DEF Larger
  <2> QED
    BY <1>1, <1>6, <1>7, <1>8, <1>10, <2>1, PutAt
<1>13. Heard(Q)'
  <2>1. state' = "PLAY" /\ UNCHANGED <<gaps, taken, floor, flush>>
    BY <1>1, <1>7, StoreType DEF Receive
  <2>2. taken = First - 1
    BY <1>1 DEF Begun
  <2> QED
    BY <1>6, <1>11, <1>12, <2>1, <2>2, Ints DEF Heard
<1> QED
  BY <1>12, <1>13 DEF InPlace, Around

LEMMA PutStep ==
  ASSUME Room, RInv, TypeOK', NEW n \in Arrivals, NEW quiet \in BOOLEAN, Put(n, quiet)
  PROVE  InPlace'
<1> USE DEF RInv, IInv
<1> SUFFICES ASSUME ~astray' PROVE InPlace'
  BY DEF InPlace
<1>1. /\ n \in First..Last /\ n \in Int /\ n >= newest - Late /\ n <= newest + Jump
      /\ state # "WAIT" /\ ~stuck /\ Receive(n) /\ Store(Ring, n, quiet)
      /\ ~astray /\ ~LeftBehind(state', read', write', newest')
  <2>1. n \in First..Last /\ n \in Int /\ n >= newest - Late /\ n <= newest + Jump
    BY Sizes DEF Arrivals
  <2>2. Receive(n) /\ Store(Ring, n, quiet) /\ state # "WAIT"
    BY DEF Put
  <2>3. ~astray /\ ~LeftBehind(state', read', write', newest')
    BY DEF Put
  <2> QED
    BY <2>1, <2>2, <2>3 DEF Receive
<1>2. PICK R, T \in Int : Around(R, T)
  BY <1>1 DEF InPlace
<1>3. /\ read = Seq(R) /\ write = Seq(T) /\ R <= T + 1 /\ T <= newest + Ahead
      /\ newest - R <= Reach /\ Frames(ready, frame, R, T)
  BY <1>1, <1>2 DEF Around, Placement, Contents
<1>4. /\ Ring \in Context /\ Ring.read = Seq(R) /\ Ring.write = Seq(T)
      /\ Ring.state = state /\ Ring.ready = ready
  BY <1>3, RingType DEF Ring
<1>5. newest' = Larger(n, newest) /\ newest \in Int
  BY <1>1, Ints DEF Receive, Larger
<1>6. PICK Q, U \in Int : Placement(Q, U)' /\ Contents(Q, U)' /\ R <= Q
  <2>1. /\ T <= newest' + Ahead /\ newest' - R <= Reach + Jump
        /\ R <= n + Ahead + Late + 1 /\ n - R <= Reach + Jump /\ T - n <= Ahead + Late
    BY <1>1, <1>3, <1>5, Sizes DEF Larger
  <2> QED
    BY <1>1, <1>3, <1>4, <2>1, PutAt
<1>7. Heard(Q)'
  <2>1. state' = state /\ UNCHANGED <<gaps, taken, floor, flush>>
    BY <1>1, <1>4, StoreType DEF Receive
  <2> QED
    BY <1>2, <1>6, <2>1, Ints DEF Heard, Around
<1> QED
  BY <1>6, <1>7 DEF InPlace, Around

LEMMA IgnoredStep ==
  ASSUME Room, RInv, TypeOK', NEW n \in Arrivals, PutIgnored(n)
  PROVE  InPlace'
<1> USE DEF RInv, IInv
<1> SUFFICES ASSUME ~astray' PROVE InPlace'
  BY DEF InPlace
<1>1. /\ ~astray /\ ~LeftBehind(state, read, write, newest') /\ ~stuck
      /\ newest' = Larger(n, newest)
      /\ UNCHANGED <<ring, pause, stuck, flush, record, floor, taken, gaps>>
  BY DEF PutIgnored, Receive, Larger
<1>2. PICK R, T \in Int : Around(R, T)
  BY <1>1 DEF InPlace
<1>3. /\ newest' \in Int /\ newest' >= newest /\ newest' <= newest + Jump /\ newest \in Int
  BY <1>1, Ints, Sizes DEF Larger, Arrivals
<1>4. state # "WAIT" => newest' - R <= Reach
  <2> SUFFICES ASSUME state # "WAIT" PROVE newest' - R <= Reach
    OBVIOUS
  <2>1. read = Seq(R) /\ R <= T + 1 /\ T <= newest + Ahead /\ newest - R <= Reach
    BY <1>1, <1>2 DEF Around, Placement
  <2>2. newest' - R < Half /\ R - newest' < Half
    BY <1>3, <2>1, Sizes
  <2>3. LeftBehind(state, read, write, newest') <=> newest' - R > Reach
    BY <1>3, <2>1, <2>2, LeftIs
  <2> QED
    BY <1>1, <1>3, <2>3, Sizes
<1>5. Placement(R, T)'
  BY <1>1, <1>2, <1>3, <1>4, Sizes DEF Around, Placement, ring
<1>6. Contents(R, T)' /\ Heard(R)'
  BY <1>1, <1>2 DEF Around, Contents, Heard, ring
<1> QED
  BY <1>5, <1>6 DEF InPlace, Around

LEMMA NeverEndsStep ==
  ASSUME Room, RInv, NEW n \in Arrivals, PutNeverEnds(n)
  PROVE  InPlace'
<1> USE DEF RInv, IInv
<1> SUFFICES ASSUME ~astray' PROVE InPlace'
  BY DEF InPlace
<1>1. /\ ~astray /\ state = "STREAM" /\ stuck' /\ newest' = Larger(n, newest)
      /\ ready' = [i \in Slots |-> FALSE]
      /\ UNCHANGED <<state, read, write, frame, taken, gaps, floor, flush>>
  BY DEF PutNeverEnds, Flushed, Receive, Larger
<1>2. PICK R, T \in Int : Around(R, T)
  BY <1>1 DEF InPlace
<1>3. newest' >= newest /\ newest' \in Int /\ newest \in Int
  BY <1>1, Ints, Sizes DEF Larger, Arrivals
<1>4. Placement(R, T)'
  BY <1>1, <1>2, <1>3, Sizes DEF Around, Placement
<1>5. Contents(R, T)' /\ Heard(R)'
  BY <1>1, <1>2 DEF Around, Contents, Heard, Frames
<1> QED
  BY <1>4, <1>5 DEF InPlace, Around

LEMMA FlushStep ==
  ASSUME Room, RInv, NEW n \in Wanted, Flush(n)
  PROVE  InPlace'
<1> USE DEF RInv, IInv
<1> SUFFICES ASSUME ~astray' PROVE InPlace'
  BY DEF InPlace
<1>1. CASE FlushPlaying(n)
  <2>1. /\ ready' = [i \in Slots |-> FALSE] /\ state' = "WAIT"
        /\ read' = Seq(write + 1) /\ write' = write
    BY <1>1 DEF FlushPlaying
  <2>2. PICK T \in Int : T = write /\ Seq(T) = T
    BY Ints, SeqTwice DEF TypeOK
  <2>3. T + 1 \in Int
    OBVIOUS
  <2>4. Around(T + 1, T)'
    BY <2>1, <2>2, <2>3, Sizes DEF Around, Placement, Contents, Heard
  <2> QED
    BY <2>3, <2>4 DEF InPlace
<1>2. CASE ~(flush /\ state = "PLAY")
  <2>1. /\ UNCHANGED <<state, read, write, ready, frame, astray, taken>>
        /\ UNCHANGED <<flush, stuck, newest, gaps>>
    BY <1>2 DEF Flush
  <2>2. PICK R, T \in Int : Around(R, T)
    BY <2>1 DEF InPlace
  <2>3. Around(R, T)'
    BY <1>2, <2>1, <2>2 DEF Around, Placement, Contents, Heard
  <2> QED
    BY <2>3 DEF InPlace
<1> QED
  BY <1>1, <1>2 DEF Flush

\* Where the next frame is looked for: it is R or later, the ring holds those from it on,
\* and after it fewer than a turn of the ring unless this is an overrun.
LEMMA HeadAt ==
  ASSUME Room, RInv, state = "PLAY", ~stuck, ~astray
  PROVE  \E R, T, h \in Int :
           /\ Around(R, T) /\ R <= h /\ h <= T + 1
           /\ Skipped \in Nat /\ h = R + Skipped
           /\ Frames(AfterSkip, frame, h, T)
           /\ ~Overran(Seq(read + Skipped))
                => /\ Head = Seq(h) /\ T - h + 1 < B
                   /\ BufFill(Head, write) = T - h + 1
<1> USE DEF RInv, IInv
<1>1. PICK R, T \in Int : Around(R, T)
  BY DEF InPlace
<1>2. /\ read = Seq(R) /\ write = Seq(T) /\ R <= T + 1 /\ T <= newest + Ahead
      /\ newest - R <= Reach /\ Frames(ready, frame, R, T)
  BY <1>1 DEF Around, Placement, Contents
<1>3. T - R + 1 < Half /\ T - R < W
  BY <1>2, Ints, Sizes
<1>4. SeqOrder(read, write) <=> R < T
  <2>1. T - R < Half /\ R - T < Half
    BY <1>2, <1>3, Sizes
  <2> QED
    BY <1>2, <2>1, Before
<1>5. Skipped \in Nat /\ R + Skipped <= T + 1
  <2>1. CASE R < T
    <3>1. Dist(read, write) = T - R
      <4>1. T - R \in 0..(W - 1)
        BY <1>3, <2>1, Sizes
      <4>2. ((T % W) - (R % W)) % W = T - R
        BY <4>1, Widths, DistUp
      <4> QED
        BY <1>2, <4>2 DEF Dist, Seq
    <3>2. Skipped = IF skip < T - R THEN skip ELSE T - R
      BY <1>4, <2>1, <3>1 DEF Skipped
    <3> QED
      BY <2>1, <3>2, Ints
  <2>2. CASE ~(R < T)
    <3>1. Skipped = 0
      BY <1>4, <2>2 DEF Skipped
    <3> QED
      BY <1>2, <3>1
  <2> QED
    BY <2>1, <2>2
<1> DEFINE h == R + Skipped
<1>6. h \in Int /\ R <= h /\ h <= T + 1 /\ h = R + Skipped
  BY <1>5
<1>7. Seq(read + Skipped) = Seq(h)
  BY <1>2, <1>5, SeqPlus
<1>8. Frames(AfterSkip, frame, h, T)
  BY <1>2, <1>5, Ints, FramesDrop DEF AfterSkip
<1> HIDE DEF h
<1>9. BufFill(Seq(h), write) = T - h + 1
  <2>1. T - h + 1 < Half /\ T - h + 1 > -Half
    BY <1>3, <1>6, Sizes
  <2> QED
    BY <1>2, <1>6, <2>1, Fill
<1>10. ASSUME ~Overran(Seq(read + Skipped))
       PROVE  Head = Seq(h) /\ T - h + 1 < B /\ BufFill(Head, write) = T - h + 1
  <2>1. Head = Seq(h)
    BY <1>7, <1>10 DEF Head
  <2>2. ~(T - h + 1 >= B)
    BY <1>7, <1>9, <1>10 DEF Overran
  <2> QED
    BY <1>6, <1>9, <2>1, <2>2, Sizes
<1> QED
  BY <1>1, <1>5, <1>6, <1>8, <1>10

\* What is in the slot of the next frame is that frame, if it is ready and not repeated.
LEMMA DueIs ==
  ASSUME Room, TypeOK, NEW h \in Int, NEW T \in Int, Frames(AfterSkip, frame, h, T),
         Head = Seq(h), T - h + 1 < B, AfterSkip[Idx(Head)], Due # Filler
  PROVE  Due = h
<1>1. Idx(Head) = Idx(h) /\ Idx(Head) \in Slots
  <2>1. Head \in Int
    BY SeqInt
  <2> QED
    BY <2>1, IdxSeq, SeqType
<1>2. Due \in h..T /\ Idx(Due) = Idx(h)
  BY <1>1 DEF Frames, Due
<1>3. Due \in Int /\ Due - h < B /\ h - Due < B
  BY <1>2, Sizes
<1> QED
  BY <1>2, <1>3, SameSlot

\* Silence is put in only while there is room ahead of the newest frame.
LEMMA FillRoom ==
  ASSUME Room, TypeOK, NEW R \in Int, NEW T \in Int, write = Seq(T), R <= T + 1,
         T <= newest + Ahead, newest - R <= Reach, Signed(write - newest) < Ahead
  PROVE  T + 1 <= newest + Ahead
<1>1. T - newest < Half /\ T - newest > -Half
  BY Ints, Sizes
<1>2. Signed(Seq(T) - newest) = T - newest
  BY <1>1, Ints, Behind
<1> QED
  BY <1>2, Ints, Sizes

LEMMA GetStep ==
  ASSUME Room, RInv, GetNothing \/ GetFill \/ GetMissing \/ GetReady
  PROVE  InPlace'
<1> USE DEF RInv, IInv
<1> SUFFICES ASSUME ~astray' PROVE InPlace'
  BY DEF InPlace
<1>1. GetFrame
  BY DEF GetNothing, GetFill, GetMissing, GetReady
<1>2. /\ state = "PLAY" /\ ~stuck /\ ~astray /\ ~Overran(Seq(read + Skipped))
      /\ UNCHANGED <<state, stuck, newest, gaps, flush, floor, frame>>
  BY <1>1 DEF GetFrame
<1>3. PICK R, T, h \in Int :
        /\ Around(R, T) /\ R <= h /\ h <= T + 1 /\ Frames(AfterSkip, frame, h, T)
        /\ Head = Seq(h) /\ T - h + 1 < B /\ BufFill(Head, write) = T - h + 1
  BY <1>2, HeadAt
<1>4. /\ write = Seq(T) /\ R <= T + 1 /\ T <= newest + Ahead /\ newest - R <= Reach
      /\ taken < R + gaps /\ (flush => floor <= R + gaps)
  BY <1>2, <1>3 DEF Around, Placement, Heard
<1>5. AfterSkip \in [Slots -> BOOLEAN] /\ Seq(Head + 1) = Seq(h + 1)
  BY <1>3, HeadType, SeqNext
<1>6. CASE GetNothing
  <2>1. read' = Seq(h) /\ ready' = AfterSkip /\ UNCHANGED <<write, taken>>
    BY <1>3, <1>6 DEF GetNothing
  <2>2. Around(h, T)'
    BY <1>2, <1>3, <1>4, <2>1, Ints, Sizes DEF Around, Placement, Contents, Heard
  <2> QED
    BY <2>2 DEF InPlace
<1>7. CASE GetFill
  <2>1. /\ BufFill(Head, write) = 0 /\ Signed(write - newest) < Ahead
        /\ read' = Seq(Head + 1) /\ write' = Seq(write + 1)
        /\ ready' = [AfterSkip EXCEPT ![Idx(Head)] = FALSE]
        /\ taken' = taken
    BY <1>7 DEF GetFill
  <2>2. h = T + 1
    BY <1>3, <2>1
  <2>3. T + 1 <= newest + Ahead
    BY <1>4, <2>1, FillRoom
  <2>4. read' = Seq(h + 1) /\ write' = Seq(T + 1) /\ h + 1 \in Int /\ T + 1 \in Int
    BY <1>4, <1>5, <2>1, SeqNext
  <2>5. Frames(ready', frame', h + 1, T + 1)
    <3>1. Frames([AfterSkip EXCEPT ![Idx(Seq(h))] = FALSE], frame, h + 1, T)
      BY <1>3, <1>5, FramesTake
    <3> QED
      BY <1>2, <1>3, <2>1, <2>4, <3>1, FramesMore
  <2>6. Around(h + 1, T + 1)'
    BY <1>2, <1>3, <1>4, <2>1, <2>2, <2>3, <2>4, <2>5, Ints, Sizes
       DEF Around, Placement, Contents, Heard
  <2> QED
    BY <2>4, <2>6 DEF InPlace
<1>8. CASE GetMissing \/ GetReady
  <2>1. BufFill(Head, write) # 0 /\ read' = Seq(h + 1) /\ write' = write
    BY <1>5, <1>8 DEF GetMissing, GetReady
  <2>2. h <= T /\ h + 1 \in Int
    BY <1>3, <2>1
  <2>3. Frames(ready', frame', h + 1, T)
    <3>1. CASE GetMissing
      <4>1. ready' = AfterSkip /\ ~AfterSkip[Idx(Seq(h))]
        BY <1>3, <3>1 DEF GetMissing
      <4> QED
        BY <1>2, <1>3, <1>5, <4>1, FramesPass
    <3>2. CASE GetReady
      <4>1. ready' = [AfterSkip EXCEPT ![Idx(Seq(h))] = FALSE]
        BY <1>3, <3>2 DEF GetReady
      <4>2. Frames([AfterSkip EXCEPT ![Idx(Seq(h))] = FALSE], frame, h + 1, T)
        BY <1>3, <1>5, FramesTake
      <4> QED
        BY <1>2, <4>1, <4>2
    <3> QED
      BY <1>8, <3>1, <3>2
  <2>4. taken' = taken \/ taken' = h
    <3>1. CASE GetMissing
      BY <3>1 DEF GetMissing
    <3>2. CASE GetReady
      BY <1>3, <3>2, DueIs DEF GetReady, Due
    <3> QED
      BY <1>8, <3>1, <3>2
  <2>5. Around(h + 1, T)'
    BY <1>2, <1>3, <1>4, <2>1, <2>2, <2>3, <2>4, Ints, Sizes
       DEF Around, Placement, Contents, Heard
  <2> QED
    BY <2>2, <2>5 DEF InPlace
<1> QED
  BY <1>6, <1>7, <1>8

\* A clock correction repeats a slot: whatever it holds is no frame of the stream.
LEMMA FramesRepeat ==
  ASSUME NEW rdy \in [Slots -> BOOLEAN], NEW frm \in [Slots -> Int],
         NEW R \in Int, NEW T \in Int, NEW s \in Slots, Frames(rdy, frm, R, T)
  PROVE  Frames([rdy EXCEPT ![s] = TRUE], [frm EXCEPT ![s] = Filler], R - 1, T)
<1> SUFFICES ASSUME NEW i \in Slots, [rdy EXCEPT ![s] = TRUE][i],
                    [frm EXCEPT ![s] = Filler][i] # Filler
             PROVE  /\ [frm EXCEPT ![s] = Filler][i] \in (R - 1)..T
                    /\ Idx([frm EXCEPT ![s] = Filler][i]) = i
  BY DEF Frames
<1>1. i # s
  OBVIOUS
<1>2. frm[i] \in R..T /\ Idx(frm[i]) = i
  BY <1>1 DEF Frames
<1> QED
  BY <1>1, <1>2

LEMMA RepeatStep ==
  ASSUME Room, RInv, RepeatFrame
  PROVE  InPlace'
<1> USE DEF RInv, IInv
<1> SUFFICES ASSUME ~astray' PROVE InPlace'
  BY DEF InPlace
<1> DEFINE r == Seq(read - 1)
<1>1. /\ ~astray /\ ~LeftBehind(state, r, write, newest) /\ ~stuck
      /\ read' = r /\ ready' = [ready EXCEPT ![Idx(r)] = TRUE]
      /\ frame' = [frame EXCEPT ![Idx(r)] = Filler] /\ gaps' = gaps + 1
      /\ UNCHANGED <<flush, state, write, stuck, newest, floor, taken>>
  BY DEF RepeatFrame, Correct
<1>2. PICK R, T \in Int : Around(R, T)
  BY <1>1 DEF InPlace
<1>3. read = Seq(R) /\ write = Seq(T) /\ R <= T + 1
  BY <1>2 DEF Around, Placement
<1>4. r = Seq(R - 1) /\ R - 1 \in Int
  <2>1. Seq(R) - 1 = Seq(R) + (-1) /\ R - 1 = R + (-1)
    BY SeqInt
  <2>2. Seq(Seq(R) + (-1)) = Seq(R + (-1))
    BY SeqPlus
  <2> QED
    BY <1>3, <2>1, <2>2
<1> HIDE DEF r
<1>5. CASE state = "WAIT"
  <2>1. T - R <= Reach
    BY <1>2, <1>5 DEF Around, Placement
  <2>2. T - (R - 1) < Half /\ T - (R - 1) > -Half
    BY <1>3, <2>1, Sizes
  <2>3. Signed(Seq(T) - Seq(R - 1)) = T - (R - 1)
    BY <1>4, <2>2, Behind
  <2>4. ~(T - (R - 1) > Reach)
    BY <1>1, <1>3, <1>4, <1>5, <2>3 DEF LeftBehind
  <2>5. Around(R - 1, T)'
    BY <1>1, <1>3, <1>4, <1>5, <2>4, Sizes DEF Around, Placement, Contents, Heard
  <2> QED
    BY <1>4, <2>5 DEF InPlace
<1>6. CASE state # "WAIT"
  <2>1. T <= newest + Ahead /\ newest - R <= Reach /\ Frames(ready, frame, R, T)
    BY <1>1, <1>2, <1>6 DEF Around, Placement, Contents
  <2>2. newest - (R - 1) < Half /\ (R - 1) - newest < Half
    BY <1>3, <2>1, Ints, Sizes
  <2>3. LeftBehind(state, Seq(R - 1), write, newest) <=> newest - (R - 1) > Reach
    BY <1>4, <1>6, <2>2, Ints, LeftIs
  <2>4. newest - (R - 1) <= Reach /\ T - (R - 1) <= Reach + Ahead
    BY <1>1, <1>4, <2>1, <2>3, Ints, Sizes
  <2>5. Frames(ready', frame', R - 1, T)
    <3>1. Idx(r) \in Slots /\ frame \in [Slots -> Int]
      BY <1>4, SeqInt, SeqType, Sizes DEF TypeOK, Filler
    <3> QED
      BY <1>1, <2>1, <3>1, Ints, FramesRepeat
  <2>6. Placement(R - 1, T)'
    BY <1>1, <1>3, <1>4, <1>6, <2>1, <2>4, Sizes DEF Placement
  <2>7. Heard(R - 1)'
    BY <1>1, <1>2, Ints DEF Around, Heard
  <2> QED
    BY <1>4, <2>5, <2>6, <2>7 DEF InPlace, Around, Contents
<1> QED
  BY <1>5, <1>6

LEMMA DropStep ==
  ASSUME Room, RInv, DropFrame
  PROVE  InPlace'
<1> USE DEF RInv, IInv
<1> SUFFICES ASSUME ~astray' PROVE InPlace'
  BY DEF InPlace
<1>1. /\ ~astray /\ ~stuck /\ gaps' = gaps + 1
      /\ UNCHANGED <<flush, state, write, stuck, newest, floor, taken, frame>>
  BY DEF DropFrame, Correct
<1>2. PICK R, T \in Int : Around(R, T)
  BY <1>1 DEF InPlace
<1>3. read = Seq(R) /\ write = Seq(T) /\ R <= T + 1 /\ T - R < Half
  BY <1>2, Ints, Sizes DEF Around, Placement
<1>4. SeqOrder(read, write) <=> R < T
  <2>1. R - T < Half
    BY <1>3, Sizes
  <2> QED
    BY <1>3, <2>1, Before
<1>5. CASE SeqOrder(read, write)
  <2>1. read' = Seq(R + 1) /\ ready' = [ready EXCEPT ![Idx(Seq(R))] = FALSE] /\ R + 1 \in Int
    BY <1>3, <1>5, SeqNext DEF DropFrame
  <2>2. Contents(R + 1, T)'
    BY <1>1, <1>2, <2>1, Ints, FramesTake DEF Around, Contents
  <2>3. Placement(R + 1, T)'
    BY <1>1, <1>2, <1>3, <1>4, <1>5, <2>1, Ints, Sizes DEF Around, Placement
  <2>4. Heard(R + 1)'
    BY <1>1, <1>2, Ints DEF Around, Heard
  <2> QED
    BY <2>1, <2>2, <2>3, <2>4 DEF InPlace, Around
<1>6. CASE ~SeqOrder(read, write)
  <2>1. read' = read /\ ready' = ready
    BY <1>6 DEF DropFrame
  <2>2. Around(R, T)'
    BY <1>1, <1>2, <2>1, Ints DEF Around, Placement, Contents, Heard
  <2> QED
    BY <2>2 DEF InPlace
<1> QED
  BY <1>5, <1>6

LEMMA RecordStep ==
  ASSUME Room, RInv, Record
  PROVE  InPlace'
<1> USE DEF RInv
<1>1. /\ state = "WAIT" /\ state' = "WAIT"
      /\ UNCHANGED <<flush, read, write, ready, frame, stuck, ghost, gaps>>
  BY DEF Record, Begun
<1> SUFFICES ASSUME ~astray' PROVE InPlace'
  BY DEF InPlace
<1>2. PICK R, T \in Int : Around(R, T)
  BY <1>1 DEF InPlace, ghost
<1>3. Around(R, T)'
  BY <1>1, <1>2 DEF Around, Placement, Contents, Heard, ghost
<1> QED
  BY <1>3 DEF InPlace

LEMMA InPlaceStep ==
  ASSUME Room, RInv, TypeOK', [Next]_vars
  PROVE  InPlace'
<1>1. CASE UNCHANGED vars
  BY <1>1 DEF RInv, InPlace, Around, Placement, Contents, Heard, vars, ring, ghost
<1> QED
  BY <1>1, RecordStep, FlushStep, IgnoredStep, NeverEndsStep, FirstStep, AfterFlushStep,
     PutStep, GetStep, RepeatStep, DropStep DEF Next

LEMMA BegunStep ==
  ASSUME Room, RInv, TypeOK', [Next]_vars
  PROVE  Begun'
<1> USE DEF RInv, IInv
<1>1. CASE Record
  BY <1>1 DEF Record, Recorded, Begun, ghost
<1>2. ASSUME NEW n \in Wanted, Flush(n)
      PROVE  Begun'
  <2>1. /\ n \in Int /\ n <= newest + Jump /\ first' # None /\ floor' = n /\ floor <= n
        /\ record # "none" /\ ~stuck /\ UNCHANGED <<record, stuck, newest>>
    <3>1. n \in Int /\ n <= newest + Jump
      BY Sizes DEF Wanted
    <3>2. Seq(n) # None
      BY <3>1, SeqType, Sizes DEF SeqNos, None
    <3> QED
      BY <1>2, <3>1, <3>2 DEF Flush
  <2>2. CASE FlushPlaying(n)
    <3>1. taken' < n
      BY <2>1, <2>2, Ints DEF FlushPlaying, Rewound
    <3> QED
      BY <2>1, <2>2, <3>1 DEF FlushPlaying, Begun
  <2>3. CASE UNCHANGED <<state, read, write, ready, frame, silence, skip, astray, taken>>
    BY <2>1, <2>3, Ints DEF Begun
  <2> QED
    BY <1>2, <2>2, <2>3 DEF Flush
<1>3. ASSUME NEW n \in Arrivals, Receive(n)
      PROVE  /\ record' # "none" /\ floor' = floor /\ taken' = taken /\ ~stuck
             /\ floor' <= newest' + Jump
  BY <1>3, Ints, Sizes DEF Receive, Begun, Arrivals
<1>4. ASSUME NEW n \in Arrivals, PutIgnored(n)
      PROVE  Begun'
  BY <1>3, <1>4 DEF PutIgnored, Ignored, Begun, ring, Receive
<1>5. ASSUME NEW n \in Arrivals, PutNeverEnds(n)
      PROVE  Begun'
  BY <1>3, <1>5 DEF PutNeverEnds, Flushed, Begun, Receive
<1>6. ASSUME NEW n \in Arrivals, NEW quiet \in BOOLEAN, PutFirst(n, quiet)
      PROVE  Begun'
  <2>1. n \in First..Last /\ Seq(n) \in SeqNos
    BY SeqType, Sizes DEF Arrivals
  <2>2. state' = (IF first # None THEN "PLAY" ELSE "STREAM")
    <3>1. Opened(Seq(n)) \in Context
      BY <2>1, OpenedType
    <3>2. state' = Opened(Seq(n)).state
      BY <1>6, <2>1, <3>1, StoreType DEF PutFirst
    <3> QED
      BY <3>2 DEF Opened
  <2>3. first = None => taken = First - 1
    BY <1>6, Ints, Sizes DEF PutFirst, Begun
  <2>4. Receive(n) /\ stuck' = stuck
    BY <1>6 DEF PutFirst
  <2> QED
    BY <1>3, <2>2, <2>3, <2>4 DEF Begun
<1>7. ASSUME NEW n \in Arrivals, NEW quiet \in BOOLEAN, PutAfterFlush(n, quiet)
      PROVE  Begun'
  <2>1. n \in First..Last
    BY DEF Arrivals
  <2>2. state' = "PLAY"
    <3>1. Discarded \in Context /\ Discarded.state = "PLAY"
      BY <1>7, DiscardedType DEF PutAfterFlush, Discarded, Ring
    <3> QED
      BY <1>7, <2>1, <3>1, StoreType DEF PutAfterFlush
  <2>3. Receive(n) /\ stuck' = stuck
    BY <1>7 DEF PutAfterFlush
  <2> QED
    BY <1>3, <2>2, <2>3 DEF Begun
<1>8. ASSUME NEW n \in Arrivals, NEW quiet \in BOOLEAN, Put(n, quiet)
      PROVE  Begun'
  <2>1. state' = state /\ state # "WAIT"
    BY <1>8, PutKeeps DEF Put
  <2>2. Receive(n) /\ stuck' = stuck
    BY <1>8 DEF Put
  <2> QED
    BY <1>3, <2>1, <2>2 DEF Begun
<1>9. CASE GetNothing \/ GetFill \/ GetMissing \/ GetReady
  BY <1>9 DEF GetNothing, GetFill, GetMissing, GetReady, GetFrame, Begun
<1>10. CASE RepeatFrame \/ DropFrame
  <2>1. UNCHANGED <<record, state, first, stuck, newest, floor, taken>> /\ ~stuck
    BY <1>10 DEF RepeatFrame, DropFrame, Correct
  <2>2. \A i \in Slots : ready'[i] => frame'[i] = Filler \/ (ready[i] /\ frame'[i] = frame[i])
    BY <1>10 DEF RepeatFrame, DropFrame, TypeOK
  <2> QED
    BY <2>1, <2>2 DEF Begun
<1>11. CASE UNCHANGED vars
  BY <1>11 DEF Begun, vars, ring, ghost
<1> QED
  BY <1>1, <1>2, <1>4, <1>5, <1>6, <1>7, <1>8, <1>9, <1>10, <1>11 DEF Next

-----------------------------------------------------------------------------
\* The ring holds frames of the stream between its pointers, each in its slot, until an
\* overrun or a reader left half of all numbers behind: the invariant of the theorems below.
THEOREM RingInvariant == Room => (Spec => []RInv)
<1> SUFFICES ASSUME Room PROVE Spec => []RInv
  OBVIOUS
<1>1. Init => RInv
  BY InitHolds, RingInit DEF RInv
<1>2. RInv /\ [Next]_vars => RInv'
  <2> SUFFICES ASSUME RInv, [Next]_vars PROVE RInv'
    OBVIOUS
  <2>1. IInv'
    BY TypeStep, ToldStep, ClearedStep, NearStep DEF IInv, RInv, Room
  <2>2. Begun' /\ InPlace'
    BY <2>1, BegunStep, InPlaceStep DEF IInv
  <2> QED
    BY <2>1, <2>2 DEF RInv
<1> QED
  BY <1>1, <1>2, PTL DEF Spec

\* A frame taken out is the one its sequence number stands for, never one that a turn of
\* the ring ago was left in the slot (the doubt of raop_streamer.c:882).
THEOREM TakesTheRightFrame == Room => (Spec => []RightFrame)
<1> SUFFICES ASSUME Room PROVE Spec => []RightFrame
  OBVIOUS
<1>1. ASSUME RInv, Held, Due # Filler
      PROVE  Due = Number(Head)
  <2>1. /\ state = "PLAY" /\ BufFill(Head, write) # 0 /\ AfterSkip[Idx(Head)]
        /\ ~astray /\ ~Overran(Seq(read + Skipped)) /\ ~stuck
    BY <1>1 DEF Held, RInv, Begun
  <2>2. PICK R, T, h \in Int :
          /\ Around(R, T) /\ R <= h /\ h <= T + 1 /\ Frames(AfterSkip, frame, h, T)
          /\ Head = Seq(h) /\ T - h + 1 < B /\ BufFill(Head, write) = T - h + 1
    BY <1>1, <2>1, HeadAt
  <2>3. Due = h
    BY <1>1, <2>1, <2>2, DueIs DEF RInv, IInv
  <2>4. newest \in Int /\ T <= newest + Ahead /\ newest - R <= Reach
    BY <1>1, <2>1, <2>2, Ints DEF Around, Placement, RInv, IInv
  <2>5. h - newest < Half /\ h - newest > -Half
    BY <2>2, <2>4, Sizes
  <2>6. Signed(Seq(h) - newest) = h - newest
    BY <2>4, <2>5, Behind
  <2> QED
    BY <2>2, <2>3, <2>4, <2>6 DEF Number
<1>2. RInv => RightFrame
  BY <1>1 DEF RightFrame
<1> QED
  BY <1>2, RingInvariant, PTL

\* What a FLUSH threw away is not heard afterwards, short of the frames that clock
\* corrections repeat (raopst_flush and the discards of buffer_put_packet).
THEOREM FlushedStaysSilent == Room => (Spec => []NothingBelowFlush)
<1> SUFFICES ASSUME Room PROVE Spec => []NothingBelowFlush
  OBVIOUS
<1>1. ASSUME RInv, Held, flush, Due # Filler
      PROVE  Due + gaps >= floor
  <2>1. /\ state = "PLAY" /\ AfterSkip[Idx(Head)]
        /\ ~astray /\ ~Overran(Seq(read + Skipped)) /\ ~stuck
    BY <1>1 DEF Held, RInv, Begun
  <2>2. PICK R, T, h \in Int :
          /\ Around(R, T) /\ R <= h /\ h <= T + 1 /\ Frames(AfterSkip, frame, h, T)
          /\ Head = Seq(h) /\ T - h + 1 < B
    BY <1>1, <2>1, HeadAt
  <2>3. Due = h
    BY <1>1, <2>1, <2>2, DueIs DEF RInv, IInv
  <2>4. floor <= R + gaps
    BY <1>1, <2>1, <2>2 DEF Around, Heard
  <2> QED
    BY <1>1, <2>2, <2>3, <2>4, Ints DEF RInv, IInv
<1>2. RInv => NothingBelowFlush
  BY <1>1 DEF NothingBelowFlush
<1> QED
  BY <1>2, RingInvariant, PTL

\* The reader is never ahead of the writer, so an empty ring never passes for a full one
\* (raop_streamer.c:843, 885).
THEOREM ReaderStaysBehind == Room => (Spec => []ReaderBehind)
<1> SUFFICES ASSUME Room PROVE Spec => []ReaderBehind
  OBVIOUS
<1>1. ASSUME RInv, ~astray
      PROVE  BufFill(read, write) >= 0
  <2>1. PICK R, T \in Int : Around(R, T)
    BY <1>1 DEF RInv, InPlace
  <2>2. read = Seq(R) /\ write = Seq(T) /\ R <= T + 1 /\ T - R <= Reach + Ahead
    BY <2>1, Sizes DEF Around, Placement
  <2>3. T - R + 1 < Half /\ T - R + 1 > -Half
    BY <2>2, Sizes
  <2> QED
    BY <2>2, <2>3, Fill
<1>2. RInv => ReaderBehind
  BY <1>1 DEF ReaderBehind
<1> QED
  BY <1>2, RingInvariant, PTL

\* The frames heard are in order and none is heard twice, short of those that clock
\* corrections repeat, whatever the network does to the packets.
InOrder ==
  [][taken' # taken /\ state' = "PLAY" /\ ~astray' => taken' + gaps > taken]_vars

THEOREM HeardInOrder == Room => (Spec => InOrder)
<1> SUFFICES ASSUME Room PROVE Spec => InOrder
  OBVIOUS
<1>1. ASSUME RInv, [Next]_vars, taken' # taken, state' = "PLAY", ~astray'
      PROVE  taken' + gaps > taken
  <2>1. GetReady
    <3>1. ASSUME NEW n \in Wanted, Flush(n)
          PROVE  FALSE
      BY <1>1, <3>1 DEF Flush, FlushPlaying
    <3> QED
      BY <1>1, <3>1 DEF Next, Record, ghost, PutIgnored, PutNeverEnds, PutFirst, PutAfterFlush,
                        Put, Receive, GetNothing, GetFill, GetMissing, RepeatFrame, DropFrame,
                        Correct, vars
  <2>2. /\ state = "PLAY" /\ ~stuck /\ ~astray /\ ~Overran(Seq(read + Skipped))
        /\ AfterSkip[Idx(Head)] /\ taken' = Due /\ Due # Filler
    <3>1. ~astray /\ ~Overran(Seq(read + Skipped)) /\ state = "PLAY" /\ ~stuck
      BY <1>1, <2>1 DEF GetReady, GetFrame
    <3> QED
      BY <1>1, <2>1, <3>1 DEF GetReady, Due
  <2>3. PICK R, T, h \in Int :
          /\ Around(R, T) /\ R <= h /\ h <= T + 1 /\ Frames(AfterSkip, frame, h, T)
          /\ Head = Seq(h) /\ T - h + 1 < B
    BY <1>1, <2>2, HeadAt
  <2>4. taken' = h
    BY <1>1, <2>2, <2>3, DueIs DEF RInv, IInv
  <2>5. taken < R + gaps
    BY <2>2, <2>3 DEF Around, Heard
  <2> QED
    BY <1>1, <2>3, <2>4, <2>5, Ints DEF RInv, IInv
<1>2. RInv /\ [Next]_vars => [taken' # taken /\ state' = "PLAY" /\ ~astray'
                                => taken' + gaps > taken]_vars
  BY <1>1
<1> QED
  BY <1>2, RingInvariant, PTL DEF Spec, InOrder
=============================================================================
