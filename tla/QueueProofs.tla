---------------------------- MODULE QueueProofs ----------------------------
(***************************************************************************)
(* RtpBuffer implements FrameQueue, for any sizes and streams of any       *)
(* length: slots, flags and pointers that wrap are as good as a queue of   *)
(* frames that do not, until the ring is overrun.                          *)
(***************************************************************************)
EXTENDS RingProofs

-----------------------------------------------------------------------------
(* The frames in the ring.                                                 *)

InRing(rdy, frm) == {frm[i] : i \in {i \in Slots : rdy[i]}} \ {Filler}

\* A frame is in the ring exactly if it is in its slot and the flag is set.
LEMMA InSlot ==
  ASSUME NEW rdy, NEW frm, NEW R \in Int, NEW T \in Int, Frames(rdy, frm, R, T), NEW m
  PROVE  m \in InRing(rdy, frm) <=> /\ m \in R..T /\ m # Filler
                                    /\ rdy[Idx(m)] /\ frm[Idx(m)] = m
<1>1. ASSUME m \in InRing(rdy, frm)
      PROVE  m \in R..T /\ m # Filler /\ rdy[Idx(m)] /\ frm[Idx(m)] = m
  <2>1. PICK i \in Slots : rdy[i] /\ frm[i] = m /\ m # Filler
    BY <1>1 DEF InRing
  <2>2. m \in R..T /\ Idx(m) = i
    BY <2>1 DEF Frames
  <2> QED
    BY <2>1, <2>2
<1>2. ASSUME m \in R..T, m # Filler, rdy[Idx(m)], frm[Idx(m)] = m
      PROVE  m \in InRing(rdy, frm)
  <2>1. m \in Int
    BY <1>2
  <2>2. Idx(m) \in Slots
    BY <2>1, SeqType
  <2> QED
    BY <1>2, <2>2 DEF InRing
<1> QED
  BY <1>1, <1>2

LEMMA RingFrom ==
  ASSUME NEW rdy, NEW frm, NEW R \in Int, NEW T \in Int, Frames(rdy, frm, R, T)
  PROVE  InRing(rdy, frm) = {m \in InRing(rdy, frm) : m >= R}
<1>1. ASSUME NEW m \in InRing(rdy, frm)
      PROVE  m >= R
  <2>1. m \in R..T
    BY InSlot
  <2> QED
    BY <2>1
<1> QED
  BY <1>1

\* Frames dropped at the reader's end: the others stay.
LEMMA RingDrop ==
  ASSUME NEW rdy \in [Slots -> BOOLEAN], NEW frm, NEW R \in Int, NEW T \in Int,
         NEW k \in Nat, Frames(rdy, frm, R, T), T - R < B
  PROVE  InRing(Drop(rdy, Seq(R), k), frm) = {m \in InRing(rdy, frm) : m >= R + k}
<1> DEFINE left == Drop(rdy, Seq(R), k)
<1>1. Frames(left, frm, R + k, T) /\ R + k \in Int
  BY FramesDrop
<1>2. ASSUME NEW m \in InRing(left, frm)
      PROVE  m \in InRing(rdy, frm) /\ m >= R + k
  <2>1. m \in (R + k)..T /\ m # Filler /\ left[Idx(m)] /\ frm[Idx(m)] = m
    BY <1>1, InSlot
  <2>2. m \in Int /\ Idx(m) \in Slots
    BY <2>1, SeqType
  <2>3. rdy[Idx(m)]
    BY <2>1, <2>2 DEF Drop
  <2>4. m \in R..T
    BY <2>1
  <2> QED
    BY <2>1, <2>3, <2>4, InSlot
<1>3. ASSUME NEW m \in InRing(rdy, frm), m >= R + k
      PROVE  m \in InRing(left, frm)
  <2>1. m \in R..T /\ m # Filler /\ rdy[Idx(m)] /\ frm[Idx(m)] = m
    BY InSlot
  <2>2. m \in Int /\ Idx(m) \in Slots /\ m \in (R + k)..T
    BY <1>3, <2>1, SeqType
  <2>3. ASSUME NEW j \in 0..(k - 1), Idx(Seq(Seq(R) + j)) = Idx(m)
        PROVE  FALSE
    <3>1. j \in Int /\ R + j \in Int /\ R + j < m /\ m - (R + j) < B /\ (R + j) - m < B
      BY <2>2, Widths
    <3>2. Idx(R + j) = Idx(m)
      BY <2>3, <3>1, SeqPlus, IdxSeq
    <3> QED
      BY <2>2, <3>1, <3>2, SameSlot
  <2>4. left[Idx(m)]
    BY <2>1, <2>2, <2>3 DEF Drop
  <2> QED
    BY <1>1, <2>1, <2>2, <2>4, InSlot
<1> QED
  BY <1>2, <1>3

\* The same of one frame taken out.
LEMMA RingTake ==
  ASSUME NEW rdy \in [Slots -> BOOLEAN], NEW frm, NEW R \in Int, NEW T \in Int,
         Frames(rdy, frm, R, T), T - R < B
  PROVE  InRing([rdy EXCEPT ![Idx(Seq(R))] = FALSE], frm)
           = {m \in InRing(rdy, frm) : m >= R + 1}
<1>1. Seq(Seq(R) + 0) = Seq(R)
  <2>1. Seq(Seq(R) + 0) = Seq(R + 0)
    BY SeqPlus
  <2> QED
    BY <2>1
<1>2. Drop(rdy, Seq(R), 1) = [rdy EXCEPT ![Idx(Seq(R))] = FALSE]
  <2>1. \A j : j \in 0..(1 - 1) <=> j = 0
    OBVIOUS
  <2>2. Drop(rdy, Seq(R), 1) = [i \in Slots |-> rdy[i] /\ Idx(Seq(R)) # i]
    BY <1>1, <2>1 DEF Drop
  <2> QED
    BY <2>2
<1>3. InRing(Drop(rdy, Seq(R), 1), frm) = {m \in InRing(rdy, frm) : m >= R + 1}
  BY RingDrop
<1> QED
  BY <1>2, <1>3

\* Without the first frame the queue is the same from the second on.
LEMMA RingPass ==
  ASSUME NEW rdy, NEW frm, NEW R \in Int, NEW T \in Int,
         Frames(rdy, frm, R, T), ~rdy[Idx(Seq(R))]
  PROVE  InRing(rdy, frm) = {m \in InRing(rdy, frm) : m >= R + 1}
<1> SUFFICES ASSUME NEW m \in InRing(rdy, frm) PROVE m >= R + 1
  OBVIOUS
<1>1. m \in R..T /\ rdy[Idx(m)]
  BY InSlot
<1>2. m # R
  BY <1>1, IdxSeq
<1> QED
  BY <1>1, <1>2

\* A frame put in is in the ring with those that were.
LEMMA RingPut ==
  ASSUME NEW rdy \in [Slots -> BOOLEAN], NEW frm \in [Slots -> Int],
         NEW R \in Int, NEW T \in Int, Frames(rdy, frm, R, T), T - R < B,
         NEW n \in Int, n \in R..T, n # Filler
  PROVE  \A m : m \in InRing([rdy EXCEPT ![Idx(Seq(n))] = TRUE], [frm EXCEPT ![Idx(Seq(n))] = n])
                 <=> m \in InRing(rdy, frm) \/ m = n
<1> DEFINE s == Idx(Seq(n))
           rdyN == [rdy EXCEPT ![s] = TRUE]
           frmN == [frm EXCEPT ![s] = n]
<1>1. s = Idx(n) /\ s \in Slots
  BY IdxSeq, SeqType
<1>2. Frames(rdyN, frmN, R, T)
  BY FramesPut
<1>3. /\ rdyN[s] /\ frmN[s] = n
      /\ \A i \in Slots : i # s => rdyN[i] = rdy[i] /\ frmN[i] = frm[i]
  BY <1>1
<1>4. ASSUME NEW m \in R..T, m # n
      PROVE  Idx(m) # s /\ Idx(m) \in Slots /\ m \in Int
  <2>1. m \in Int /\ m - n < B /\ n - m < B
    BY <1>1, Widths
  <2> QED
    BY <1>1, <1>4, <2>1, SameSlot, SeqType
<1> HIDE DEF rdyN, frmN, s
<1>5. ASSUME NEW m \in InRing(rdyN, frmN), m # n
      PROVE  m \in InRing(rdy, frm)
  <2>1. m \in R..T /\ m # Filler /\ rdyN[Idx(m)] /\ frmN[Idx(m)] = m
    BY <1>2, InSlot
  <2>2. rdy[Idx(m)] /\ frm[Idx(m)] = m
    BY <1>3, <1>4, <1>5, <2>1
  <2> QED
    BY <2>1, <2>2, InSlot
<1>6. ASSUME NEW m \in InRing(rdy, frm), m # n
      PROVE  m \in InRing(rdyN, frmN)
  <2>1. m \in R..T /\ m # Filler /\ rdy[Idx(m)] /\ frm[Idx(m)] = m
    BY InSlot
  <2>2. rdyN[Idx(m)] /\ frmN[Idx(m)] = m
    BY <1>3, <1>4, <1>6, <2>1
  <2> QED
    BY <1>2, <2>1, <2>2, InSlot
<1>7. n \in InRing(rdyN, frmN)
  BY <1>1, <1>2, <1>3, InSlot
<1>8. \A m : m \in InRing(rdyN, frmN) <=> m \in InRing(rdy, frm) \/ m = n
  BY <1>5, <1>6, <1>7
<1> QED
  BY <1>8 DEF rdyN, frmN, s

\* What a clock correction repeats takes the slot of no frame in the ring.
LEMMA RingRepeat ==
  ASSUME NEW rdy \in [Slots -> BOOLEAN], NEW frm \in [Slots -> Int],
         NEW R \in Int, NEW T \in Int, Frames(rdy, frm, R, T), T - R + 1 < B
  PROVE  InRing([rdy EXCEPT ![Idx(Seq(R - 1))] = TRUE],
                [frm EXCEPT ![Idx(Seq(R - 1))] = Filler]) = InRing(rdy, frm)
<1> DEFINE s == Idx(Seq(R - 1))
           rdyN == [rdy EXCEPT ![s] = TRUE]
           frmN == [frm EXCEPT ![s] = Filler]
<1>1. R - 1 \in Int /\ s = Idx(R - 1) /\ s \in Slots
  BY IdxSeq, SeqType
<1>2. Frames(rdyN, frmN, R - 1, T)
  BY <1>1, FramesRepeat
<1>3. /\ frmN[s] = Filler
      /\ \A i \in Slots : i # s => rdyN[i] = rdy[i] /\ frmN[i] = frm[i]
  BY <1>1
<1>4. ASSUME NEW m \in R..T
      PROVE  Idx(m) # s /\ Idx(m) \in Slots
  <2>1. m \in Int /\ m - (R - 1) < B /\ (R - 1) - m < B /\ m # R - 1
    BY Widths
  <2> QED
    BY <1>1, <2>1, SameSlot, SeqType
<1> HIDE DEF rdyN, frmN, s
<1>5. ASSUME NEW m \in InRing(rdyN, frmN)
      PROVE  m \in InRing(rdy, frm)
  <2>1. m \in (R - 1)..T /\ m # Filler /\ rdyN[Idx(m)] /\ frmN[Idx(m)] = m
    BY <1>1, <1>2, InSlot
  <2>2. m # R - 1
    BY <1>1, <1>3, <2>1
  <2>3. m \in R..T
    BY <2>1, <2>2
  <2>4. rdy[Idx(m)] /\ frm[Idx(m)] = m
    BY <1>3, <1>4, <2>1, <2>3
  <2> QED
    BY <2>1, <2>3, <2>4, InSlot
<1>6. ASSUME NEW m \in InRing(rdy, frm)
      PROVE  m \in InRing(rdyN, frmN)
  <2>1. m \in R..T /\ m # Filler /\ rdy[Idx(m)] /\ frm[Idx(m)] = m
    BY InSlot
  <2>2. rdyN[Idx(m)] /\ frmN[Idx(m)] = m /\ m \in (R - 1)..T
    BY <1>3, <1>4, <2>1
  <2> QED
    BY <1>1, <1>2, <2>1, <2>2, InSlot
<1>7. InRing(rdyN, frmN) = InRing(rdy, frm)
  BY <1>5, <1>6
<1> QED
  BY <1>7 DEF rdyN, frmN, s

\* A packet stored is one frame more, and the first ones may be gone, unless a turn of the
\* ring is full.
LEMMA StoredQueue ==
  ASSUME Room, TypeOK, NEW c \in Context, NEW R \in Int, NEW T \in Int,
         NEW n \in First..Last, NEW quiet \in BOOLEAN, Within(c, R, T, n), T - R < B,
         Frames(c.ready, frame, R, T), Store(c, n, quiet)
  PROVE  \E Q \in Int :
           /\ read' = Seq(Q) /\ write' = Seq(Larger(n, T)) /\ R <= Q /\ Q <= Larger(n, T) + 1
           /\ Larger(n, T) - Q + 1 < B =>
                \/ InRing(ready', frame') = {m \in InRing(c.ready, frame) \union {n} : m >= Q}
                \/ InRing(ready', frame') = {m \in InRing(c.ready, frame) : m >= Q}
<1> DEFINE s == Seq(n)
           p == Placed(c, s)
           U == Larger(n, T)
           q == [p EXCEPT !.ready[Idx(s)] = TRUE]
           t == IF Accepted(c, s) THEN Thinned(q, quiet) ELSE p
           Old == InRing(c.ready, frame)
           New == InRing(ready', frame')
<1>1. n \in Int /\ U \in Int /\ n <= U /\ T <= U /\ s \in SeqNos /\ n # Filler
  BY Sizes, SeqType DEF Larger, Filler
<1>2. PICK P \in Int : /\ p.read = Seq(P) /\ p.write = Seq(U) /\ Frames(p.ready, frame, P, U)
                       /\ R <= P /\ P <= U + 1 /\ (R <= n => P <= n)
                       /\ p.ready = Drop(c.ready, Seq(R), P - R)
  <2>1. \E Q \in Int :
          LET x == Placed(c, Seq(n))
              y == Larger(n, T)
          IN /\ x.read = Seq(Q) /\ x.write = Seq(y) /\ Frames(x.ready, frame, Q, y)
             /\ R <= Q /\ Q <= y + 1 /\ (R <= n => Q <= n)
             /\ x.ready = Drop(c.ready, Seq(R), Q - R)
    BY PlacedAt
  <2> QED
    BY <2>1
<1>3. /\ read' = t.read /\ write' = t.write /\ ready' = t.ready
      /\ frame' = IF Accepted(c, s) THEN [frame EXCEPT ![Idx(s)] = n] ELSE frame
  BY DEF Store
<1>4. Accepted(c, s) <=> n >= R
  BY <1>1, AcceptedIs
<1>5. p \in Context /\ p.ready \in [Slots -> BOOLEAN]
  BY <1>1, PlacedType DEF Context
<1>6. InRing(p.ready, frame) = {m \in Old : m >= P}
  <2>1. P - R \in Nat /\ R + (P - R) = P /\ c.ready \in [Slots -> BOOLEAN]
    BY <1>2 DEF Context
  <2>2. PICK k \in Nat, rdy \in [Slots -> BOOLEAN], frm \in [Slots -> Int] :
          k = P - R /\ rdy = c.ready /\ frm = frame
    BY <2>1, Sizes DEF TypeOK, Filler
  <2>3. InRing(Drop(rdy, Seq(R), k), frm) = {m \in InRing(rdy, frm) : m >= R + k}
    BY <2>2, RingDrop
  <2>4. InRing(Drop(c.ready, Seq(R), P - R), frame) = {m \in Old : m >= R + (P - R)}
    BY <2>2, <2>3
  <2> QED
    BY <1>2, <2>1, <2>4
<1> HIDE DEF p, U, Old
<1>7. CASE n >= R
  <2>1. P <= n /\ n \in P..U
    BY <1>1, <1>2, <1>7
  <2>2. /\ q \in Context /\ q.read = Seq(P) /\ q.write = Seq(U)
        /\ q.ready = [p.ready EXCEPT ![Idx(s)] = TRUE] /\ q.ready \in [Slots -> BOOLEAN]
    BY <1>2, <1>5 DEF Context
  <2>3. frame' = [frame EXCEPT ![Idx(s)] = n] /\ t = Thinned(q, quiet)
    BY <1>3, <1>4, <1>7
  <2>4. Frames(q.ready, frame', P, U)
    <3>1. frame \in [Slots -> Int]
      BY Sizes DEF TypeOK, Filler
    <3>2. Frames([p.ready EXCEPT ![Idx(s)] = TRUE], [frame EXCEPT ![Idx(s)] = n], P, U)
      BY <1>1, <1>2, <1>5, <2>1, <3>1, FramesPut
    <3> QED
      BY <2>2, <2>3, <3>2
  <2>5. ASSUME U - P < B
        PROVE  InRing(q.ready, frame') = {m \in Old \union {n} : m >= P}
    <3>1. frame \in [Slots -> Int]
      BY Sizes DEF TypeOK, Filler
    <3>2. InRing([p.ready EXCEPT ![Idx(s)] = TRUE], [frame EXCEPT ![Idx(s)] = n])
            = InRing(p.ready, frame) \union {n}
      <4>1. PICK rdy \in [Slots -> BOOLEAN], frm \in [Slots -> Int], V \in Int, x \in Int :
              rdy = p.ready /\ frm = frame /\ V = U /\ x = n
        BY <1>1, <1>5, <3>1
      <4>2. Frames(rdy, frm, P, V) /\ V - P < B /\ x \in P..V /\ x # Filler
        BY <1>1, <1>2, <2>1, <2>5, <4>1
      <4>3. \A m : m \in InRing([rdy EXCEPT ![Idx(Seq(x))] = TRUE],
                               [frm EXCEPT ![Idx(Seq(x))] = x])
                     <=> m \in InRing(rdy, frm) \/ m = x
        BY <4>2, RingPut
      <4> QED
        BY <4>1, <4>3
    <3> QED
      BY <1>6, <2>1, <2>2, <2>3, <3>2
  <2> HIDE DEF q
  <2>6. CASE t = q
    <3>1. U - P + 1 < B => U - P < B
      BY <1>1, <1>2, Sizes
    <3>2. U - P + 1 < B => New = {m \in Old \union {n} : m >= P}
      BY <1>3, <2>5, <2>6, <3>1
    <3>3. read' = Seq(P) /\ write' = Seq(U)
      BY <1>3, <2>2, <2>6
    <3> QED
      BY <1>2, <3>2, <3>3 DEF U, Old
  <2>7. CASE t = [q EXCEPT !.ready[Idx(q.read)] = FALSE, !.read = Seq(q.read + 1)]
    <3>1. Seq(q.read + 1) = Seq(P + 1)
      BY <2>2, SeqNext
    <3>2. /\ t.read = Seq(P + 1) /\ t.write = Seq(U)
          /\ t.ready = [q.ready EXCEPT ![Idx(Seq(P))] = FALSE]
      BY <2>2, <2>7, <3>1 DEF Context
    <3>3. P + 1 \in Int /\ R <= P + 1 /\ P + 1 <= U + 1
      BY <1>1, <1>2, <2>1
    <3>4. ASSUME U - (P + 1) + 1 < B
          PROVE  New = {m \in Old \union {n} : m >= P + 1}
      <4>1. U - P < B
        BY <1>1, <1>2, <3>4, Sizes
      <4>2. InRing([q.ready EXCEPT ![Idx(Seq(P))] = FALSE], frame')
              = {m \in InRing(q.ready, frame') : m >= P + 1}
        <5>1. PICK rdy \in [Slots -> BOOLEAN], V \in Int : rdy = q.ready /\ V = U
          BY <1>1, <2>2
        <5>2. Frames(rdy, frame', P, V) /\ V - P < B
          BY <2>4, <4>1, <5>1
        <5>3. InRing([rdy EXCEPT ![Idx(Seq(P))] = FALSE], frame')
                = {m \in InRing(rdy, frame') : m >= P + 1}
          BY <5>2, RingTake
        <5> QED
          BY <5>1, <5>3
      <4>3. InRing(q.ready, frame') = {m \in Old \union {n} : m >= P}
        BY <2>5, <4>1
      <4>4. \A m \in Old \union {n} : m >= P + 1 => m >= P
        <5>1. \A m \in Old : m \in Int
          <6>1. \A m \in InRing(c.ready, frame) : m \in R..T
            BY InSlot
          <6> QED
            BY <6>1 DEF Old
        <5> QED
          BY <1>1, <5>1
      <4> QED
        BY <1>3, <3>2, <4>2, <4>3, <4>4
    <3> HIDE DEF t
    <3> QED
      BY <1>3, <3>2, <3>3, <3>4 DEF U, Old
  <2> QED
    BY <2>3, <2>6, <2>7 DEF Thinned
<1>8. CASE ~(n >= R)
  <2>1. t = p /\ frame' = frame
    BY <1>3, <1>4, <1>8
  <2>2. New = {m \in Old : m >= P}
    BY <1>3, <1>6, <2>1
  <2>3. read' = Seq(P) /\ write' = Seq(U)
    BY <1>2, <1>3, <2>1
  <2> QED
    BY <1>2, <2>2, <2>3 DEF U, Old
<1> QED
  BY <1>7, <1>8
-----------------------------------------------------------------------------
(* What the queue is while the ring is open.                               *)

\* The pointers tell the frames they stand for, counted from the newest packet.
LEMMA PointersAt ==
  ASSUME Room, NEW n \in Int, NEW R \in Int, NEW T \in Int,
         R <= T + 1, T <= n + Ahead, n - R <= Reach + Jump
  PROVE  /\ n + Signed(Seq(R) - n) = R
         /\ BufFill(Seq(R), Seq(T)) = T - R + 1
<1>1. R - n < Half /\ R - n > -Half
  BY Sizes
<1>2. Signed(Seq(R) - n) = R - n
  BY <1>1, Behind
<1>3. T - R + 1 < Half /\ T - R + 1 > -Half
  BY Sizes
<1>4. BufFill(Seq(R), Seq(T)) = T - R + 1
  BY <1>3, Fill
<1> QED
  BY <1>2, <1>4

LEMMA OpenAt ==
  ASSUME Room, RInv, Live, NEW R \in Int, NEW T \in Int, Around(R, T)
  PROVE  /\ read = Seq(R) /\ write = Seq(T) /\ R <= T + 1
         /\ T <= newest + Ahead /\ newest - R <= Reach /\ Frames(ready, frame, R, T)
         /\ Mode = "open" /\ NextOut = R /\ HeldBack = InRing(ready, frame)
         /\ T - R + 1 < B
<1>1. state = "PLAY" /\ ~astray /\ ~stuck /\ BufFill(read, write) < B
  BY DEF Live, RInv, Begun
<1>2. /\ read = Seq(R) /\ write = Seq(T) /\ R <= T + 1
      /\ T <= newest + Ahead /\ newest - R <= Reach /\ Frames(ready, frame, R, T)
  BY <1>1 DEF Around, Placement, Contents
<1>3. newest + Signed(Seq(R) - newest) = R /\ BufFill(Seq(R), Seq(T)) = T - R + 1
  <2>1. newest \in Int /\ newest - R <= Reach + Jump
    BY <1>2, Ints, Sizes DEF RInv, IInv
  <2> QED
    BY <1>2, <2>1, PointersAt
<1>4. Mode = "open" /\ NextOut = R /\ HeldBack = InRing(ready, frame)
  BY <1>1, <1>2, <1>3 DEF Live, Mode, NextOut, Number, HeldBack, Holding, InRing
<1> QED
  BY <1>1, <1>2, <1>3, <1>4

LEMMA OpenAround ==
  ASSUME RInv, Live
  PROVE  \E R, T \in Int : Around(R, T)
BY DEF RInv, InPlace, Live

\* The same of the state after a step.
LEMMA OpenNext ==
  ASSUME Room, TypeOK', Live', NEW R \in Int, NEW T \in Int,
         read' = Seq(R), write' = Seq(T), R <= T + 1,
         T <= newest' + Ahead, newest' - R <= Reach + Jump
  PROVE  /\ Mode' = "open" /\ NextOut' = R /\ HeldBack' = InRing(ready', frame')
         /\ T - R + 1 < B
<1>1. newest' \in Int
  BY Sizes DEF TypeOK
<1>2. newest' + Signed(Seq(R) - newest') = R /\ BufFill(Seq(R), Seq(T)) = T - R + 1
  BY <1>1, PointersAt
<1>3. BufFill(read', write') < B /\ ~astray'
  BY DEF Live
<1> QED
  BY <1>2, <1>3 DEF Live, Mode, NextOut, Number, HeldBack, Holding, InRing

-----------------------------------------------------------------------------
(* The queue opens, closes and is lost.                                    *)

\* Lost: whatever happens then is promised by nobody.
LEMMA LoseStep ==
  ASSUME astray', taken' \in Int, Floor' = Floor, Promise!Corrected
  PROVE  Promise!Lose
<1>1. ~Live' /\ Mode' = "lost" /\ NextOut' = First /\ HeldBack' = {}
  BY DEF Live, Mode, NextOut, HeldBack
<1> QED
  BY <1>1 DEF Promise!Lose, Promise!Empty

\* A step that takes nothing out and flushes nothing.
TakesNone ==
  Promise!Corrected /\ UNCHANGED <<flush, floor, taken>> /\ (astray => astray')

\* Such a step, before or after which the ring is not open.
LEMMA KeepPromise ==
  ASSUME Room, RInv, RInv', TakesNone, ~(Live /\ Live')
  PROVE  Promise!Next
<1>1. Floor' = Floor /\ taken \in Int /\ gaps' \in Int
  <2>1. Floor' = Floor /\ taken \in Int
    BY Ints DEF Floor, RInv, IInv, TakesNone
  <2>2. gaps' \in Nat
    BY Sizes DEF RInv, IInv, TypeOK
  <2> QED
    BY <2>1, <2>2
<1>2. CASE astray'
  BY <1>1, <1>2, LoseStep DEF Promise!Next, TakesNone
<1>3. CASE ~astray' /\ ~Live'
  <2>1. Mode # "lost" /\ Mode' = "closed" /\ NextOut' = First /\ HeldBack' = {}
    BY <1>3 DEF Mode, NextOut, HeldBack, TakesNone
  <2>2. Promise!Close
    BY <1>1, <2>1 DEF Promise!Close, Promise!Empty, TakesNone
  <2> QED
    BY <2>2 DEF Promise!Next
<1>4. CASE Live'
  <2>1. state' = "PLAY" /\ ~astray' /\ ~stuck' /\ ~astray
    BY <1>4 DEF Live, RInv, Begun, TakesNone
  <2>2. PICK R, T \in Int : Around(R, T)'
    BY <2>1 DEF RInv, InPlace
  <2>3. /\ read' = Seq(R) /\ write' = Seq(T) /\ R <= T + 1
        /\ T <= newest' + Ahead /\ newest' - R <= Reach /\ Frames(ready', frame', R, T)
        /\ taken' < R + gaps' /\ (flush' => floor' <= R + gaps')
    BY <2>1, <2>2 DEF Around, Placement, Contents, Heard
  <2>4. TypeOK' /\ newest' - R <= Reach + Jump
    BY <2>3, Sizes DEF RInv, IInv, TypeOK
  <2>5. Mode' = "open" /\ NextOut' = R /\ HeldBack' = InRing(ready', frame')
    BY <1>4, <2>3, <2>4, OpenNext
  <2>6. Mode = "closed"
    BY <1>4, <2>1 DEF Mode
  <2>7. \A m \in InRing(ready', frame') : m >= R
    BY <2>3, InSlot
  <2>8. R + gaps' > taken /\ R + gaps' >= Floor
    <3>1. R + gaps' > taken
      BY <2>3 DEF TakesNone
    <3>2. taken >= First - 1 /\ First \in Int /\ taken \in Int /\ floor \in Int
      BY Ints DEF RInv, IInv
    <3>3. gaps' \in Int
      BY <1>1
    <3>4. First <= R + gaps'
      <4>1. PICK x \in Int : x = gaps'
        BY <3>3
      <4>2. R + x > taken
        BY <3>1, <4>1
      <4>3. First <= R + x
        BY <3>2, <4>2
      <4> QED
        BY <4>1, <4>3
    <3>5. flush => floor <= R + gaps'
      BY <2>3 DEF TakesNone
    <3>6. Floor <= R + gaps' /\ Floor \in Int
      BY <3>2, <3>4, <3>5 DEF Floor
    <3> QED
      BY <3>1, <3>2, <3>6
  <2>9. Promise!Open
    BY <1>1, <2>5, <2>6, <2>7, <2>8
       DEF Promise!Open, Promise!Fresh, Promise!From, TakesNone
  <2> QED
    BY <2>9 DEF Promise!Next
<1> QED
  BY <1>2, <1>3, <1>4

-----------------------------------------------------------------------------
(* The queue stays open.                                                   *)

\* The ring holds what it held from Q on, and nothing is taken out.
LEMMA PassStep ==
  ASSUME Room, RInv, TypeOK', Live, Live', TakesNone,
         NEW R \in Int, NEW T \in Int, NEW Q \in Int, NEW U \in Int, Around(R, T),
         R <= Q, Q <= U + 1, U <= newest' + Ahead, newest' - Q <= Reach + Jump,
         read' = Seq(Q), write' = Seq(U),
         InRing(ready', frame') = {m \in InRing(ready, frame) : m >= Q}
  PROVE  Promise!Next
<1>1. Mode = "open" /\ NextOut = R /\ HeldBack = InRing(ready, frame)
  BY OpenAt
<1>2. Mode' = "open" /\ NextOut' = Q /\ HeldBack' = InRing(ready', frame')
  BY OpenNext
<1>3. Floor' = Floor /\ Promise!Corrected /\ taken' = taken
  BY DEF Floor, TakesNone
<1>4. HeldBack' = Promise!From(HeldBack, NextOut')
  BY <1>1, <1>2 DEF Promise!From
<1>5. Promise!Stays
  BY <1>1, <1>2, <1>3 DEF Promise!Stays
<1>6. NextOut' >= NextOut
  BY <1>1, <1>2
<1> QED
  BY <1>3, <1>4, <1>5, <1>6 DEF Promise!Pass, Promise!Next

LEMMA PutQueue ==
  ASSUME Room, RInv, TypeOK', NEW n \in Arrivals, NEW quiet \in BOOLEAN, Put(n, quiet),
         Live, Live'
  PROVE  Promise!Next
<1> USE DEF RInv, IInv
<1>1. /\ n \in First..Last /\ n \in Int /\ n >= newest - Late /\ n <= newest + Jump
      /\ Receive(n) /\ Store(Ring, n, quiet)
  <2>1. n \in First..Last /\ n \in Int /\ n >= newest - Late /\ n <= newest + Jump
    BY Sizes DEF Arrivals
  <2> QED
    BY <2>1 DEF Put
<1>2. newest' = Larger(n, newest) /\ newest \in Int /\ UNCHANGED <<flush, floor, taken, gaps>>
  BY <1>1, Ints DEF Receive, Larger
<1>3. TakesNone
  BY <1>2 DEF TakesNone, Promise!Corrected, Live
<1>4. PICK R, T \in Int : Around(R, T)
  BY OpenAround
<1>5. /\ read = Seq(R) /\ write = Seq(T) /\ R <= T + 1
      /\ T <= newest + Ahead /\ newest - R <= Reach /\ Frames(ready, frame, R, T)
      /\ Mode = "open" /\ NextOut = R /\ HeldBack = InRing(ready, frame)
      /\ T - R + 1 < B
  BY <1>4, OpenAt
<1>6. Ring \in Context /\ Ring.read = Seq(R) /\ Ring.write = Seq(T) /\ Ring.ready = ready
  BY <1>5, RingType DEF Ring
<1>7. Within(Ring, R, T, n)
  BY <1>1, <1>2, <1>5, <1>6, Sizes DEF Within
<1> DEFINE U == Larger(n, T)
           Old == InRing(ready, frame)
           New == InRing(ready', frame')
<1>8. PICK Q \in Int :
        /\ read' = Seq(Q) /\ write' = Seq(U) /\ R <= Q /\ Q <= U + 1
        /\ U - Q + 1 < B => \/ New = {m \in Old \union {n} : m >= Q}
                            \/ New = {m \in Old : m >= Q}
  <2>1. T - R < B /\ Frames(Ring.ready, frame, R, T)
    BY <1>5, <1>6, Sizes
  <2>2. \E Q \in Int :
          /\ read' = Seq(Q) /\ write' = Seq(U) /\ R <= Q /\ Q <= U + 1
          /\ U - Q + 1 < B =>
               \/ New = {m \in InRing(Ring.ready, frame) \union {n} : m >= Q}
               \/ New = {m \in InRing(Ring.ready, frame) : m >= Q}
    BY <1>1, <1>6, <1>7, <2>1, StoredQueue
  <2> QED
    BY <1>6, <2>2
<1>9. U \in Int /\ U <= newest' + Ahead /\ newest' - Q <= Reach + Jump
  BY <1>1, <1>2, <1>5, <1>8, Sizes DEF Larger
<1> HIDE DEF U, Old, New
<1>10. /\ Mode' = "open" /\ NextOut' = Q /\ HeldBack' = New
       /\ U - Q + 1 < B
  BY <1>8, <1>9, OpenNext DEF New
<1>11. CASE New = {m \in Old : m >= Q}
  BY <1>3, <1>4, <1>8, <1>9, <1>11, PassStep DEF New, Old
<1>12. CASE New = {m \in Old \union {n} : m >= Q} /\ n \in New
  <2>1. Promise!Stays
    BY <1>2, <1>5, <1>10 DEF Promise!Stays, Floor
  <2>2. NextOut' >= NextOut
    BY <1>5, <1>8, <1>10
  <2>3. HeldBack' = Promise!From(HeldBack \union {n}, NextOut') /\ n \in HeldBack'
    BY <1>5, <1>10, <1>12 DEF Promise!From, Old
  <2> QED
    BY <1>2, <2>1, <2>2, <2>3 DEF Promise!Arrive, Promise!Next
<1>13. CASE New = {m \in Old \union {n} : m >= Q} /\ n \notin New
  <2>1. New = {m \in Old : m >= Q}
    BY <1>13
  <2> QED
    BY <1>11, <2>1
<1> QED
  BY <1>8, <1>10, <1>11, <1>12, <1>13

LEMMA IgnoredQueue ==
  ASSUME Room, RInv, TypeOK', NEW n \in Arrivals, PutIgnored(n), Live, Live'
  PROVE  Promise!Next
<1> USE DEF RInv, IInv
<1>1. PICK R, T \in Int : Around(R, T)
  BY OpenAround
<1>2. /\ read = Seq(R) /\ write = Seq(T) /\ R <= T + 1
      /\ T <= newest + Ahead /\ newest - R <= Reach /\ Frames(ready, frame, R, T)
  BY <1>1, OpenAt
<1>3. /\ newest' = Larger(n, newest)
      /\ UNCHANGED <<ring, pause, stuck, flush, record, floor, taken, gaps>>
  BY DEF PutIgnored, Receive, Larger
<1>4. newest' \in Int /\ newest' >= newest /\ newest' <= newest + Jump /\ newest \in Int
  BY <1>3, Ints, Sizes DEF Larger, Arrivals
<1>5. T <= newest' + Ahead /\ newest' - R <= Reach + Jump
  BY <1>2, <1>4, Sizes
<1>6. TakesNone
  BY <1>3 DEF TakesNone, Promise!Corrected, Live
<1>7. InRing(ready', frame') = {m \in InRing(ready, frame) : m >= R}
  <2>1. ready' = ready /\ frame' = frame
    BY <1>3 DEF ring
  <2> QED
    BY <1>2, <2>1, RingFrom
<1>8. read' = Seq(R) /\ write' = Seq(T)
  BY <1>2, <1>3 DEF ring
<1> QED
  BY <1>1, <1>2, <1>5, <1>6, <1>7, <1>8, PassStep

LEMMA DropQueue ==
  ASSUME Room, RInv, TypeOK', DropFrame, Live, Live'
  PROVE  Promise!Next
<1> USE DEF RInv, IInv
<1>1. PICK R, T \in Int : Around(R, T)
  BY OpenAround
<1>2. /\ read = Seq(R) /\ write = Seq(T) /\ R <= T + 1 /\ T - R + 1 < B
      /\ T <= newest + Ahead /\ newest - R <= Reach /\ Frames(ready, frame, R, T)
  BY <1>1, OpenAt
<1>3. UNCHANGED <<flush, state, write, stuck, newest, floor, taken, frame, astray>>
  BY DEF DropFrame, Correct
<1>4. TakesNone
  BY <1>3 DEF TakesNone, Promise!Corrected, DropFrame, Correct
<1>5. newest \in Int /\ newest' = newest /\ frame' = frame /\ ready \in [Slots -> BOOLEAN]
  BY <1>3, Ints
<1>6. SeqOrder(read, write) <=> R < T
  <2>1. R - T < Half /\ T - R < Half
    BY <1>2, Sizes
  <2> QED
    BY <1>2, <2>1, Before
<1>7. CASE SeqOrder(read, write)
  <2>1. /\ read' = Seq(R + 1) /\ write' = Seq(T) /\ R + 1 \in Int
        /\ ready' = [ready EXCEPT ![Idx(Seq(R))] = FALSE]
    BY <1>2, <1>3, <1>7, SeqNext DEF DropFrame
  <2>2. InRing(ready', frame') = {m \in InRing(ready, frame) : m >= R + 1}
    <3>1. T - R < B
      BY <1>2, Sizes
    <3>2. InRing([ready EXCEPT ![Idx(Seq(R))] = FALSE], frame)
            = {m \in InRing(ready, frame) : m >= R + 1}
      BY <1>2, <1>5, <3>1, RingTake
    <3> QED
      BY <1>5, <2>1, <3>2
  <2>3. R <= R + 1 /\ R + 1 <= T + 1 /\ T <= newest' + Ahead /\ newest' - (R + 1) <= Reach + Jump
    BY <1>2, <1>5, <1>6, <1>7, Sizes
  <2> QED
    BY <1>1, <1>4, <2>1, <2>2, <2>3, PassStep
<1>8. CASE ~SeqOrder(read, write)
  <2>1. read' = Seq(R) /\ write' = Seq(T) /\ ready' = ready
    BY <1>2, <1>3, <1>8 DEF DropFrame
  <2>2. InRing(ready', frame') = {m \in InRing(ready, frame) : m >= R}
    BY <1>2, <1>5, <2>1, RingFrom
  <2>3. R <= R /\ T <= newest' + Ahead /\ newest' - R <= Reach + Jump
    BY <1>2, <1>5, Sizes
  <2> QED
    BY <1>1, <1>2, <1>4, <2>1, <2>2, <2>3, PassStep
<1> QED
  BY <1>7, <1>8

LEMMA RepeatQueue ==
  ASSUME Room, RInv, TypeOK', RepeatFrame, Live, Live'
  PROVE  Promise!Next
<1> USE DEF RInv, IInv
<1>1. PICK R, T \in Int : Around(R, T)
  BY OpenAround
<1>2. /\ read = Seq(R) /\ write = Seq(T) /\ R <= T + 1 /\ T - R + 1 < B
      /\ T <= newest + Ahead /\ newest - R <= Reach /\ Frames(ready, frame, R, T)
      /\ Mode = "open" /\ NextOut = R /\ HeldBack = InRing(ready, frame)
  BY <1>1, OpenAt
<1>3. Seq(read - 1) = Seq(R - 1) /\ R - 1 \in Int
  <2>1. Seq(R) - 1 = Seq(R) + (-1) /\ R - 1 = R + (-1)
    BY SeqInt
  <2>2. Seq(Seq(R) + (-1)) = Seq(R + (-1))
    BY SeqPlus
  <2> QED
    BY <1>2, <2>1, <2>2
<1>4. /\ read' = Seq(R - 1) /\ ready' = [ready EXCEPT ![Idx(Seq(R - 1))] = TRUE]
      /\ frame' = [frame EXCEPT ![Idx(Seq(R - 1))] = Filler] /\ gaps' = gaps + 1
      /\ UNCHANGED <<flush, write, newest, floor, taken>>
  BY <1>3 DEF RepeatFrame, Correct
<1>5. /\ newest \in Int /\ ready \in [Slots -> BOOLEAN] /\ frame \in [Slots -> Int]
  BY Ints, Sizes DEF TypeOK, Filler
<1>6. InRing(ready', frame') = InRing(ready, frame)
  BY <1>2, <1>4, <1>5, RingRepeat
<1>7. /\ R - 1 <= T + 1 /\ T <= newest' + Ahead /\ newest' - (R - 1) <= Reach + Jump
      /\ write' = Seq(T)
  BY <1>2, <1>4, <1>5, Sizes
<1>8. Mode' = "open" /\ NextOut' = R - 1 /\ HeldBack' = InRing(ready', frame')
  BY <1>3, <1>4, <1>7, OpenNext
<1>9. Promise!Stays
  BY <1>2, <1>4, <1>8 DEF Promise!Stays, Floor
<1> QED
  BY <1>2, <1>4, <1>6, <1>8, <1>9 DEF Promise!Repeat, Promise!Next

-----------------------------------------------------------------------------
(* _buffer_get_frame.                                                      *)

\* What is left of the queue once the frames to skip are skipped.
LEMMA SkippedQueue ==
  ASSUME Room, RInv, state = "PLAY", ~stuck, ~astray, ~Overran(Seq(read + Skipped))
  PROVE  \E R, T, h \in Int :
           /\ Around(R, T) /\ R <= h /\ h <= T + 1 /\ Frames(AfterSkip, frame, h, T)
           /\ Head = Seq(h) /\ T - h + 1 < B /\ BufFill(Head, write) = T - h + 1
           /\ T - R < B => InRing(AfterSkip, frame) = {m \in InRing(ready, frame) : m >= h}
<1> USE DEF RInv, IInv
<1>1. PICK R, T, h \in Int :
        /\ Around(R, T) /\ R <= h /\ h <= T + 1 /\ Skipped \in Nat /\ h = R + Skipped
        /\ Frames(AfterSkip, frame, h, T)
        /\ Head = Seq(h) /\ T - h + 1 < B /\ BufFill(Head, write) = T - h + 1
  BY HeadAt
<1>2. read = Seq(R) /\ Frames(ready, frame, R, T) /\ ready \in [Slots -> BOOLEAN]
  BY <1>1, Ints DEF Around, Placement, Contents
<1>3. ASSUME T - R < B
      PROVE  InRing(AfterSkip, frame) = {m \in InRing(ready, frame) : m >= h}
  <2>1. InRing(Drop(ready, Seq(R), Skipped), frame)
          = {m \in InRing(ready, frame) : m >= R + Skipped}
    BY <1>1, <1>2, <1>3, RingDrop
  <2> QED
    BY <1>1, <1>2, <2>1 DEF AfterSkip
<1> QED
  BY <1>1, <1>3

LEMMA GetQueue ==
  ASSUME Room, RInv, TypeOK', GetNothing \/ GetFill \/ GetMissing, Live, Live'
  PROVE  Promise!Next
<1> USE DEF RInv, IInv
<1>1. /\ GetFrame /\ taken' = taken
      /\ UNCHANGED <<flush, newest, floor, frame, gaps>> /\ state = "PLAY" /\ ~stuck
  BY DEF GetNothing, GetFill, GetMissing, GetFrame
<1>2. ~astray /\ ~Overran(Seq(read + Skipped))
  BY <1>1 DEF GetFrame, Live
<1>3. PICK R, T, h \in Int :
        /\ Around(R, T) /\ R <= h /\ h <= T + 1 /\ Frames(AfterSkip, frame, h, T)
        /\ Head = Seq(h) /\ T - h + 1 < B /\ BufFill(Head, write) = T - h + 1
        /\ T - R < B => InRing(AfterSkip, frame) = {m \in InRing(ready, frame) : m >= h}
  BY <1>1, <1>2, SkippedQueue
<1>4. /\ write = Seq(T) /\ R <= T + 1 /\ T - R + 1 < B
      /\ T <= newest + Ahead /\ newest - R <= Reach
  BY <1>3, OpenAt
<1>5. TakesNone
  BY <1>1 DEF TakesNone, Promise!Corrected, GetFrame
<1>6. /\ newest \in Int /\ AfterSkip \in [Slots -> BOOLEAN] /\ Seq(Head + 1) = Seq(h + 1)
      /\ newest' = newest /\ frame' = frame /\ h + 1 \in Int
  BY <1>1, <1>3, HeadType, Ints, SeqNext
<1> DEFINE Old == InRing(ready, frame)
           Left == InRing(AfterSkip, frame)
<1>7. Left = {m \in Old : m >= h} /\ T - h < B
  BY <1>3, <1>4, Sizes
<1>8. \A m \in Old : m \in Int
  <2>1. Frames(ready, frame, R, T)
    BY <1>3, OpenAt
  <2>2. \A m \in Old : m \in R..T
    BY <2>1, InSlot
  <2> QED
    BY <2>2
<1> HIDE DEF Old, Left
<1>9. {m \in Left : m >= h + 1} = {m \in Old : m >= h + 1}
  BY <1>7, <1>8
<1>10. CASE GetNothing
  <2>1. read' = Seq(h) /\ ready' = AfterSkip /\ write' = Seq(T)
    BY <1>3, <1>4, <1>10 DEF GetNothing
  <2>2. InRing(ready', frame') = {m \in InRing(ready, frame) : m >= h}
    BY <1>6, <1>7, <2>1 DEF Old, Left
  <2>3. h <= T + 1 /\ T <= newest' + Ahead /\ newest' - h <= Reach + Jump
    BY <1>3, <1>4, <1>6, Sizes
  <2> QED
    BY <1>3, <1>5, <2>1, <2>2, <2>3, PassStep
<1>11. CASE GetFill
  <2>1. /\ BufFill(Head, write) = 0 /\ Signed(write - newest) < Ahead
        /\ read' = Seq(h + 1) /\ write' = Seq(T + 1)
        /\ ready' = [AfterSkip EXCEPT ![Idx(Seq(h))] = FALSE]
    BY <1>3, <1>4, <1>6, <1>11, SeqNext DEF GetFill
  <2>2. h = T + 1 /\ T + 1 <= newest + Ahead /\ T + 1 \in Int
    BY <1>3, <1>4, <2>1, FillRoom
  <2>3. InRing(ready', frame') = {m \in InRing(ready, frame) : m >= h + 1}
    <3>1. InRing([AfterSkip EXCEPT ![Idx(Seq(h))] = FALSE], frame) = {m \in Left : m >= h + 1}
      BY <1>3, <1>6, <1>7, RingTake DEF Left
    <3> QED
      BY <1>6, <1>9, <2>1, <3>1 DEF Old
  <2>4. R <= h + 1 /\ h + 1 <= (T + 1) + 1 /\ T + 1 <= newest' + Ahead
        /\ newest' - (h + 1) <= Reach + Jump
    BY <1>3, <1>4, <1>6, <2>2, Sizes
  <2> QED
    BY <1>3, <1>5, <1>6, <2>1, <2>2, <2>3, <2>4, PassStep
<1>12. CASE GetMissing
  <2>1. /\ BufFill(Head, write) # 0 /\ ~AfterSkip[Idx(Seq(h))]
        /\ read' = Seq(h + 1) /\ write' = Seq(T) /\ ready' = AfterSkip
    BY <1>3, <1>4, <1>6, <1>12 DEF GetMissing
  <2>2. InRing(ready', frame') = {m \in InRing(ready, frame) : m >= h + 1}
    <3>1. Left = {m \in Left : m >= h + 1}
      BY <1>3, <2>1, RingPass DEF Left
    <3> QED
      BY <1>6, <1>9, <2>1, <3>1 DEF Old, Left
  <2>3. R <= h + 1 /\ h + 1 <= T + 1 /\ T <= newest' + Ahead
        /\ newest' - (h + 1) <= Reach + Jump
    BY <1>3, <1>4, <1>6, <2>1, Sizes
  <2> QED
    BY <1>3, <1>5, <1>6, <2>1, <2>2, <2>3, PassStep
<1> QED
  BY <1>10, <1>11, <1>12

\* A frame is heard: it is in the queue, or the queue opens with it once a full ring was
\* skipped back to less than a turn.
LEMMA ReadyQueue ==
  ASSUME Room, RInv, RInv', GetReady
  PROVE  Promise!Next
<1> USE DEF RInv, IInv
<1>1. /\ GetFrame /\ UNCHANGED <<flush, newest, floor, frame, gaps>>
      /\ state = "PLAY" /\ state' = "PLAY" /\ ~stuck /\ (astray => astray')
  BY DEF GetReady, GetFrame
<1>2. Floor' = Floor /\ Promise!Corrected
  BY <1>1 DEF Floor, Promise!Corrected
<1>3. CASE astray'
  <2>1. taken' \in Int
    BY Sizes DEF TypeOK
  <2> QED
    BY <1>2, <1>3, <2>1, LoseStep DEF Promise!Next
<1>4. CASE ~astray'
  <2>1. ~astray /\ ~Overran(Seq(read + Skipped))
    BY <1>1, <1>4 DEF GetFrame
  <2>2. PICK R, T, h \in Int :
          /\ Around(R, T) /\ R <= h /\ h <= T + 1 /\ Frames(AfterSkip, frame, h, T)
          /\ Head = Seq(h) /\ T - h + 1 < B /\ BufFill(Head, write) = T - h + 1
          /\ T - R < B => InRing(AfterSkip, frame) = {m \in InRing(ready, frame) : m >= h}
    BY <1>1, <2>1, SkippedQueue
  <2>3. /\ write = Seq(T) /\ R <= T + 1 /\ T <= newest + Ahead /\ newest - R <= Reach
        /\ taken < R + gaps /\ (flush => floor <= R + gaps)
    BY <1>1, <2>2 DEF Around, Placement, Heard
  <2>4. /\ newest \in Int /\ AfterSkip \in [Slots -> BOOLEAN] /\ Seq(Head + 1) = Seq(h + 1)
        /\ newest' = newest /\ frame' = frame /\ h + 1 \in Int
    BY <1>1, <2>2, HeadType, Ints, SeqNext
  <2>5. /\ BufFill(Head, write) # 0 /\ AfterSkip[Idx(Seq(h))]
        /\ read' = Seq(h + 1) /\ write' = Seq(T)
        /\ ready' = [AfterSkip EXCEPT ![Idx(Seq(h))] = FALSE]
        /\ taken' = IF Due = Filler THEN taken ELSE Due
    BY <2>2, <2>3, <2>4 DEF GetReady, Due
  <2>6. /\ h <= T /\ h + 1 <= T + 1 /\ T - h < B
        /\ T <= newest' + Ahead /\ newest' - (h + 1) <= Reach + Jump
    BY <2>2, <2>3, <2>4, <2>5, Sizes
  <2>7. Live'
    <3>1. PICK Q \in Int : Q = h + 1
      BY <2>4
    <3>2. BufFill(Seq(Q), Seq(T)) = T - Q + 1
      BY <2>4, <2>6, <3>1, PointersAt
    <3>3. BufFill(read', write') < B
      BY <2>2, <2>5, <3>1, <3>2, Sizes
    <3> QED
      BY <1>1, <1>4, <3>3 DEF Live
  <2>8. /\ Mode' = "open" /\ NextOut' = h + 1 /\ HeldBack' = InRing(ready', frame')
    BY <2>4, <2>5, <2>6, <2>7, OpenNext
  <2>9. InRing(ready', frame') = {m \in InRing(AfterSkip, frame) : m >= h + 1}
    <3>1. InRing([AfterSkip EXCEPT ![Idx(Seq(h))] = FALSE], frame)
            = {m \in InRing(AfterSkip, frame) : m >= h + 1}
      BY <2>2, <2>4, <2>6, RingTake
    <3> QED
      BY <2>4, <2>5, <3>1
  <2>10. Due # Filler => taken' = h /\ h \in InRing(AfterSkip, frame)
    <3> SUFFICES ASSUME Due # Filler PROVE taken' = h /\ h \in InRing(AfterSkip, frame)
      OBVIOUS
    <3>1. Due = h
      BY <2>2, <2>5, DueIs
    <3>2. Idx(Seq(h)) = Idx(h) /\ frame[Idx(h)] = h
      BY <2>2, <3>1, IdxSeq DEF Due
    <3>3. h \in h..T
      BY <2>6
    <3> QED
      BY <2>2, <2>5, <3>1, <3>2, <3>3, InSlot
  <2>11. CASE ~Live
    <3>1. CASE Due = Filler
      BY <1>1, <1>2, <2>5, <2>11, <3>1, KeepPromise DEF TakesNone
    <3>2. CASE Due # Filler
      <4>1. Mode = "closed"
        BY <2>1, <2>11 DEF Mode
      <4>2. taken' + gaps > taken /\ taken' + gaps >= Floor
        <5>1. h + gaps > taken /\ (flush => floor <= h + gaps)
          BY <2>2, <2>3, Ints
        <5>2. Floor <= h + gaps
          BY <5>1, Ints DEF Floor
        <5>3. Floor \in Int
          BY Ints DEF Floor
        <5> QED
          BY <2>10, <3>2, <5>1, <5>2, <5>3, Ints
      <4>3. \A m \in InRing(ready', frame') : m >= h + 1
        BY <2>9
      <4>4. Promise!Open
        BY <1>1, <1>2, <2>8, <2>10, <3>2, <4>1, <4>2, <4>3
           DEF Promise!Open, Promise!Fresh, Promise!From
      <4> QED
        BY <4>4 DEF Promise!Next
    <3> QED
      BY <3>1, <3>2
  <2>12. CASE Live
    <3>1. Mode = "open" /\ NextOut = R /\ HeldBack = InRing(ready, frame) /\ T - R < B
          /\ Frames(ready, frame, R, T)
      <4>1. Mode = "open" /\ NextOut = R /\ HeldBack = InRing(ready, frame)
            /\ T - R + 1 < B /\ Frames(ready, frame, R, T)
        BY <2>2, <2>12, OpenAt
      <4> QED
        BY <4>1, Sizes
    <3>2. InRing(AfterSkip, frame) = {m \in InRing(ready, frame) : m >= h}
      BY <2>2, <3>1
    <3>3. InRing(ready', frame') = {m \in InRing(ready, frame) : m >= h + 1}
      <4>1. \A m \in InRing(ready, frame) : m \in Int
        <5>1. \A m \in InRing(ready, frame) : m \in R..T
          BY <3>1, InSlot
        <5> QED
          BY <5>1
      <4> QED
        BY <2>9, <3>2, <4>1
    <3>4. CASE Due = Filler
      <4>1. TakesNone
        BY <1>1, <1>2, <2>5, <3>4 DEF TakesNone
      <4>2. R <= h + 1
        BY <2>2
      <4> QED
        BY <2>2, <2>4, <2>5, <2>6, <2>7, <2>12, <3>3, <4>1, <4>2, PassStep
    <3>5. CASE Due # Filler
      <4>1. taken' \in HeldBack /\ NextOut' = taken' + 1
        BY <2>8, <2>10, <3>1, <3>2, <3>5
      <4>2. HeldBack' = Promise!From(HeldBack, NextOut')
        BY <2>8, <3>1, <3>3 DEF Promise!From
      <4>3. Promise!Stays
        BY <1>2, <2>8, <3>1 DEF Promise!Stays
      <4> QED
        BY <1>1, <4>1, <4>2, <4>3 DEF Promise!Hear, Promise!Next
    <3> QED
      BY <3>4, <3>5
  <2> QED
    BY <2>11, <2>12
<1> QED
  BY <1>3, <1>4

-----------------------------------------------------------------------------
(* Every step of the ring is a step of the queue.                          *)

LEMMA FlushQueue ==
  ASSUME Room, RInv, NEW n \in Wanted, Flush(n)
  PROVE  Promise!Next \/ UNCHANGED Promise!vars
<1> USE DEF RInv, IInv
<1>1. /\ n \in Int /\ n >= floor /\ floor' = n /\ ~stuck
      /\ UNCHANGED <<flush, newest, gaps>>
  BY Sizes DEF Wanted, Flush
<1>2. CASE flush /\ state = "PLAY"
  <2>1. state' = "WAIT" /\ ~astray' /\ taken' = Rewound(n)
    BY <1>2 DEF Flush, FlushPlaying
  <2>2. Mode' = "closed" /\ NextOut' = First /\ HeldBack' = {}
    BY <2>1 DEF Mode, Live, NextOut, HeldBack
  <2>3. Floor = floor /\ Floor' = n
    BY <1>1, <1>2 DEF Floor
  <2>4. taken' = IF Floor' <= taken THEN Floor' - 1 ELSE taken
    BY <2>1, <2>3 DEF Rewound
  <2> QED
    BY <1>1, <2>2, <2>3, <2>4 DEF Promise!Restart, Promise!Empty, Promise!Next
<1>3. CASE flush /\ state # "PLAY"
  <2>1. UNCHANGED <<state, read, write, ready, frame, astray, taken>>
    BY <1>3 DEF Flush
  <2>2. ~Live /\ ~Live'
    BY <1>3, <2>1 DEF Live
  <2>3. NextOut' = First /\ HeldBack' = {} /\ Mode' = Mode /\ (Mode = "closed" \/ Mode = "lost")
    BY <2>1, <2>2 DEF Mode, NextOut, HeldBack
  <2>4. Floor = floor /\ Floor' = n
    BY <1>1, <1>3 DEF Floor
  <2>5. taken < n
    <3>1. state = "WAIT" \/ state = "STREAM"
      BY <1>3 DEF TypeOK
    <3>2. taken < floor
      BY <3>1, Ints DEF Begun
    <3> QED
      BY <1>1, <3>2, Ints
  <2>6. taken' = IF Floor' <= taken THEN Floor' - 1 ELSE taken
    BY <1>1, <2>1, <2>4, <2>5, Ints
  <2> QED
    BY <1>1, <2>3, <2>4, <2>6 DEF Promise!Restart, Promise!Empty, Promise!Next
<1>4. CASE ~flush
  <2>1. UNCHANGED <<state, read, write, ready, frame, astray, taken>>
    BY <1>4 DEF Flush
  <2>2. Mode' = Mode /\ NextOut' = NextOut /\ HeldBack' = HeldBack /\ Floor' = Floor
    BY <1>1, <1>4, <2>1 DEF Mode, Live, NextOut, Number, HeldBack, Holding, Floor
  <2> QED
    BY <1>1, <2>1, <2>2 DEF Promise!vars
<1> QED
  BY <1>2, <1>3, <1>4

\* The steps that take no frame out.
LEMMA NoneTaken ==
  ASSUME RInv,
         \/ Record \/ GetNothing \/ GetFill \/ GetMissing \/ RepeatFrame \/ DropFrame
         \/ \E n \in Arrivals : PutIgnored(n) \/ PutNeverEnds(n)
         \/ \E n \in Arrivals, quiet \in BOOLEAN :
              PutFirst(n, quiet) \/ PutAfterFlush(n, quiet) \/ Put(n, quiet)
  PROVE  TakesNone
<1>1. gaps' = gaps \/ gaps' = gaps + 1
  BY DEF Record, GetNothing, GetFill, GetMissing, GetFrame, RepeatFrame, DropFrame, Correct,
         PutIgnored, PutNeverEnds, PutFirst, PutAfterFlush, Put, Receive
<1>2. UNCHANGED <<flush, floor, taken>>
  BY DEF Record, ghost, GetNothing, GetFill, GetMissing, GetFrame, RepeatFrame, DropFrame,
         Correct, PutIgnored, PutNeverEnds, PutFirst, PutAfterFlush, Put, Receive
<1>3. astray => astray'
  BY DEF Record, ghost, GetNothing, GetFill, GetMissing, GetFrame, RepeatFrame, DropFrame,
         PutIgnored, PutNeverEnds, PutFirst, PutAfterFlush, Put
<1> QED
  BY <1>1, <1>2, <1>3 DEF TakesNone, Promise!Corrected

LEMMA StepPromise ==
  ASSUME Room, RInv, RInv', [Next]_vars
  PROVE  [Promise!Next]_(Promise!vars)
<1>0. TypeOK'
  BY DEF RInv, IInv
<1>1. CASE UNCHANGED vars
  BY <1>1 DEF vars, ring, ghost, Promise!vars, Mode, Live, NextOut, Number, HeldBack, Holding,
              Floor
<1>2. CASE Record
  <2>1. ~Live
    BY <1>2 DEF Record, Live, RInv, Begun
  <2> QED
    BY <1>2, <2>1, NoneTaken, KeepPromise
<1>3. ASSUME NEW n \in Wanted, Flush(n)
      PROVE  Promise!Next \/ UNCHANGED Promise!vars
  BY <1>3, FlushQueue
<1>4. ASSUME NEW n \in Arrivals, PutIgnored(n) \/ PutNeverEnds(n)
      PROVE  Promise!Next
  <2>1. TakesNone
    BY <1>4, NoneTaken
  <2>2. PutNeverEnds(n) => ~Live
    BY DEF PutNeverEnds, Flushed, Live
  <2> QED
    BY <1>0, <1>4, <2>1, <2>2, KeepPromise, IgnoredQueue
<1>5. ASSUME NEW n \in Arrivals, NEW quiet \in BOOLEAN,
             PutFirst(n, quiet) \/ PutAfterFlush(n, quiet) \/ Put(n, quiet)
      PROVE  Promise!Next
  <2>1. TakesNone
    BY <1>5, NoneTaken
  <2>2. PutFirst(n, quiet) \/ PutAfterFlush(n, quiet) => ~Live
    BY DEF PutFirst, PutAfterFlush, Flushed, Live
  <2> QED
    BY <1>0, <1>5, <2>1, <2>2, KeepPromise, PutQueue
<1>6. CASE GetNothing \/ GetFill \/ GetMissing
  BY <1>0, <1>6, NoneTaken, KeepPromise, GetQueue
<1>7. CASE GetReady
  BY <1>7, ReadyQueue
<1>8. CASE RepeatFrame
  BY <1>0, <1>8, NoneTaken, KeepPromise, RepeatQueue
<1>9. CASE DropFrame
  BY <1>0, <1>9, NoneTaken, KeepPromise, DropQueue
<1> QED
  BY <1>1, <1>2, <1>3, <1>4, <1>5, <1>6, <1>7, <1>8, <1>9 DEF Next

LEMMA InitPromise == Room /\ Init => Promise!Init
<1> SUFFICES ASSUME Room, Init PROVE Promise!Init
  OBVIOUS
<1>1. ~Live /\ ~astray
  BY DEF Init, Live
<1>2. Mode = "closed" /\ NextOut = First /\ HeldBack = {}
  BY <1>1 DEF Mode, NextOut, HeldBack
<1> QED
  BY <1>2 DEF Init, Floor, Promise!Init

\* While it plays, the ring is a queue of the frames accepted: slots, flags and numbers that
\* wrap lose none from the middle, hear none twice and none out of order, whatever the
\* network does to the packets (buffer_put_packet, _buffer_get_frame, raopst_flush).
THEOREM RingKeepsPromise == Room => (Spec => KeepsPromise)
<1> SUFFICES ASSUME Room PROVE Spec => KeepsPromise
  OBVIOUS
<1>1. Init => Promise!Init
  BY InitPromise
<1>2. RInv /\ RInv' /\ [Next]_vars => [Promise!Next]_(Promise!vars)
  BY StepPromise
<1>3. Spec => []RInv
  BY RingInvariant
<1> QED
  BY <1>1, <1>2, <1>3, PTL DEF Spec, KeepsPromise, Promise!Spec
=============================================================================
