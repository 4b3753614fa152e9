--------------------------- MODULE RegistryProofs ---------------------------
(***************************************************************************)
(* Theorems about Registry, for any entities, names, sizes and answers.    *)
(* Types and lists hold whatever main and MainThread do.  The rest needs   *)
(* ~Overlap: that the slot chosen is still free when it is filled, hence   *)
(* that no target has a twin and what it is called, that a pass leaves     *)
(* what the answer says, and that a running server knows every target.     *)
(***************************************************************************)
EXTENDS Registry, FiniteSetTheorems, WellFoundedInduction, TLAPS

Distinct(l) == \A j, k \in 1..Len(l) : l[j].udn = l[k].udn => j = k

\* No answer names an entity twice.
Lists == \A t \in Threads : Distinct(entities[t])

\* What the last answer left of the hidden platforms it could not know of.
Filtered == \A k \in 1..Len(Answer) : Answer[k].udn \in Native => blind

\* A slot is chosen in the loop, for the entity at its index.
Picks ==
  \A t \in Threads : picked[t] # NoPick => pc[t] = "sync" /\ at[t] <= Len(entities[t])

IInv == TypeOK /\ Lists /\ Picks

Empty == \A i \in Slots : ~Running(i)

\* Who is at work: main before its first pass and in Stop, MainThread in between.
Turns ==
  /\ pc["main"] \in {"fetch", "sync"} => pc["mt"] = "sleep" /\ glMainRunning
  /\ pc["main"] = "idle" =>
       pc["mt"] # "gone" /\ (glMainRunning <=> pc["mt"] \notin {"flush", "start"})
  /\ pc["main"] \in {"flush", "join", "done"} =>
       ~glMainRunning /\ pc["mt"] \in {"sleep", "gone"}

\* What the loop has chosen is free, and right for the entity.
Chosen ==
  \A t \in Threads : picked[t] # NoPick =>
    /\ ~Running(picked[t].slot)
    /\ \A j \in Slots : slot[j].udn # Entity(t).udn
    /\ picked[t].force_name => ConfigName[Entity(t).udn] \in Names \union {NoName}

\* What FlushDevices has cleared stays clear until a refresh.
Cleared ==
  /\ \A t \in Threads : pc[t] = "flush" => \A i \in Slots : i < at[t] => ~Running(i)
  /\ pc["main"] \in {"fetch", "join", "done"} \/ pc["mt"] = "start" => Empty

Settled(e) == (\E i \in Slots : Has(i, e)) \/ e.udn \in Disabled \union refused

\* What a pass of t has done for the entities before its index.
Done(t) ==
  /\ last = t
  /\ \A i \in Slots : Running(i) => HAEntityListContainsUDN(entities[t], slot[i].udn)
  /\ \A k \in 1..Len(entities[t]) : k < at[t] => Settled(entities[t][k])

Matched ==
  /\ \A i \in Slots : Running(i) => HAEntityListContainsUDN(Answer, slot[i].udn)
  /\ \A k \in 1..Len(Answer) : Settled(Answer[k]) \/ \A i \in Slots : Running(i)

Progress ==
  /\ \A t \in Threads : pc[t] = "sync" => Done(t)
  /\ pc["main"] = "sync" =>
       \A i \in Slots : Running(i) =>
         \E k \in 1..Len(entities["main"]) :
           k < at["main"] /\ entities["main"][k].udn = slot[i].udn
  /\ pc["mt"] = "drop" =>
       /\ last = "mt"
       /\ \A i \in Slots : i < at["mt"] /\ Running(i) =>
            HAEntityListContainsUDN(entities["mt"], slot[i].udn)
  /\ pc["mt"] = "start" => last = "nobody"
  /\ pc["main"] = "idle" /\ pc["mt"] \in {"sleep", "check", "fetch"} => Matched

SInv == IInv /\ Turns /\ Chosen /\ NoTwins /\ AdvertisedName /\ Cleared /\ Advertised /\ Progress
-----------------------------------------------------------------------------
(* What ha_fetch_media_players returns.  Induction over the list goes by   *)
(* its least counterexample, which exists as < is well-founded on Nat.     *)

LEMMA Least ==
  ASSUME NEW T, T \subseteq Nat, T # {}
  PROVE  \E x \in T : \A y \in T : ~(y < x)
<1>1. PICK x \in T : \A y \in T : <<y, x>> \notin OpToRel(<, Nat)
  BY NatLessThanWellFounded, WFMin
<1> QED
  BY <1>1 DEF OpToRel

\* The loop of Kept as a function of the entities looked at, and one of its steps.
KeptStep(l, hidden, f, n) ==
  IF n = 0 THEN <<>>
  ELSE IF l[n].udn \in hidden THEN f[n - 1] ELSE Append(f[n - 1], l[n])
IsKept(l, hidden, m, f) == f = [n \in 0..m |-> KeptStep(l, hidden, f, n)]

LEMMA KeptLonger ==
  ASSUME NEW l, NEW hidden, NEW m \in Nat, m # 0, NEW f, IsKept(l, hidden, m - 1, f)
  PROVE  \E g : IsKept(l, hidden, m, g)
<1> DEFINE g == [n \in 0..m |-> IF n = m THEN KeptStep(l, hidden, f, m) ELSE f[n]]
<1>1. ASSUME NEW n \in 0..m
      PROVE  g[n] = KeptStep(l, hidden, g, n)
  <2>1. g[n] = KeptStep(l, hidden, f, n)
    <3>1. CASE n = m
      BY <3>1
    <3>2. CASE n # m
      <4>1. n \in 0..(m - 1)
        BY <3>2
      <4>2. f[n] = KeptStep(l, hidden, f, n)
        BY <4>1 DEF IsKept
      <4> QED
        BY <3>2, <4>2
    <3> QED
      BY <3>1, <3>2
  <2>2. CASE n = 0
    BY <2>1, <2>2 DEF KeptStep
  <2>3. CASE n # 0
    <3>1. n - 1 \in 0..m /\ n - 1 # m
      BY <2>3
    <3>2. g[n - 1] = f[n - 1]
      BY <3>1
    <3> HIDE DEF g
    <3> QED
      BY <2>1, <3>2 DEF KeptStep
  <2> QED
    BY <2>2, <2>3
<1> HIDE DEF g
<1>2. g = [n \in 0..m |-> g[n]]
  BY DEF g
<1>3. g = [n \in 0..m |-> KeptStep(l, hidden, g, n)]
  BY <1>1, <1>2
<1> QED
  BY <1>3 DEF IsKept

LEMMA KeptExists ==
  ASSUME NEW l, NEW hidden, NEW m \in Nat
  PROVE  \E f : IsKept(l, hidden, m, f)
<1> DEFINE Bad == {n \in Nat : ~ \E f : IsKept(l, hidden, n, f)}
<1> SUFFICES ASSUME Bad # {} PROVE FALSE
  OBVIOUS
<1>1. PICK n \in Bad : \A y \in Bad : ~(y < n)
  BY Least
<1>2. n \in Nat /\ ~ \E f : IsKept(l, hidden, n, f)
  OBVIOUS
<1>3. CASE n = 0
  <2> DEFINE g == [i \in 0..0 |-> <<>>]
  <2>1. IsKept(l, hidden, 0, g)
    BY DEF IsKept, KeptStep
  <2> QED
    BY <1>2, <1>3, <2>1
<1>4. CASE n # 0
  <2>1. n - 1 \in Nat /\ n - 1 < n
    BY <1>2, <1>4
  <2>2. PICK f : IsKept(l, hidden, n - 1, f)
    BY <1>1, <2>1
  <2> QED
    BY <1>2, <1>4, <2>2, KeptLonger
<1> QED
  BY <1>3, <1>4

\* What is kept of the first n entities.
KeptFact(l, hidden, s, n) ==
  /\ s \in Seq(Listed) /\ Len(s) <= n
  /\ \A k \in 1..Len(s) : s[k].udn \notin hidden /\ \E j \in 1..n : s[k] = l[j]
  /\ Distinct(s)

LEMMA KeptFactStep ==
  ASSUME NEW l \in Seq(Listed), Distinct(l), NEW hidden, NEW n \in 1..Len(l),
         NEW s, KeptFact(l, hidden, s, n - 1)
  PROVE  KeptFact(l, hidden, IF l[n].udn \in hidden THEN s ELSE Append(s, l[n]), n)
<1>1. /\ n \in Nat /\ n - 1 \in Nat /\ Len(s) \in Nat /\ l[n] \in Listed
      /\ 1..(n - 1) \subseteq 1..n /\ n \in 1..n
  BY DEF KeptFact
<1>2. CASE l[n].udn \in hidden
  BY <1>1, <1>2 DEF KeptFact
<1>3. CASE l[n].udn \notin hidden
  <2> DEFINE t == Append(s, l[n])
  <2>1. /\ t \in Seq(Listed) /\ Len(t) = Len(s) + 1 /\ Len(t) <= n
        /\ \A k \in 1..Len(s) : t[k] = s[k]
        /\ t[Len(s) + 1] = l[n]
    BY <1>1 DEF KeptFact
  <2>2. \A k \in 1..Len(s) : \E j \in 1..(n - 1) : s[k] = l[j]
    BY DEF KeptFact
  <2>3. \A k \in 1..Len(s) : s[k].udn # l[n].udn
    <3> SUFFICES ASSUME NEW k \in 1..Len(s), s[k].udn = l[n].udn PROVE FALSE
      OBVIOUS
    <3>1. PICK j \in 1..(n - 1) : s[k] = l[j]
      BY <2>2
    <3>2. j \in 1..Len(l) /\ j # n
      OBVIOUS
    <3> QED
      BY <3>1, <3>2 DEF Distinct
  <2> HIDE DEF t
  <2>4. ASSUME NEW k \in 1..Len(t)
        PROVE  k \in 1..Len(s) \/ k = Len(s) + 1
    BY <2>1, <1>1
  <2>5. \A k \in 1..Len(t) : t[k].udn \notin hidden /\ \E j \in 1..n : t[k] = l[j]
    <3> TAKE k \in 1..Len(t)
    <3>1. CASE k \in 1..Len(s)
      BY <3>1, <2>1, <2>2, <1>1 DEF KeptFact
    <3>2. CASE k = Len(s) + 1
      BY <3>2, <2>1, <1>3, <1>1
    <3> QED
      BY <2>4, <3>1, <3>2
  <2>6. Distinct(t)
    <3> SUFFICES ASSUME NEW j \in 1..Len(t), NEW k \in 1..Len(t), t[j].udn = t[k].udn
                 PROVE  j = k
      BY DEF Distinct
    <3>1. CASE j \in 1..Len(s) /\ k \in 1..Len(s)
      BY <3>1, <2>1 DEF KeptFact, Distinct
    <3>2. CASE j = Len(s) + 1 /\ k \in 1..Len(s)
      BY <3>2, <2>1, <2>3
    <3>3. CASE j \in 1..Len(s) /\ k = Len(s) + 1
      BY <3>3, <2>1, <2>3
    <3> QED
      BY <2>4, <3>1, <3>2, <3>3
  <2> QED
    BY <1>3, <2>1, <2>5, <2>6 DEF KeptFact, t
<1> QED
  BY <1>2, <1>3

\* ha_fetch_media_players keeps entities of the answer, none twice and none it
\* knows to be hidden.
LEMMA KeptIsRight ==
  ASSUME NEW l \in Seq(Listed), Distinct(l), NEW hidden
  PROVE  KeptFact(l, hidden, Kept(l, hidden), Len(l))
<1>0. Len(l) \in Nat /\ \E g : IsKept(l, hidden, Len(l), g)
  <2>1. Len(l) \in Nat
    OBVIOUS
  <2> QED
    BY <2>1, KeptExists
<1> DEFINE f == CHOOSE f : IsKept(l, hidden, Len(l), f)
<1>1. IsKept(l, hidden, Len(l), f)
  BY <1>0
<1>2. Kept(l, hidden) = f[Len(l)]
  BY DEF Kept, IsKept, KeptStep
<1> HIDE DEF f
<1> DEFINE Bad == {n \in Nat : n <= Len(l) /\ ~KeptFact(l, hidden, f[n], n)}
<1>3. Bad = {}
  <2> SUFFICES ASSUME Bad # {} PROVE FALSE
    OBVIOUS
  <2>1. PICK n \in Bad : \A y \in Bad : ~(y < n)
    BY Least
  <2>2. n \in 0..Len(l) /\ ~KeptFact(l, hidden, f[n], n)
    BY <1>0
  <2>3. f[n] = KeptStep(l, hidden, f, n)
    BY <1>1, <2>2 DEF IsKept
  <2>4. CASE n = 0
    BY <2>2, <2>3, <2>4 DEF KeptStep, KeptFact, Distinct
  <2>5. CASE n # 0
    <3>1. n - 1 \in Nat /\ n - 1 <= Len(l) /\ n - 1 < n /\ n \in 1..Len(l)
      BY <2>2, <2>5
    <3>2. KeptFact(l, hidden, f[n - 1], n - 1)
      BY <2>1, <3>1
    <3> QED
      BY <2>2, <2>3, <2>5, <3>1, <3>2, KeptFactStep DEF KeptStep
  <2> QED
    BY <2>4, <2>5
<1> QED
  BY <1>2, <1>3

\* What a fetch leaves its thread: a list of the entities listed, within the array, none
\* twice, and of the hidden ones none it knows.
LEMMA FetchLeaves ==
  ASSUME NEW l \in StateLists, NEW hidden
  PROVE  LET s == Kept(Parsed(l), hidden)
         IN /\ s \in Seq(Listed) /\ Len(s) <= MaxRenderers /\ Distinct(s)
            /\ \A k \in 1..Len(s) : s[k].udn \notin hidden
            /\ l = <<>> => s = <<>>
<1>1. l \in Seq(Listed) /\ Distinct(l)
  <2>1. PICK n \in 0..MaxListed : l \in [1..n -> Listed]
    BY DEF StateLists
  <2>2. l \in Seq(Listed) /\ Len(l) = n
    BY <2>1, RegistryAssumption
  <2> QED
    BY <2>1, <2>2 DEF StateLists, Distinct
<1> DEFINE p == Parsed(l)
<1>2. p \in Seq(Listed) /\ Len(p) <= MaxRenderers /\ Len(p) <= Len(l) /\ Distinct(p)
  <2> DEFINE m == Lesser(Len(l), MaxRenderers)
  <2>1. m \in Nat /\ m <= Len(l) /\ m <= MaxRenderers
    BY <1>1, RegistryAssumption DEF Lesser
  <2>2. p = SubSeq(l, 1, m)
    BY DEF Parsed
  <2> HIDE DEF m, p
  <2>3. p \in Seq(Listed) /\ Len(p) = m /\ \A k \in 1..m : p[k] = l[k]
    BY <1>1, <2>1, <2>2
  <2>4. \A k \in 1..m : k \in 1..Len(l)
    BY <1>1, <2>1
  <2> QED
    BY <1>1, <2>1, <2>3, <2>4 DEF Distinct
<1>3. KeptFact(p, hidden, Kept(p, hidden), Len(p))
  BY <1>2, KeptIsRight
<1> HIDE DEF p
<1>4. l = <<>> => Kept(p, hidden) = <<>>
  BY <1>1, <1>2, <1>3 DEF KeptFact
<1> QED
  BY <1>2, <1>3, <1>4, RegistryAssumption DEF KeptFact, p

-----------------------------------------------------------------------------
(* What the steps do to the slots.                                         *)

Target == [udn : Entities, name : Names, shown : Shown]

LEMMA SlotFacts ==
  ASSUME TypeOK, NEW i \in Slots
  PROVE  /\ slot[i] \in Target \/ slot[i] = Free
         /\ Running(i) <=> slot[i] \in Target
         /\ Running(i) <=> slot[i].udn # Nobody
         /\ Running(i) <=> slot[i].udn \in Entities
BY RegistryAssumption DEF TypeOK, Target, Free, Running

\* AddHADevice leaves a target or nothing in the slot, whatever it held.
LEMMA AddTypes ==
  ASSUME TypeOK, NEW i \in Slots, NEW e \in Listed, NEW force \in BOOLEAN,
         AddHADevice(i, e, force)
  PROVE  /\ slot' \in [Slots -> Target \union {Free}]
         /\ refused' \subseteq Entities /\ advertised' \subseteq Slots
<1>1. /\ e.udn \in Entities /\ e.name \in Names /\ refused \subseteq Entities
      /\ advertised \subseteq Slots /\ slot \in [Slots -> Target \union {Free}]
      /\ e.name \in Shown /\ ConfigName[e.udn] \in Shown
  BY DEF Listed, TypeOK, Target, Shown
<1> DEFINE s == [udn |-> e.udn, name |-> e.name,
                 shown |-> IF force \/ ConfigName[e.udn] = NoName
                             THEN e.name ELSE ConfigName[e.udn]]
<1>2. CASE slot' = [slot EXCEPT ![i] = s] /\ refused' = refused
           /\ advertised' \subseteq advertised \union {i}
  <2>1. s \in Target
    BY <1>1 DEF Target
  <2> QED
    BY <1>1, <1>2, <2>1
<1>3. CASE slot' = [slot EXCEPT ![i] = Free] /\ refused' = refused \union {e.udn}
           /\ UNCHANGED advertised
  BY <1>1, <1>3
<1>4. CASE /\ slot' = IF Running(i) THEN [slot EXCEPT ![i].shown = ConfigName[e.udn]] ELSE slot
           /\ UNCHANGED <<advertised, refused>>
  <2>1. CASE ~Running(i)
    BY <1>1, <1>4, <2>1
  <2>2. CASE Running(i)
    <3>1. slot[i] \in Target /\ slot' = [slot EXCEPT ![i].shown = ConfigName[e.udn]]
      BY <1>4, <2>2, SlotFacts
    <3>2. [slot[i] EXCEPT !.shown = ConfigName[e.udn]] \in Target
      BY <1>1, <3>1 DEF Target
    <3> QED
      BY <1>1, <1>4, <3>1, <3>2
  <2> QED
    BY <2>1, <2>2
<1> QED
  BY <1>2, <1>3, <1>4 DEF AddHADevice

\* Of a free slot it makes the entity's target, or nothing, and it touches no other.
LEMMA Adds ==
  ASSUME TypeOK, NEW i \in Slots, NEW e \in Listed, NEW force \in BOOLEAN,
         ~Running(i), AddHADevice(i, e, force)
  PROVE  /\ \/ /\ slot' = [slot EXCEPT ![i] = Free]
               /\ e.udn \in Disabled \union refused'
            \/ \E s \in Target :
                 /\ slot' = [slot EXCEPT ![i] = s]
                 /\ s.udn = e.udn /\ s.name = e.name
                 /\ s.shown = IF force \/ ConfigName[e.udn] = NoName
                                THEN e.name ELSE ConfigName[e.udn]
         /\ refused \subseteq refused'
<1>1. /\ e.udn \in Entities /\ e.name \in Names /\ refused \subseteq Entities
      /\ e.name \in Shown /\ ConfigName[e.udn] \in Shown
      /\ slot \in [Slots -> Target \union {Free}]
  BY DEF Listed, TypeOK, Target, Shown
<1> DEFINE s == [udn |-> e.udn, name |-> e.name,
                 shown |-> IF force \/ ConfigName[e.udn] = NoName
                             THEN e.name ELSE ConfigName[e.udn]]
<1>2. CASE /\ e.udn \notin Disabled
           /\ slot' = [slot EXCEPT ![i] = s] /\ refused' = refused
  <2>1. s \in Target
    BY <1>1 DEF Target
  <2> QED
    BY <1>1, <1>2, <2>1
<1>3. CASE slot' = [slot EXCEPT ![i] = Free] /\ refused' = refused \union {e.udn}
  BY <1>1, <1>3
<1>4. CASE e.udn \in Disabled /\ slot' = slot /\ refused' = refused
  <2>1. slot[i] = Free
    BY DEF Running
  <2>2. slot = [slot EXCEPT ![i] = Free]
    BY <1>1, <2>1
  <2> QED
    BY <1>4, <2>2
<1> QED
  BY <1>2, <1>3, <1>4 DEF AddHADevice

LEMMA EntityListed ==
  ASSUME TypeOK, Picks, NEW t \in Threads, Looping(t) \/ picked[t] # NoPick
  PROVE  /\ at[t] \in 1..Len(entities[t]) /\ Entity(t) \in Listed
         /\ Entity(t).udn \in Entities /\ Entity(t).name \in Names
<1>1. entities[t] \in Seq(Listed) /\ at[t] \in Nat /\ at[t] >= 1 /\ at[t] <= Len(entities[t])
  BY RegistryAssumption DEF TypeOK, Looping, Picks
<1>2. at[t] \in 1..Len(entities[t])
  BY <1>1
<1>3. Entity(t) \in Listed
  BY <1>1, <1>2 DEF Entity
<1> QED
  BY <1>2, <1>3 DEF Listed

\* The slot chosen, and force_name.
LEMMA PickFacts ==
  ASSUME TypeOK, NEW t \in Threads, picked[t] # NoPick
  PROVE  picked[t].slot \in Slots /\ picked[t].force_name \in BOOLEAN
BY DEF TypeOK

\* One slot at most changes: it is freed, filled with an entity that has no target yet,
\* or its entity gets another name.
Fills(i, e, s) ==
  /\ slot' = [slot EXCEPT ![i] = s] /\ s.udn = e.udn /\ s.name = e.name
  /\ \/ /\ \A j \in Slots : slot[j].udn # e.udn
        /\ \/ s.shown = IF ConfigName[e.udn] = NoName THEN e.name ELSE ConfigName[e.udn]
           \/ ConfigName[e.udn] \in Names \union {NoName} /\ s.shown = e.name
     \/ slot[i].udn = e.udn /\ slot[i].shown # slot[i].name /\ s.shown = slot[i].shown

Moves ==
  \/ slot' = slot
  \/ \E i \in Slots : slot' = [slot EXCEPT ![i] = Free]
  \/ \E i \in Slots, e \in Listed, s \in Target : Fills(i, e, s)

\* The steps that leave the slots alone.
LEMMA SlotsStay ==
  ASSUME [Next]_vars
  PROVE  \/ slot' = slot
         \/ DropStep \/ RenameRemoves \/ RenameRemembers
         \/ \E t \in Threads : FillSlot(t) \/ FlushStep(t)
BY DEF Next, MainSteps, MainThread, Stopping, Sync, Threads, AddFetch, RefreshFetch, Fetch,
       RefreshFetchFails, AddFetchFails, PickSlot, NoSlotLeft, AlreadyThere, SyncEnd, DropEnd,
       WakeUp, SameAddress, AddressChanged, FlushEnd, Restart, RestartFails, Stop, StopJoins,
       vars

\* RenameRemembers at its slot.
LEMMA Remembers ==
  ASSUME TypeOK, Picks, RenameRemembers
  PROVE  \E i \in Slots, s \in Target :
           /\ slot[i] \in Target /\ Fills(i, Entity("mt"), s)
           /\ slot[i].udn = Entity("mt").udn /\ Entity("mt") \in Listed
<1>1. PICK i \in Slots :
        /\ Renamed(i) /\ ~AutoNamed(i)
        /\ slot' = [slot EXCEPT ![i].name = Entity("mt").name]
  BY DEF RenameRemembers
<1>2. /\ Entity("mt") \in Listed /\ Entity("mt").udn \in Entities
      /\ Entity("mt").name \in Names /\ slot[i].udn = Entity("mt").udn
  BY <1>1, EntityListed DEF Renamed, SearchUDN, Threads
<1> DEFINE s == [slot[i] EXCEPT !.name = Entity("mt").name]
<1>3. slot[i] \in Target
  BY <1>2, SlotFacts
<1>4. s \in Target /\ s.udn = slot[i].udn /\ s.name = Entity("mt").name
      /\ s.shown = slot[i].shown
  BY <1>2, <1>3 DEF Target
<1>5. slot' = [slot EXCEPT ![i] = s]
  BY <1>1
<1> HIDE DEF s
<1>6. Fills(i, Entity("mt"), s)
  BY <1>1, <1>2, <1>4, <1>5 DEF Fills, AutoNamed
<1> QED
  BY <1>2, <1>3, <1>4, <1>6

LEMMA SlotMoves ==
  ASSUME TypeOK, Picks, Chosen, [Next]_vars
  PROVE  Moves
<1>1. ASSUME NEW t \in Threads, FillSlot(t)
      PROVE  Moves
  <2> DEFINE i == picked[t].slot
             e == Entity(t)
             force == picked[t].force_name
  <2>1. /\ picked[t] # NoPick /\ AddHADevice(i, e, force)
        /\ i \in Slots /\ force \in BOOLEAN /\ e \in Listed
    BY <1>1, EntityListed, PickFacts DEF FillSlot
  <2>2. /\ ~Running(i) /\ \A j \in Slots : slot[j].udn # e.udn
        /\ force => ConfigName[e.udn] \in Names \union {NoName}
    BY <2>1 DEF Chosen
  <2> HIDE DEF i, e, force
  <2>3. CASE slot' = [slot EXCEPT ![i] = Free]
    BY <2>1, <2>3 DEF Moves
  <2>4. CASE slot' # [slot EXCEPT ![i] = Free]
    <3>1. PICK s \in Target :
              /\ slot' = [slot EXCEPT ![i] = s]
              /\ s.udn = e.udn /\ s.name = e.name
              /\ s.shown = IF force \/ ConfigName[e.udn] = NoName
                             THEN e.name ELSE ConfigName[e.udn]
      BY <2>1, <2>2, <2>4, Adds
    <3>2. Fills(i, e, s)
      BY <2>2, <3>1 DEF Fills
    <3> QED
      BY <2>1, <3>2 DEF Moves
  <2> QED
    BY <2>3, <2>4
<1>2. CASE RenameRemoves
  BY <1>2 DEF RenameRemoves, Moves
<1>3. CASE RenameRemembers
  BY <1>3, Remembers DEF Moves
<1>4. CASE DropStep
  <2>1. at["mt"] \in Slots
    BY <1>4, RegistryAssumption DEF DropStep, TypeOK, Slots, Threads
  <2> QED
    BY <1>4, <2>1 DEF DropStep, Moves
<1>5. ASSUME NEW t \in Threads, FlushStep(t)
      PROVE  Moves
  <2>1. at[t] \in Slots
    BY <1>5, RegistryAssumption DEF FlushStep, TypeOK, Slots, Threads
  <2> QED
    BY <1>5, <2>1 DEF FlushStep, Moves
<1> QED
  BY <1>1, <1>2, <1>3, <1>4, <1>5, SlotsStay DEF Moves

-----------------------------------------------------------------------------
(* Types, lists and picks: whoever is at work.                             *)

\* No list changes but by a fetch.
LEMMA ListsChange ==
  ASSUME [Next]_vars
  PROVE  \/ UNCHANGED <<entities, blind>>
            /\ (last' = last \/ last' = "nobody")
         \/ \E t \in Threads, next \in {"sync", "drop"} : Fetch(t, next)
BY DEF Next, MainSteps, MainThread, Stopping, Sync, Threads, AddFetch, AddFetchFails, PickSlot,
       FillSlot, NoSlotLeft, AlreadyThere, SyncEnd, WakeUp, SameAddress, AddressChanged,
       FlushStep, FlushEnd, Restart, RestartFails, RefreshFetch, RefreshFetchFails, DropStep,
       DropEnd, RenameRemoves, RenameRemembers, Stop, StopJoins, vars, history

LEMMA SlotTypes ==
  ASSUME TypeOK, Picks, [Next]_vars
  PROVE  slot' \in [Slots -> Target \union {Free}]
<1>0. slot \in [Slots -> Target \union {Free}]
  BY DEF TypeOK, Target
<1>1. ASSUME NEW t \in Threads, FillSlot(t)
      PROVE  slot' \in [Slots -> Target \union {Free}]
  BY <1>1, EntityListed, PickFacts, AddTypes DEF FillSlot
<1>2. CASE RenameRemembers
  BY <1>0, <1>2, Remembers DEF Fills
<1>3. CASE RenameRemoves
  BY <1>0, <1>3 DEF RenameRemoves
<1>4. CASE DropStep
  BY <1>0, <1>4 DEF DropStep
<1>5. ASSUME NEW t \in Threads, FlushStep(t)
      PROVE  slot' \in [Slots -> Target \union {Free}]
  BY <1>0, <1>5 DEF FlushStep
<1> QED
  BY <1>0, <1>1, <1>2, <1>3, <1>4, <1>5, SlotsStay

LEMMA PicksStep ==
  ASSUME TypeOK, Picks, [Next]_vars
  PROVE  Picks'
<1> SUFFICES ASSUME NEW t \in Threads, picked'[t] # NoPick
             PROVE  pc'[t] = "sync" /\ at'[t] <= Len(entities'[t])
  BY DEF Picks
<1>0. picked \in [Threads -> [slot : Slots, force_name : BOOLEAN] \union {NoPick}]
      /\ pc \in [Threads -> MainPlaces \union MtPlaces]
  BY DEF TypeOK
<1>1. ASSUME NEW u \in Threads, NEW next, GoTo(u, next), picked[t] # NoPick, u # t
      PROVE  pc'[t] = pc[t] /\ at'[t] = at[t]
  BY <1>0, <1>1 DEF GoTo, TypeOK
<1>2. ASSUME NEW u \in Threads, Advance(u), u # t
      PROVE  pc'[t] = pc[t] /\ at'[t] = at[t]
  BY <1>2 DEF Advance, TypeOK
<1>3. ASSUME NEW u \in Threads, NEW next, GoTo(u, next)
      PROVE  u # t /\ picked'[t] = picked[t]
  BY <1>0, <1>3 DEF GoTo
<1>4. ASSUME NEW u \in Threads, Advance(u)
      PROVE  u # t /\ picked'[t] = picked[t]
  BY <1>0, <1>4 DEF Advance
<1>5. ASSUME NEW u \in Threads, NEW next, Fetch(u, next)
      PROVE  pc'[t] = "sync" /\ at'[t] <= Len(entities'[t])
  <2>1. u # t /\ picked[t] # NoPick /\ pc'[t] = pc[t] /\ at'[t] = at[t]
    BY <1>1, <1>3, <1>5 DEF Fetch
  <2>2. pc[t] = "sync" /\ at[t] <= Len(entities[t])
    BY <2>1 DEF Picks
  <2>3. entities'[t] = entities[t]
    BY <1>5, <2>1, <2>2 DEF Fetch
  <2> QED
    BY <2>1, <2>2, <2>3
<1>6. ASSUME NEW u \in Threads, NEW next, GoTo(u, next), entities' = entities
      PROVE  pc'[t] = "sync" /\ at'[t] <= Len(entities'[t])
  BY <1>1, <1>3, <1>6 DEF Picks
<1>7. ASSUME NEW u \in Threads, Advance(u), entities' = entities
      PROVE  pc'[t] = "sync" /\ at'[t] <= Len(entities'[t])
  BY <1>2, <1>4, <1>7 DEF Picks
<1>8. ASSUME NEW u \in Threads, PickSlot(u)
      PROVE  pc'[t] = "sync" /\ at'[t] <= Len(entities'[t])
  <2>1. CASE u = t
    BY <1>8, <2>1 DEF PickSlot, Looping
  <2>2. CASE u # t
    <3>1. picked'[t] = picked[t]
      BY <1>0, <1>8, <2>2 DEF PickSlot
    <3> QED
      BY <1>8, <3>1 DEF PickSlot, Picks
  <2> QED
    BY <2>1, <2>2
<1>9. CASE RenameRemoves
  <2>1. CASE t = "mt"
    BY <1>9, <2>1 DEF RenameRemoves, Renamed, Looping
  <2>2. CASE t # "mt"
    <3>1. picked'[t] = picked[t]
      BY <1>0, <1>9, <2>2 DEF RenameRemoves
    <3> QED
      BY <1>9, <3>1 DEF RenameRemoves, Picks
  <2> QED
    BY <2>1, <2>2
<1>10. CASE UNCHANGED vars
  BY <1>10 DEF vars, Picks
<1>11. ASSUME NEW u \in Threads, Sync(u) \/ FlushStep(u) \/ FlushEnd(u)
       PROVE  pc'[t] = "sync" /\ at'[t] <= Len(entities'[t])
  <2>1. CASE PickSlot(u)
    BY <1>8, <2>1
  <2>2. CASE FillSlot(u) \/ AlreadyThere(u) \/ FlushStep(u)
    BY <1>7, <2>2 DEF FillSlot, AlreadyThere, FlushStep
  <2>3. CASE NoSlotLeft(u) \/ SyncEnd(u)
    BY <1>6, <2>3 DEF NoSlotLeft, SyncEnd
  <2>4. CASE FlushEnd(u)
    BY <1>6, <2>4 DEF FlushEnd
  <2> QED
    BY <1>11, <2>1, <2>2, <2>3, <2>4 DEF Sync
<1>12. CASE AddFetch \/ RefreshFetch
  BY <1>5, <1>12 DEF AddFetch, RefreshFetch, Threads
<1>13. CASE RefreshFetchFails \/ AddFetchFails \/ DropEnd \/ WakeUp \/ SameAddress
            \/ AddressChanged \/ Restart \/ RestartFails \/ Stop \/ StopJoins
  <2>1. entities' = entities /\ \E u \in Threads, next \in MainPlaces \union MtPlaces : GoTo(u, next)
    BY <1>13
       DEF RefreshFetchFails, AddFetchFails, DropEnd, WakeUp, SameAddress, AddressChanged,
           Restart, RestartFails, Stop, StopJoins, PassEnd, Threads, MainPlaces, MtPlaces
  <2> QED
    BY <1>6, <2>1
<1>14. CASE DropStep \/ RenameRemembers
  BY <1>7, <1>14 DEF DropStep, RenameRemembers, Threads
<1> QED
  BY <1>9, <1>10, <1>11, <1>12, <1>13, <1>14
     DEF Next, MainSteps, MainThread, Stopping, Threads

LEMMA TypeStep ==
  ASSUME TypeOK, Picks, [Next]_vars
  PROVE  TypeOK'
<1>1. slot' \in [Slots -> Target \union {Free}]
  BY SlotTypes
<1>2. /\ MaxDevices \in Nat /\ MaxRenderers \in Nat
      /\ \A t \in Threads : PassEnd(t) \in IF t = "main" THEN MainPlaces ELSE MtPlaces
  BY RegistryAssumption DEF PassEnd, MainPlaces, MtPlaces
<1> DEFINE Places == /\ pc' \in [Threads -> MainPlaces \union MtPlaces]
                     /\ pc'["main"] \in MainPlaces /\ pc'["mt"] \in MtPlaces
                     /\ at' \in [Threads -> 1..(MaxDevices + MaxRenderers + 1)]
                     /\ picked' \in [Threads -> [slot : Slots, force_name : BOOLEAN]
                                                \union {NoPick}]
           Lists1 == /\ entities' \in [Threads -> Seq(Listed)]
                     /\ \A t \in Threads : Len(entities'[t]) <= MaxRenderers
           Rest   == /\ glMainRunning' \in BOOLEAN /\ mutexes' \in BOOLEAN
                     /\ glmDNSServer' \in {"up", "down"} /\ advertised' \subseteq Slots
                     /\ last' \in Threads \union {"nobody"} /\ blind' \in BOOLEAN
                     /\ refused' \subseteq Entities
<1>3. ASSUME NEW t \in Threads, NEW next \in IF t = "main" THEN MainPlaces ELSE MtPlaces,
             GoTo(t, next)
      PROVE  Places
  <2>1. 1 \in 1..(MaxDevices + MaxRenderers + 1)
    BY <1>2
  <2> QED
    BY <1>3, <2>1 DEF GoTo, TypeOK, Threads
<1>4. ASSUME NEW t \in Threads, Advance(t),
             at[t] <= MaxDevices \/ at[t] <= Len(entities[t])
      PROVE  Places
  <2>1. at[t] + 1 \in 1..(MaxDevices + MaxRenderers + 1)
    BY <1>2, <1>4 DEF TypeOK
  <2> QED
    BY <1>4, <2>1 DEF Advance, TypeOK
<1> HIDE DEF Places
<1>5. Places
  <2>1. ASSUME NEW t \in Threads, FillSlot(t) \/ AlreadyThere(t)
        PROVE  Places
    BY <2>1, <1>4 DEF FillSlot, AlreadyThere, Looping, Picks
  <2>2. CASE RenameRemembers
    BY <2>2, <1>4 DEF RenameRemembers, Renamed, Looping, Threads
  <2>3. CASE DropStep
    BY <2>3, <1>4 DEF DropStep, Threads
  <2>4. ASSUME NEW t \in Threads, FlushStep(t)
        PROVE  Places
    BY <2>4, <1>4 DEF FlushStep
  <2>5. ASSUME NEW t \in Threads, NoSlotLeft(t) \/ SyncEnd(t)
        PROVE  Places
    BY <2>5, <1>2, <1>3 DEF NoSlotLeft, SyncEnd
  <2>6. ASSUME NEW t \in Threads, FlushEnd(t)
        PROVE  Places
    BY <2>6, <1>3 DEF FlushEnd, Threads, MainPlaces, MtPlaces
  <2>7. CASE AddFetch \/ AddFetchFails \/ Stop \/ StopJoins
    BY <2>7, <1>3
       DEF AddFetch, Fetch, AddFetchFails, Stop, StopJoins, Threads, MainPlaces
  <2>8. CASE RefreshFetch \/ RefreshFetchFails \/ DropEnd \/ WakeUp \/ SameAddress \/
             AddressChanged \/ Restart \/ RestartFails
    <3>1. PICK next \in MtPlaces : GoTo("mt", next)
      BY <2>8, <1>2
         DEF RefreshFetch, Fetch, RefreshFetchFails, DropEnd, WakeUp, SameAddress,
             AddressChanged, Restart, RestartFails, Threads, MtPlaces
    <3> QED
      BY <3>1, <1>3 DEF Threads
  <2>9. CASE UNCHANGED vars
    BY <2>9 DEF vars, TypeOK, Places
  <2>10. ASSUME NEW t \in Threads, PickSlot(t)
         PROVE  Places
    <3>1. PICK i \in Slots : picked' = [picked EXCEPT ![t] = [slot |-> i, force_name |-> FALSE]]
      BY <2>10 DEF PickSlot
    <3>2. [slot |-> i, force_name |-> FALSE] \in [slot : Slots, force_name : BOOLEAN]
      OBVIOUS
    <3> QED
      BY <2>10, <3>1, <3>2 DEF PickSlot, TypeOK, Places
  <2>11. CASE RenameRemoves
    <3>1. PICK i \in Slots : picked' = [picked EXCEPT !["mt"] = [slot |-> i, force_name |-> TRUE]]
      BY <2>11 DEF RenameRemoves
    <3>2. [slot |-> i, force_name |-> TRUE] \in [slot : Slots, force_name : BOOLEAN]
      OBVIOUS
    <3> QED
      BY <2>11, <3>1, <3>2 DEF RenameRemoves, TypeOK, Places
  <2> QED
    BY <2>1, <2>2, <2>3, <2>4, <2>5, <2>6, <2>7, <2>8, <2>9, <2>10, <2>11
       DEF Next, MainSteps, MainThread, Stopping, Sync, Threads
<1>6. Lists1
  <2>1. ASSUME NEW t \in Threads, NEW next, Fetch(t, next)
        PROVE  Lists1
    <3>1. PICK l \in StateLists, hidden \in SUBSET Native :
            entities' = [s \in Threads |->
              IF s = t THEN Kept(Parsed(l), hidden)
              ELSE IF pc[s] \in {"drop", "sync"} THEN entities[s] ELSE <<>>]
      BY <2>1 DEF Fetch, HiddenIds
    <3>2. /\ Kept(Parsed(l), hidden) \in Seq(Listed)
          /\ Len(Kept(Parsed(l), hidden)) <= MaxRenderers
      BY FetchLeaves
    <3>3. <<>> \in Seq(Listed) /\ Len(<<>>) <= MaxRenderers
      BY <1>2
    <3> QED
      BY <3>1, <3>2, <3>3 DEF TypeOK
  <2>2. CASE entities' = entities
    BY <2>2 DEF TypeOK
  <2>3. \/ entities' = entities
        \/ \E t \in Threads, next \in {"sync", "drop"} : Fetch(t, next)
    BY ListsChange
  <2> QED
    BY <2>1, <2>2, <2>3
<1>7. Rest
  <2>1. ASSUME NEW t \in Threads, FillSlot(t)
        PROVE  Rest
    <3>1. refused' \subseteq Entities /\ advertised' \subseteq Slots
      BY <2>1, EntityListed, PickFacts, AddTypes DEF FillSlot
    <3> QED
      BY <2>1, <3>1 DEF FillSlot, TypeOK
  <2>2. CASE RenameRemoves \/ RenameRemembers
    BY <2>2 DEF RenameRemoves, RenameRemembers, server, history, TypeOK
  <2>3. ASSUME NEW t \in Threads, NEW next, Fetch(t, next)
        PROVE  Rest
    BY <2>3 DEF Fetch, server, TypeOK
  <2>4. ASSUME NEW t \in Threads, FlushEnd(t)
        PROVE  Rest
    BY <2>4 DEF FlushEnd, TypeOK
  <2>5. ASSUME NEW t \in Threads,
               PickSlot(t) \/ NoSlotLeft(t) \/ AlreadyThere(t) \/ SyncEnd(t) \/ FlushStep(t)
        PROVE  Rest
    BY <2>5 DEF PickSlot, NoSlotLeft, AlreadyThere, SyncEnd, FlushStep, server, history, TypeOK
  <2>6. CASE AddFetchFails \/ RefreshFetchFails \/ DropStep \/ DropEnd \/ WakeUp \/
             SameAddress \/ AddressChanged \/ Restart \/ RestartFails \/ Stop \/ StopJoins \/
             UNCHANGED vars
    BY <2>6
       DEF AddFetchFails, RefreshFetchFails, DropStep, DropEnd, WakeUp, SameAddress,
           AddressChanged, Restart, RestartFails, Stop, StopJoins, vars, server, history, TypeOK
  <2> QED
    BY <2>1, <2>2, <2>3, <2>4, <2>5, <2>6
       DEF Next, MainSteps, MainThread, Stopping, Sync, Threads, AddFetch, RefreshFetch
<1> QED
  BY <1>1, <1>5, <1>6, <1>7 DEF TypeOK, Target, Places

LEMMA ListsStep ==
  ASSUME TypeOK, Lists, [Next]_vars
  PROVE  Lists'
<1>1. CASE entities' = entities
  BY <1>1 DEF Lists
<1>2. ASSUME NEW t \in Threads, NEW next, Fetch(t, next)
      PROVE  Lists'
  <2>1. PICK l \in StateLists, hidden \in SUBSET Native :
          entities' = [s \in Threads |->
            IF s = t THEN Kept(Parsed(l), hidden)
            ELSE IF pc[s] \in {"drop", "sync"} THEN entities[s] ELSE <<>>]
    BY <1>2 DEF Fetch, HiddenIds
  <2>2. Distinct(Kept(Parsed(l), hidden)) /\ Distinct(<<>>)
    BY FetchLeaves DEF Distinct
  <2> QED
    BY <2>1, <2>2 DEF Lists
<1> QED
  BY <1>1, <1>2, ListsChange

LEMMA InitHolds == Init => IInv
<1> SUFFICES ASSUME Init PROVE IInv
  OBVIOUS
<1>1. TypeOK
  <2>1. 1 \in 1..(MaxDevices + MaxRenderers + 1) /\ 0 <= MaxRenderers
    BY RegistryAssumption
  <2>2. <<>> \in Seq(Listed) /\ Len(<<>>) = 0
    OBVIOUS
  <2>3. pc \in [Threads -> MainPlaces \union MtPlaces]
        /\ pc["main"] \in MainPlaces /\ pc["mt"] \in MtPlaces
    BY DEF Init, Threads, MainPlaces, MtPlaces
  <2> QED
    BY <2>1, <2>2, <2>3 DEF Init, TypeOK, Threads
<1>2. Lists
  BY DEF Init, Lists, Distinct
<1>3. Picks
  BY DEF Init, Picks
<1> QED
  BY <1>1, <1>2, <1>3 DEF IInv

THEOREM Invariant == Spec => []IInv
<1>1. IInv /\ [Next]_vars => IInv'
  BY TypeStep, ListsStep, PicksStep DEF IInv
<1> QED
  BY InitHolds, <1>1, PTL DEF Spec

\* Every variable of the registry keeps its type.
THEOREM TypeCorrect == Spec => []TypeOK
BY Invariant, PTL DEF IInv

-----------------------------------------------------------------------------
(* Whose turn it is, what its loop has chosen, and so twins and names.      *)

LEMMA TurnsStep ==
  ASSUME ~Overlap, TypeOK, Turns, [Next]_vars
  PROVE  Turns'
<1>1. CASE AddFetch \/ AddFetchFails \/ Stop \/ StopJoins
  BY <1>1
     DEF AddFetch, Fetch, AddFetchFails, Stop, StopJoins, GoTo, Turns, TypeOK, Threads,
         MainPlaces, MtPlaces
<1>2. ASSUME NEW t \in Threads,
             PickSlot(t) \/ FillSlot(t) \/ AlreadyThere(t) \/ FlushStep(t)
      PROVE  Turns'
  <2>1. pc' = pc /\ glMainRunning' = glMainRunning
    BY <1>2 DEF PickSlot, FillSlot, AlreadyThere, FlushStep, Advance
  <2> QED
    BY <2>1 DEF Turns
<1>3. ASSUME NEW t \in Threads, NoSlotLeft(t) \/ SyncEnd(t)
      PROVE  Turns'
  BY <1>3
     DEF NoSlotLeft, SyncEnd, Looping, GoTo, PassEnd, Turns, TypeOK, Threads, MainPlaces,
         MtPlaces
<1>4. ASSUME NEW t \in Threads, FlushEnd(t)
      PROVE  Turns'
  BY <1>4 DEF FlushEnd, GoTo, Turns, TypeOK, Threads, MainPlaces, MtPlaces
<1>5. CASE RefreshFetch \/ RefreshFetchFails \/ DropEnd \/ SameAddress
  BY <1>5
     DEF RefreshFetch, Fetch, RefreshFetchFails, DropEnd, SameAddress, GoTo, PassEnd,
         Turns, TypeOK, Threads, MainPlaces, MtPlaces
<1>6. CASE WakeUp \/ AddressChanged \/ Restart \/ RestartFails
  BY <1>6
     DEF WakeUp, AddressChanged, Restart, RestartFails, GoTo, Turns, TypeOK, Threads, MainPlaces,
         MtPlaces
<1>7. CASE RenameRemoves \/ RenameRemembers \/ DropStep \/ UNCHANGED vars
  BY <1>7 DEF RenameRemoves, RenameRemembers, DropStep, Advance, vars, Turns
<1> QED
  BY <1>1, <1>2, <1>3, <1>4, <1>5, <1>6, <1>7
     DEF Next, MainSteps, MainThread, Stopping, Sync, Threads

\* Once a slot is chosen nothing happens before it is filled.
LEMMA OnlyFills ==
  ASSUME ~Overlap, TypeOK, Picks, Turns, NEW t \in Threads, picked[t] # NoPick, [Next]_vars
  PROVE  FillSlot(t) \/ UNCHANGED vars
<1>1. /\ pc[t] = "sync" /\ at[t] <= Len(entities[t])
      /\ \A u \in Threads : u # t => pc[u] \in {"sleep", "idle"} /\ picked[u] = NoPick
  BY DEF Picks, Turns, Threads, TypeOK, MainPlaces, MtPlaces
<1>2. /\ t = "main" => pc["main"] = "sync" /\ pc["mt"] = "sleep"
      /\ t = "mt" => pc["mt"] = "sync" /\ pc["main"] = "idle"
  BY <1>1 DEF Turns, Threads, TypeOK, MainPlaces
<1>3. at[t] \in Nat /\ Len(entities[t]) \in Nat /\ ~(at[t] > Len(entities[t]))
  BY <1>1 DEF TypeOK
<1>4. ASSUME NEW u \in Threads, Sync(u)
      PROVE  FillSlot(t)
  <2>1. u = t
    BY <1>1, <1>4 DEF Sync, PickSlot, FillSlot, NoSlotLeft, AlreadyThere, SyncEnd, Looping
  <2> QED
    BY <1>3, <1>4, <2>1 DEF Sync, PickSlot, NoSlotLeft, AlreadyThere, SyncEnd, Looping
<1>5. ~(AddFetch \/ AddFetchFails \/ Stop \/ StopJoins \/ FlushStep("main") \/ FlushEnd("main"))
  BY <1>2 DEF AddFetch, Fetch, AddFetchFails, Stop, StopJoins, FlushStep, FlushEnd, Threads
<1>6. ~(WakeUp \/ SameAddress \/ AddressChanged \/ FlushStep("mt") \/ FlushEnd("mt")
        \/ Restart \/ RestartFails \/ RefreshFetch \/ RefreshFetchFails \/ DropStep \/ DropEnd)
  BY <1>2 DEF WakeUp, SameAddress, AddressChanged, FlushStep, FlushEnd, Restart, RestartFails,
              RefreshFetch, Fetch, RefreshFetchFails, DropStep, DropEnd, Threads
<1>7. ~(RenameRemoves \/ RenameRemembers)
  BY <1>2 DEF RenameRemoves, RenameRemembers, Renamed, Looping, Threads
<1> QED
  BY <1>4, <1>5, <1>6, <1>7 DEF Next, MainSteps, MainThread, Stopping, Threads

\* A slot is chosen by two steps only.
LEMMA PicksChange ==
  ASSUME TypeOK, [Next]_vars, NEW t \in Threads, picked'[t] # NoPick
  PROVE  picked'[t] = picked[t] \/ PickSlot(t) \/ (t = "mt" /\ RenameRemoves)
<1>0. picked \in [Threads -> [slot : Slots, force_name : BOOLEAN] \union {NoPick}]
  BY DEF TypeOK
<1>1. CASE picked' = picked
  BY <1>1
<1>2. ASSUME NEW u \in Threads, picked' = [picked EXCEPT ![u] = NoPick]
      PROVE  picked'[t] = picked[t]
  BY <1>0, <1>2
<1>3. ASSUME NEW u \in Threads, PickSlot(u)
      PROVE  picked'[t] = picked[t] \/ PickSlot(t)
  BY <1>0, <1>3 DEF PickSlot
<1>4. CASE RenameRemoves
  BY <1>0, <1>4 DEF RenameRemoves, Threads
<1>5. \/ picked' = picked
      \/ \E u \in Threads : picked' = [picked EXCEPT ![u] = NoPick] \/ PickSlot(u)
      \/ RenameRemoves
  BY DEF Next, MainSteps, MainThread, Stopping, Sync, Threads, AddFetch, AddFetchFails,
         FillSlot, NoSlotLeft, AlreadyThere, SyncEnd, WakeUp, SameAddress, AddressChanged,
         FlushStep, FlushEnd, Restart, RestartFails, RefreshFetch, Fetch, RefreshFetchFails,
         DropStep, DropEnd, RenameRemembers, Stop, StopJoins, vars, GoTo, Advance
<1> QED
  BY <1>1, <1>2, <1>3, <1>4, <1>5

LEMMA ChosenStep ==
  ASSUME ~Overlap, TypeOK, Picks, Turns, Chosen, NoTwins, AdvertisedName, [Next]_vars
  PROVE  Chosen'
<1> SUFFICES ASSUME NEW t \in Threads, picked'[t] # NoPick
             PROVE  /\ ~Running(picked[t].slot)'
                    /\ \A j \in Slots : slot'[j].udn # Entity(t)'.udn
                    /\ picked'[t].force_name
                         => ConfigName[Entity(t)'.udn] \in Names \union {NoName}
  BY DEF Chosen
<1>0. slot \in [Slots -> Target \union {Free}]
  BY DEF TypeOK, Target
<1>1. CASE picked'[t] = picked[t]
  <2>1. FillSlot(t) \/ UNCHANGED vars
    BY <1>1, OnlyFills
  <2>2. ~FillSlot(t)
    BY <1>1 DEF FillSlot, Advance, TypeOK
  <2> QED
    BY <2>1, <2>2 DEF vars, Chosen, Running, Entity
<1>2. CASE PickSlot(t)
  <2>1. PICK i \in Slots : /\ ~Running(i)
                          /\ picked' = [picked EXCEPT ![t] = [slot |-> i, force_name |-> FALSE]]
    BY <1>2 DEF PickSlot, IsFirstFree
  <2>2. picked'[t].slot = i /\ picked'[t].force_name = FALSE
    BY <2>1 DEF TypeOK
  <2>3. slot' = slot /\ Entity(t)' = Entity(t)
    BY <1>2 DEF PickSlot, Entity
  <2>4. \A j \in Slots : slot[j].udn # Entity(t).udn
    <3>1. Entity(t).udn \in Entities
      BY <1>2, EntityListed DEF PickSlot
    <3>2. SearchUDN(Entity(t).udn) = {}
      BY <1>2 DEF PickSlot
    <3> SUFFICES ASSUME NEW j \in Slots, slot[j].udn = Entity(t).udn PROVE FALSE
      OBVIOUS
    <3>3. Running(j)
      BY <3>1, SlotFacts
    <3>4. \A k \in Slots : slot[k].udn = slot[j].udn => k = j
      BY <3>3 DEF NoTwins
    <3>5. \A k \in 1..(j - 1) : k \in Slots /\ k # j
      BY RegistryAssumption DEF Slots
    <3>6. j \in SearchUDN(Entity(t).udn)
      BY <3>4, <3>5 DEF SearchUDN
    <3> QED
      BY <3>2, <3>6
  <2> QED
    BY <2>1, <2>2, <2>3, <2>4 DEF Running
<1>3. CASE t = "mt" /\ RenameRemoves
  <2>1. PICK i \in Slots :
          /\ Renamed(i) /\ AutoNamed(i) /\ slot' = [slot EXCEPT ![i] = Free]
          /\ picked' = [picked EXCEPT !["mt"] = [slot |-> i, force_name |-> TRUE]]
    BY <1>3 DEF RenameRemoves
  <2>2. Entity(t)' = Entity(t) /\ picked'[t].slot = i
    BY <1>3, <2>1 DEF RenameRemoves, Entity, TypeOK
  <2>3. Entity(t).udn \in Entities /\ slot[i].udn = Entity(t).udn
    BY <1>3, <2>1, EntityListed DEF Renamed, SearchUDN
  <2>4. Running(i) /\ slot[i] \in Target
    BY <2>3, SlotFacts
  <2>5. ConfigName[Entity(t).udn] \in Names \union {NoName}
    BY <2>1, <2>3, <2>4 DEF AdvertisedName, AutoNamed, Target
  <2>6. slot'[i] = Free /\ \A j \in Slots : j # i => slot'[j] = slot[j]
    BY <1>0, <2>1
  <2>7. \A j \in Slots : slot'[j].udn # Entity(t).udn
    BY <2>3, <2>4, <2>6, RegistryAssumption DEF NoTwins, Free
  <2> QED
    BY <2>2, <2>5, <2>6, <2>7 DEF Running
<1> QED
  BY <1>1, <1>2, <1>3, PicksChange

LEMMA TwinsStep ==
  ASSUME TypeOK, Picks, Chosen, NoTwins, [Next]_vars
  PROVE  NoTwins'
<1>1. slot \in [Slots -> Target \union {Free}]
  BY DEF TypeOK, Target
<1>2. CASE slot' = slot
  BY <1>2 DEF NoTwins, Running
<1>3. ASSUME NEW i \in Slots, slot' = [slot EXCEPT ![i] = Free]
      PROVE  NoTwins'
  <2>1. ASSUME NEW j \in Slots, NEW k \in Slots, slot'[j] # Free,
               slot'[j].udn = slot'[k].udn
        PROVE  j = k
    <3>1. j # i /\ slot'[j] = slot[j]
      BY <1>1, <1>3, <2>1
    <3>2. slot[j].udn # Nobody
      BY <2>1, <3>1, SlotFacts DEF Running
    <3>3. k # i /\ slot'[k] = slot[k]
      BY <1>1, <1>3, <2>1, <3>1, <3>2 DEF Free
    <3> QED
      BY <2>1, <3>1, <3>3 DEF NoTwins, Running
  <2> QED
    BY <2>1 DEF NoTwins, Running
<1>4. ASSUME NEW i \in Slots, NEW e \in Listed, NEW s \in Target, Fills(i, e, s)
      PROVE  NoTwins'
  <2>1. slot' = [slot EXCEPT ![i] = s] /\ s.udn \in Entities
    BY <1>4 DEF Fills, Target
  <2>2. ASSUME NEW j \in Slots, j # i
        PROVE  slot[j].udn # s.udn
    <3>1. CASE \A k \in Slots : slot[k].udn # e.udn
      BY <3>1, <1>4 DEF Fills
    <3>2. CASE slot[i].udn = e.udn
      BY <3>2, <1>4, <2>1, <2>2, SlotFacts DEF Fills, NoTwins
    <3> QED
      BY <3>1, <3>2, <1>4 DEF Fills
  <2>3. \A j \in Slots : slot'[j] = IF j = i THEN s ELSE slot[j]
    BY <1>1, <2>1
  <2> QED
    BY <2>2, <2>3 DEF NoTwins, Running
<1> QED
  BY <1>2, <1>3, <1>4, SlotMoves DEF Moves

LEMMA NamesStep ==
  ASSUME TypeOK, Picks, Chosen, AdvertisedName, [Next]_vars
  PROVE  AdvertisedName'
<1> DEFINE Right(s) ==
      /\ ConfigName[s.udn] = NoName => s.shown = s.name
      /\ ConfigName[s.udn] \notin Names \union {NoName} => s.shown = ConfigName[s.udn]
<1>1. slot \in [Slots -> Target \union {Free}]
  BY DEF TypeOK, Target
<1>2. \A i \in Slots : slot[i] # Free => Right(slot[i])
  BY DEF AdvertisedName, Running
<1>3. ASSUME NEW i \in Slots, NEW e \in Listed, NEW s \in Target, Fills(i, e, s)
      PROVE  Right(s)
  <2>1. s.udn = e.udn /\ s.name = e.name /\ e.name \in Names /\ NoName \notin Names
    BY <1>3, RegistryAssumption DEF Fills, Listed
  <2>2. CASE \/ s.shown = IF ConfigName[e.udn] = NoName THEN e.name ELSE ConfigName[e.udn]
             \/ ConfigName[e.udn] \in Names \union {NoName} /\ s.shown = e.name
    BY <2>1, <2>2
  <2>3. CASE slot[i].udn = e.udn /\ slot[i].shown # slot[i].name /\ s.shown = slot[i].shown
    <3>1. slot[i] \in Target /\ Running(i)
      BY <2>3, SlotFacts DEF Listed
    <3>2. Right(slot[i])
      BY <1>2, <3>1 DEF Running
    <3> QED
      BY <2>1, <2>3, <3>2
  <2> QED
    BY <1>3, <2>2, <2>3 DEF Fills
<1>4. \A i \in Slots : slot'[i] # Free => Right(slot'[i])
  <2> HIDE DEF Right
  <2>1. CASE slot' = slot
    BY <1>2, <2>1
  <2>2. CASE \E i \in Slots : slot' = [slot EXCEPT ![i] = Free]
    BY <1>1, <1>2, <2>2
  <2>3. ASSUME NEW i \in Slots, NEW e \in Listed, NEW s \in Target, Fills(i, e, s)
        PROVE  \A j \in Slots : slot'[j] # Free => Right(slot'[j])
    <3>1. slot' = [slot EXCEPT ![i] = s]
      BY <2>3 DEF Fills
    <3> QED
      BY <1>1, <1>2, <1>3, <2>3, <3>1
  <2> QED
    BY <2>1, <2>2, <2>3, SlotMoves DEF Moves
<1> QED
  BY <1>4 DEF AdvertisedName, Running

-----------------------------------------------------------------------------
(* What is clear until a refresh, and what a running server knows.         *)

\* Filling and renaming happen on a turn whose thread neither flushes nor is done.
LEMMA ClearedStep ==
  ASSUME ~Overlap, TypeOK, Picks, Turns, Cleared, [Next]_vars
  PROVE  Cleared'
<1>0. MaxDevices \in Nat /\ slot \in [Slots -> Target \union {Free}]
  BY RegistryAssumption DEF TypeOK, Target
<1>1. ASSUME NEW t \in Threads, PickSlot(t) \/ FillSlot(t) \/ AlreadyThere(t)
      PROVE  Cleared'
  <2>1. pc[t] = "sync" /\ pc' = pc
    BY <1>1 DEF PickSlot, FillSlot, AlreadyThere, Looping, Picks, Advance
  <2>2. /\ \A s \in Threads : pc[s] # "flush"
        /\ pc["main"] \notin {"fetch", "join", "done"} /\ pc["mt"] # "start"
    BY <2>1 DEF Turns, Threads, TypeOK, MainPlaces
  <2> QED
    BY <2>1, <2>2 DEF Cleared
<1>2. CASE RenameRemoves \/ RenameRemembers
  <2>1. pc["mt"] = "sync" /\ pc' = pc
    BY <1>2 DEF RenameRemoves, RenameRemembers, Renamed, Looping, Advance
  <2>2. /\ \A s \in Threads : pc[s] # "flush"
        /\ pc["main"] \notin {"fetch", "join", "done"} /\ pc["mt"] # "start"
    BY <2>1 DEF Turns, Threads, TypeOK, MainPlaces
  <2> QED
    BY <2>1, <2>2 DEF Cleared
<1>3. CASE DropStep
  <2>1. \A s \in Threads : pc[s] # "flush"
    BY <1>3 DEF DropStep, Turns, Threads, TypeOK, MainPlaces
  <2>2. pc' = pc
    BY <1>3 DEF DropStep, Advance
  <2>3. Empty => Empty'
    BY <1>0, <1>3 DEF DropStep, Empty, Running
  <2> QED
    BY <2>1, <2>2, <2>3 DEF Cleared
<1>4. ASSUME NEW t \in Threads, FlushStep(t)
      PROVE  Cleared'
  <2>1. pc' = pc /\ at[t] \in Nat
    BY <1>4 DEF FlushStep, Advance, TypeOK
  <2>2. Empty => Empty'
    BY <1>0, <1>4 DEF FlushStep, Empty, Running
  <2>3. \A i \in Slots : ~Running(i) => ~Running(i)'
    BY <1>0, <1>4 DEF FlushStep, Running
  <2>4. at' = [at EXCEPT ![t] = @ + 1] /\ slot' = [slot EXCEPT ![at[t]] = Free]
    BY <1>4 DEF FlushStep, Advance
  <2>5. ASSUME NEW s \in Threads, pc[s] = "flush", NEW i \in Slots, i < at'[s]
        PROVE  ~Running(i)'
    <3>1. CASE s = t /\ i = at[t]
      BY <3>1, <1>0, <2>4 DEF Running
    <3>2. CASE ~(s = t /\ i = at[t])
      <4>1. i < at[s]
        BY <3>2, <2>1, <2>4, <2>5, <1>0 DEF TypeOK, Slots
      <4> QED
        BY <4>1, <2>3, <2>5 DEF Cleared
    <3> QED
      BY <3>1, <3>2
  <2> QED
    BY <2>1, <2>2, <2>5 DEF Cleared
<1>5. ASSUME NEW t \in Threads, FlushEnd(t)
      PROVE  Cleared'
  <2>1. Empty
    BY <1>0, <1>5 DEF FlushEnd, Cleared, Empty, Slots, TypeOK
  <2>2. Empty' /\ \A i \in Slots : ~Running(i)'
    BY <1>5, <2>1 DEF FlushEnd, Empty, Running
  <2>3. pc'["main"] \in {"join", "done"} \/ pc'["mt"] = "start"
    BY <1>5 DEF FlushEnd, GoTo, TypeOK, Threads
  <2> QED
    BY <2>2, <2>3 DEF Cleared
<1>6. ASSUME NEW t \in Threads, NoSlotLeft(t) \/ SyncEnd(t)
      PROVE  Cleared'
  BY <1>6
     DEF NoSlotLeft, SyncEnd, Looping, GoTo, PassEnd, Turns, Cleared, Empty, Running,
         TypeOK, Threads, MainPlaces, MtPlaces
<1>7. CASE AddFetch \/ AddFetchFails \/ Stop \/ StopJoins
  <2>1. \A t \in Threads : pc'[t] = "flush" => t = "main" /\ at'[t] = 1
    BY <1>7
       DEF AddFetch, Fetch, AddFetchFails, Stop, StopJoins, GoTo, Turns, TypeOK, Threads,
           MainPlaces, MtPlaces
  <2>2. slot' = slot
    BY <1>7 DEF AddFetch, Fetch, AddFetchFails, Stop, StopJoins
  <2>3. /\ pc'["main"] \in {"fetch", "join", "done"} => pc["main"] \in {"join", "done"}
        /\ pc["main"] \in {"join", "done"} => pc'["main"] \in {"join", "done"}
        /\ pc'["mt"] = pc["mt"]
    BY <1>7
       DEF AddFetch, Fetch, AddFetchFails, Stop, StopJoins, GoTo, TypeOK, Threads
  <2>4. \A i \in Slots : ~(i < 1)
    BY DEF Slots
  <2> QED
    BY <2>1, <2>2, <2>3, <2>4 DEF Cleared, Empty, Running
<1>8. CASE RefreshFetch \/ RefreshFetchFails \/ DropEnd \/ WakeUp \/ SameAddress \/
           AddressChanged
  <2>1. /\ slot' = slot /\ pc'["main"] = pc["main"]
        /\ pc["mt"] # "start" /\ pc'["mt"] # "start"
        /\ pc'["mt"] = "flush" => at'["mt"] = 1
        /\ at'["main"] = at["main"]
    BY <1>8
       DEF RefreshFetch, Fetch, RefreshFetchFails, DropEnd, WakeUp, SameAddress,
           AddressChanged, GoTo, PassEnd, TypeOK, Threads
  <2>2. \A i \in Slots : ~(i < 1)
    BY DEF Slots
  <2> QED
    BY <2>1, <2>2 DEF Cleared, Empty, Running, Threads
<1>9. CASE Restart \/ RestartFails \/ UNCHANGED vars
  BY <1>9
     DEF Restart, RestartFails, vars, GoTo, Turns, Cleared, Empty, Running, TypeOK, Threads, MainPlaces,
         MtPlaces
<1> QED
  BY <1>1, <1>2, <1>3, <1>4, <1>5, <1>6, <1>7, <1>8, <1>9
     DEF Next, MainSteps, MainThread, Stopping, Sync, Threads

\* A server is started only over empty slots.
LEMMA AdvertisedStep ==
  ASSUME ~Overlap, TypeOK, Picks, Turns, Cleared, Advertised, [Next]_vars
  PROVE  Advertised'
<1>0. slot \in [Slots -> Target \union {Free}]
  BY DEF TypeOK, Target
<1>1. ASSUME NEW t \in Threads, FillSlot(t)
      PROVE  Advertised'
  <2> DEFINE i == picked[t].slot
  <2>1. i \in Slots /\ glmDNSServer' = glmDNSServer
    BY <1>1, PickFacts DEF FillSlot
  <2>2. /\ \A j \in Slots : j # i => slot'[j] = slot[j] /\ (j \in advertised => j \in advertised')
        /\ \/ slot'[i] = Free
           \/ glmDNSServer = "up" => i \in advertised'
           \/ Running(i) /\ advertised' = advertised
           \/ slot' = slot /\ advertised' = advertised
    BY <1>0, <1>1, <2>1 DEF FillSlot, AddHADevice
  <2> QED
    BY <2>1, <2>2 DEF Advertised, Running
<1>2. ASSUME \A i \in Slots : Running(i)' => Running(i), UNCHANGED server
      PROVE  Advertised'
  BY <1>2 DEF Advertised, server
<1>3. CASE RenameRemoves
  <2>1. \A i \in Slots : Running(i)' => Running(i)
    BY <1>0, <1>3 DEF RenameRemoves, Running
  <2> QED
    BY <1>2, <1>3, <2>1 DEF RenameRemoves
<1>4. CASE RenameRemembers
  <2>1. PICK i \in Slots, s \in Target : slot[i] \in Target /\ Fills(i, Entity("mt"), s)
    BY <1>4, Remembers
  <2>2. slot' = [slot EXCEPT ![i] = s] /\ Running(i)
    BY <2>1, SlotFacts DEF Fills
  <2>3. \A j \in Slots : Running(j)' => Running(j)
    BY <1>0, <2>2 DEF Running
  <2> QED
    BY <1>2, <1>4, <2>3 DEF RenameRemembers
<1>5. CASE DropStep
  <2>1. \A i \in Slots : Running(i)' => Running(i)
    BY <1>0, <1>5 DEF DropStep, Running
  <2> QED
    BY <1>2, <1>5, <2>1 DEF DropStep
<1>6. ASSUME NEW t \in Threads, FlushStep(t)
      PROVE  Advertised'
  <2>1. \A i \in Slots : Running(i)' => Running(i)
    BY <1>0, <1>6 DEF FlushStep, Running
  <2> QED
    BY <1>2, <1>6, <2>1 DEF FlushStep
<1>7. ASSUME NEW t \in Threads, FlushEnd(t)
      PROVE  Advertised'
  BY <1>7 DEF FlushEnd, Advertised
<1>8. CASE Restart
  BY <1>8 DEF Restart, Cleared, Empty, Running, Advertised
<1>9. ASSUME NEW t \in Threads, PickSlot(t) \/ NoSlotLeft(t) \/ AlreadyThere(t) \/ SyncEnd(t)
      PROVE  Advertised'
  BY <1>2, <1>9 DEF PickSlot, NoSlotLeft, AlreadyThere, SyncEnd, Running
<1>10. CASE AddFetch \/ RefreshFetch \/ RefreshFetchFails \/ AddFetchFails \/ DropEnd \/
            WakeUp \/ SameAddress \/ AddressChanged \/ RestartFails \/ Stop \/ StopJoins \/
            UNCHANGED vars
  BY <1>2, <1>10
     DEF AddFetch, RefreshFetch, Fetch, RefreshFetchFails, AddFetchFails, DropEnd, WakeUp,
         SameAddress, AddressChanged, RestartFails, Stop, StopJoins, vars, Running
<1> QED
  BY <1>1, <1>3, <1>4, <1>5, <1>6, <1>7, <1>8, <1>9, <1>10
     DEF Next, MainSteps, MainThread, Stopping, Sync, Threads

-----------------------------------------------------------------------------
(* What a pass has done so far.                                            *)

\* AddHADevice settles its entity and unsettles no other.
LEMMA AddsSettles ==
  ASSUME TypeOK, NEW i \in Slots, NEW e \in Listed, NEW force \in BOOLEAN,
         ~Running(i), AddHADevice(i, e, force)
  PROVE  /\ Settled(e)'
         /\ \A d \in Listed : Settled(d) /\ slot[i].udn # d.udn => Settled(d)'
         /\ \A j \in Slots : Running(j)' => \/ Running(j) /\ j # i /\ slot'[j] = slot[j]
                                            \/ slot'[j].udn = e.udn
<1>1. slot \in [Slots -> Target \union {Free}] /\ refused \subseteq refused'
  BY Adds DEF TypeOK, Target
<1>2. e.udn \in Entities
  BY DEF Listed
<1>3. \A d \in Listed : Settled(d) /\ slot[i].udn # d.udn => Settled(d)'
  <2> SUFFICES ASSUME NEW d \in Listed, Settled(d), slot[i].udn # d.udn
               PROVE  Settled(d)'
    OBVIOUS
  <2>1. \A j \in Slots : j # i => slot'[j] = slot[j]
    BY <1>1, Adds
  <2>2. CASE d.udn \in Disabled \union refused
    BY <1>1, <2>2 DEF Settled
  <2>3. ASSUME NEW j \in Slots, Has(j, d)
        PROVE  Settled(d)'
    <3>1. j # i
      BY <2>3 DEF Has
    <3> QED
      BY <2>1, <2>3, <3>1 DEF Has, Running, Settled
  <2> QED
    BY <2>2, <2>3 DEF Settled
<1>4. CASE slot' = [slot EXCEPT ![i] = Free] /\ e.udn \in Disabled \union refused'
  BY <1>1, <1>3, <1>4 DEF Settled, Running
<1>5. ASSUME NEW s \in Target, slot' = [slot EXCEPT ![i] = s], s.udn = e.udn,
             s.name = e.name
      PROVE  /\ Settled(e)'
             /\ \A j \in Slots : Running(j)' => \/ Running(j) /\ j # i /\ slot'[j] = slot[j]
                                                \/ slot'[j].udn = e.udn
  <2>1. s # Free /\ slot'[i] = s
    BY <1>1, <1>5, RegistryAssumption DEF Target, Free
  <2>2. Has(i, e)'
    BY <1>5, <2>1 DEF Has, Running
  <2> QED
    BY <1>1, <1>5, <2>1, <2>2 DEF Settled, Running
<1> QED
  BY <1>3, <1>4, <1>5, Adds

\* A slot that changes only its name does so too.
LEMMA RenameSettles ==
  ASSUME TypeOK, Picks, RenameRemembers, NEW e \in Listed, e = Entity("mt")
  PROVE  /\ Settled(e)'
         /\ \A d \in Listed : Settled(d) /\ e.udn # d.udn => Settled(d)'
         /\ \A j \in Slots : Running(j)' => \/ Running(j) /\ slot'[j] = slot[j]
                                            \/ slot'[j].udn = e.udn
<1>1. PICK i \in Slots, s \in Target :
        slot[i] \in Target /\ slot[i].udn = e.udn /\ Fills(i, e, s)
  BY Remembers
<1>2. slot' = [slot EXCEPT ![i] = s] /\ s.udn = e.udn /\ s.name = e.name
      /\ refused' = refused
  BY <1>1 DEF Fills, RenameRemembers, history
<1>3. Running(i) /\ s # Free /\ slot \in [Slots -> Target \union {Free}]
  BY <1>1, SlotFacts, RegistryAssumption DEF TypeOK, Target, Free
<1>4. /\ slot'[i] = s /\ \A j \in Slots : j # i => slot'[j] = slot[j]
  BY <1>2, <1>3
<1>5. Settled(e)'
  BY <1>2, <1>3, <1>4 DEF Settled, Has, Running
<1>6. \A d \in Listed : Settled(d) /\ e.udn # d.udn => Settled(d)'
  <2> SUFFICES ASSUME NEW d \in Listed, Settled(d), e.udn # d.udn
               PROVE  Settled(d)'
    OBVIOUS
  <2>1. CASE d.udn \in Disabled \union refused
    BY <1>2, <2>1 DEF Settled
  <2>2. ASSUME NEW j \in Slots, Has(j, d)
        PROVE  Settled(d)'
    <3>1. j # i
      BY <1>1, <2>2 DEF Has
    <3> QED
      BY <1>4, <2>2, <3>1 DEF Has, Running, Settled
  <2> QED
    BY <2>1, <2>2 DEF Settled
<1> QED
  BY <1>2, <1>4, <1>5, <1>6 DEF Running

\* One turn of the second loop: the entity at the index is settled, so is what was.
LEMMA TurnSettles ==
  ASSUME TypeOK, Lists, Picks, NEW t \in Threads, Looping(t) \/ picked[t] # NoPick, Done(t),
         NEW e \in Listed, e = Entity(t), Advance(t), UNCHANGED <<entities, last>>,
         Settled(e)',
         \A d \in Listed : Settled(d) /\ e.udn # d.udn => Settled(d)',
         \A j \in Slots : Running(j)' => \/ Running(j) /\ slot'[j] = slot[j]
                                         \/ slot'[j].udn = e.udn
  PROVE  Done(t)'
<1>1. /\ at[t] \in 1..Len(entities[t]) /\ entities[t][at[t]] = e
      /\ at'[t] = at[t] + 1 /\ entities[t] \in Seq(Listed)
  BY EntityListed DEF Entity, Advance, TypeOK
<1>2. \A i \in Slots : Running(i)' => HAEntityListContainsUDN(entities[t], slot'[i].udn)
  <2> SUFFICES ASSUME NEW i \in Slots, Running(i)'
               PROVE  HAEntityListContainsUDN(entities[t], slot'[i].udn)
    OBVIOUS
  <2>1. CASE Running(i) /\ slot'[i] = slot[i]
    BY <2>1 DEF Done
  <2>2. CASE slot'[i].udn = e.udn
    BY <1>1, <2>2 DEF HAEntityListContainsUDN
  <2> QED
    BY <2>1, <2>2
<1>3. \A k \in 1..Len(entities[t]) : k < at[t] + 1 => Settled(entities[t][k])'
  <2> SUFFICES ASSUME NEW d \in Listed, NEW k \in 1..Len(entities[t]), k < at[t] + 1,
                      d = entities[t][k]
               PROVE  Settled(d)'
    BY <1>1
  <2>1. CASE k = at[t]
    BY <1>1, <2>1
  <2>2. CASE k # at[t]
    <3>1. k < at[t]
      BY <1>1, <2>2
    <3>2. Settled(d) /\ e.udn # d.udn
      BY <1>1, <2>2, <3>1 DEF Done, Lists, Distinct
    <3> QED
      BY <3>2
  <2> QED
    BY <2>1, <2>2
<1> QED
  BY <1>1, <1>2, <1>3 DEF Done

\* While one thread passes the other rests, and nothing else is claimed.
LEMMA OnlyPass ==
  ASSUME ~Overlap, TypeOK, Turns, NEW t \in Threads, pc[t] = "sync"
  PROVE  /\ \A s \in Threads : s # t => pc[s] # "sync"
         /\ pc["mt"] \notin {"drop", "start"}
         /\ ~(pc["main"] = "idle" /\ pc["mt"] \in {"sleep", "check", "fetch"})
         /\ t = "mt" => pc["main"] = "idle" /\ glMainRunning
BY DEF Turns, Threads, TypeOK, MainPlaces

\* The end of a pass: what it has done is what there was to do.
LEMMA PassMatches ==
  ASSUME TypeOK, NEW t \in Threads, Done(t),
         at[t] > Len(entities[t]) \/ \A i \in Slots : Running(i)
  PROVE  Matched
<1>1. Answer = entities[t] /\ entities[t] \in Seq(Listed) /\ at[t] \in Nat
  BY DEF Done, Answer, TypeOK, Threads
<1>2. CASE at[t] > Len(entities[t])
  <2>1. \A k \in 1..Len(entities[t]) : k < at[t]
    BY <1>1, <1>2
  <2> QED
    BY <1>1, <2>1 DEF Done, Matched
<1>3. CASE \A i \in Slots : Running(i)
  BY <1>1, <1>3 DEF Done, Matched
<1> QED
  BY <1>2, <1>3

LEMMA ProgressStep ==
  ASSUME ~Overlap, SInv, [Next]_vars
  PROVE  Progress'
<1>0. /\ TypeOK /\ Lists /\ Picks /\ Turns /\ Chosen /\ Cleared /\ Progress
      /\ slot \in [Slots -> Target \union {Free}] /\ MaxDevices \in Nat
  BY RegistryAssumption DEF SInv, IInv, TypeOK, Target
<1>1. ASSUME NEW t \in Threads, pc[t] = "sync", Done(t)', pc' = pc,
             t = "main" => \A i \in Slots : Running(i)' =>
               \E k \in 1..Len(entities'["main"]) :
                 k < at'["main"] /\ entities'["main"][k].udn = slot'[i].udn
      PROVE  Progress'
  <2>1. /\ \A s \in Threads : pc'[s] = "sync" => s = t
        /\ pc'["mt"] \notin {"drop", "start"}
        /\ ~(pc'["main"] = "idle" /\ pc'["mt"] \in {"sleep", "check", "fetch"})
    BY <1>0, <1>1, OnlyPass
  <2>2. \A s \in Threads : pc'[s] = "sync" => Done(s)'
    BY <1>1, <2>1
  <2> QED
    BY <1>1, <2>1, <2>2 DEF Progress, Threads
<1>2. ASSUME NEW t \in Threads, FillSlot(t)
      PROVE  Progress'
  <2>1. /\ picked[t] # NoPick /\ pc[t] = "sync" /\ Done(t) /\ Advance(t)
        /\ UNCHANGED <<entities, last>> /\ pc' = pc
    BY <1>0, <1>2 DEF FillSlot, Picks, Advance, Progress
  <2>2. PICK e \in Listed : e = Entity(t)
    BY <1>0, <2>1, EntityListed
  <2>3. PICK i \in Slots, force \in BOOLEAN : ~Running(i) /\ AddHADevice(i, e, force)
    BY <1>0, <1>2, <2>1, <2>2, PickFacts DEF FillSlot, Chosen
  <2>4. \A d \in Listed : slot[i].udn # d.udn
    BY <1>0, <2>3, SlotFacts DEF Listed
  <2>5. /\ Settled(e)'
        /\ \A d \in Listed : Settled(d) /\ e.udn # d.udn => Settled(d)'
        /\ \A j \in Slots : Running(j)' => \/ Running(j) /\ slot'[j] = slot[j]
                                           \/ slot'[j].udn = e.udn
    BY <1>0, <2>3, <2>4, AddsSettles
  <2>6. Done(t)'
    BY <1>0, <2>1, <2>2, <2>5, TurnSettles
  <2>7. ASSUME t = "main", NEW j \in Slots, Running(j)'
        PROVE  \E k \in 1..Len(entities'["main"]) :
                 k < at'["main"] /\ entities'["main"][k].udn = slot'[j].udn
    <3>1. /\ at["main"] \in 1..Len(entities["main"]) /\ entities["main"][at["main"]] = e
          /\ at'["main"] = at["main"] + 1 /\ entities' = entities
          /\ Len(entities["main"]) \in Nat
      BY <1>0, <2>1, <2>2, <2>7, EntityListed DEF Entity, Advance, TypeOK
    <3>2. CASE slot'[j].udn = e.udn
      BY <3>1, <3>2
    <3>3. CASE Running(j) /\ slot'[j] = slot[j]
      <4>1. PICK k \in 1..Len(entities["main"]) :
              k < at["main"] /\ entities["main"][k].udn = slot[j].udn
        BY <1>0, <2>1, <2>7, <3>3 DEF Progress
      <4> QED
        BY <3>1, <3>3, <4>1
    <3> QED
      BY <2>5, <2>7, <3>2, <3>3
  <2> QED
    BY <1>1, <2>1, <2>6, <2>7
<1>3. ASSUME NEW t \in Threads, AlreadyThere(t)
      PROVE  Progress'
  <2>1. Looping(t) /\ pc[t] = "sync" /\ Done(t) /\ Advance(t)
        /\ UNCHANGED <<slot, entities, last, refused>> /\ pc' = pc
    BY <1>0, <1>3 DEF AlreadyThere, Looping, Advance, Progress, history
  <2>2. PICK e \in Listed : e = Entity(t)
    BY <1>0, <2>1, EntityListed
  <2>3. PICK i \in Slots : slot[i].udn = e.udn /\ (t = "main" \/ slot[i].name = e.name)
    BY <1>3, <2>2 DEF AlreadyThere, SearchUDN
  <2>4. Running(i)
    BY <1>0, <2>3, SlotFacts DEF Listed
  <2>5. t # "main"
    <3> SUFFICES ASSUME t = "main" PROVE FALSE
      OBVIOUS
    <3>1. PICK k \in 1..Len(entities["main"]) :
            k < at["main"] /\ entities["main"][k].udn = e.udn
      BY <1>0, <2>1, <2>3, <2>4 DEF Progress, Looping
    <3>2. at["main"] \in 1..Len(entities["main"]) /\ entities["main"][at["main"]] = e
      BY <1>0, <2>1, <2>2, EntityListed DEF Entity
    <3>3. k = at["main"]
      BY <1>0, <3>1, <3>2 DEF Lists, Distinct, Threads
    <3> QED
      BY <1>0, <3>1, <3>2, <3>3
  <2>6. Settled(e)
    BY <2>3, <2>4, <2>5 DEF Settled, Has
  <2>7. /\ \A d \in Listed : Settled(d) => Settled(d)'
        /\ \A j \in Slots : Running(j)' => Running(j) /\ slot'[j] = slot[j]
    BY <2>1 DEF Settled, Has, Running
  <2>8. Done(t)'
    BY <1>0, <2>1, <2>2, <2>6, <2>7, TurnSettles
  <2> QED
    BY <1>1, <2>1, <2>5, <2>8
<1>4. CASE RenameRemembers
  <2>1. /\ Looping("mt") /\ pc["mt"] = "sync" /\ Done("mt") /\ Advance("mt") /\ pc' = pc
        /\ UNCHANGED <<entities, last>>
    BY <1>0, <1>4
       DEF RenameRemembers, Renamed, Looping, Advance, Progress, Threads, history
  <2>2. PICK e \in Listed : e = Entity("mt")
    BY <1>0, <2>1, EntityListed DEF Threads
  <2>3. Done("mt")'
    BY <1>0, <1>4, <2>1, <2>2, RenameSettles, TurnSettles DEF Threads
  <2> QED
    BY <1>1, <2>1, <2>3 DEF Threads
<1>15. CASE RenameRemoves
  <2>1. /\ Looping("mt") /\ pc["mt"] = "sync" /\ Done("mt") /\ pc' = pc /\ at' = at
        /\ UNCHANGED <<entities, last, refused>>
    BY <1>0, <1>15 DEF RenameRemoves, Renamed, Looping, Progress, Threads, history
  <2>2. PICK i \in Slots : /\ slot[i].udn = Entity("mt").udn
                          /\ slot' = [slot EXCEPT ![i] = Free]
    BY <1>15 DEF RenameRemoves, Renamed, SearchUDN
  <2>3. \A j \in Slots : Running(j)' => Running(j) /\ slot'[j] = slot[j]
    BY <1>0, <2>2 DEF Running
  <2>4. \A j \in Slots : j # i => slot'[j] = slot[j]
    BY <1>0, <2>2
  <2>5. at["mt"] \in 1..Len(entities["mt"]) /\ slot[i].udn = entities["mt"][at["mt"]].udn
    BY <1>0, <2>1, <2>2, EntityListed DEF Entity, Threads
  <2>6. \A k \in 1..Len(entities["mt"]) : k < at["mt"] => Settled(entities["mt"][k])'
    <3>0. entities' = entities /\ entities["mt"] \in Seq(Listed)
      BY <1>0, <2>1 DEF TypeOK, Threads
    <3> SUFFICES ASSUME NEW d \in Listed, NEW k \in 1..Len(entities["mt"]), k < at["mt"],
                        d = entities["mt"][k]
                 PROVE  Settled(d)'
      BY <3>0
    <3>1. Settled(d)
      BY <2>1 DEF Done
    <3>2. d.udn # slot[i].udn
      BY <1>0, <2>5 DEF Lists, Distinct, Threads, TypeOK
    <3>4. CASE d.udn \in Disabled \union refused
      BY <2>1, <3>4 DEF Settled
    <3>5. ASSUME NEW j \in Slots, Has(j, d)
          PROVE  Settled(d)'
      <4>1. j # i
        BY <3>2, <3>5 DEF Has
      <4> QED
        BY <2>4, <3>5, <4>1 DEF Has, Running, Settled
    <3> QED
      BY <3>1, <3>4, <3>5 DEF Settled
  <2>7. Done("mt")'
    BY <2>1, <2>3, <2>6 DEF Done
  <2> QED
    BY <1>1, <2>1, <2>7 DEF Threads
<1>16. ASSUME NEW t \in Threads, PickSlot(t)
       PROVE  Progress'
  <2>1. /\ pc[t] = "sync" /\ Done(t) /\ pc' = pc
        /\ UNCHANGED <<slot, at, entities, last, refused>>
    BY <1>0, <1>16 DEF PickSlot, Looping, Progress, history
  <2>2. Done(t)'
    BY <2>1 DEF Done, Settled, Has, Running
  <2>3. t = "main" => \A i \in Slots : Running(i)' =>
          \E k \in 1..Len(entities'["main"]) :
            k < at'["main"] /\ entities'["main"][k].udn = slot'[i].udn
    BY <1>0, <2>1 DEF Progress, Running
  <2> QED
    BY <1>1, <2>1, <2>2, <2>3
<1>5. ASSUME NEW t \in Threads, NoSlotLeft(t) \/ SyncEnd(t)
      PROVE  Progress'
  <2>1. /\ pc[t] = "sync" /\ Done(t) /\ GoTo(t, PassEnd(t))
        /\ UNCHANGED <<slot, entities, last, refused>>
        /\ at[t] > Len(entities[t]) \/ \A i \in Slots : Running(i)
    BY <1>0, <1>5 DEF NoSlotLeft, SyncEnd, Looping, Progress, history
  <2>2. Matched
    BY <1>0, <2>1, PassMatches
  <2>3. Matched'
    BY <2>1, <2>2 DEF Matched, Answer, Settled, Has, Running
  <2>4. /\ \A s \in Threads : pc'[s] # "sync"
        /\ pc'["mt"] \notin {"drop", "start"}
    BY <1>0, <2>1, OnlyPass DEF GoTo, PassEnd, TypeOK, Threads
  <2> QED
    BY <2>3, <2>4 DEF Progress, Threads
<1>6. CASE AddFetch
  <2>1. /\ pc["main"] = "fetch" /\ pc["mt"] = "sleep" /\ slot' = slot /\ last' = "main"
        /\ pc'["main"] = "sync" /\ at'["main"] = 1 /\ pc'["mt"] = "sleep"
    BY <1>0, <1>6 DEF AddFetch, Fetch, GoTo, Turns, TypeOK, Threads
  <2>2. \A i \in Slots : ~Running(i)'
    BY <1>0, <2>1 DEF Cleared, Empty, Running
  <2>3. Done("main")'
    BY <2>1, <2>2 DEF Done
  <2> QED
    BY <2>1, <2>2, <2>3 DEF Progress, Threads
<1>7. CASE RefreshFetch
  <2>1. /\ pc["main"] = "idle" /\ last' = "mt"
        /\ pc'["main"] = "idle" /\ pc'["mt"] = "drop" /\ at'["mt"] = 1
    BY <1>0, <1>7 DEF RefreshFetch, Fetch, GoTo, Turns, TypeOK, Threads, MainPlaces
  <2>2. \A i \in Slots : ~(i < 1)
    BY DEF Slots
  <2> QED
    BY <2>1, <2>2 DEF Progress, Threads
<1>8. CASE RefreshFetchFails \/ WakeUp \/ SameAddress
  <2>1. /\ pc["mt"] \in {"sleep", "check", "fetch"} /\ pc'["main"] = pc["main"]
        /\ UNCHANGED <<slot, entities, last, refused>> /\ at'["main"] = at["main"]
        /\ pc'["mt"] \in {"sleep", "check", "fetch", "gone"}
    BY <1>0, <1>8
       DEF RefreshFetchFails, WakeUp, SameAddress, GoTo, PassEnd, TypeOK, Threads, history
  <2>2. pc["main"] # "sync"
    BY <1>0, <1>8 DEF RefreshFetchFails, WakeUp, SameAddress, Turns
  <2>3. Matched => Matched'
    BY <2>1 DEF Matched, Answer, Settled, Has, Running
  <2> QED
    BY <1>0, <2>1, <2>2, <2>3 DEF Progress, Threads
<1>9. CASE DropStep
  <2>1. /\ pc["mt"] = "drop" /\ pc["main"] = "idle" /\ pc' = pc
        /\ at'["mt"] = at["mt"] + 1 /\ at["mt"] \in Slots
        /\ UNCHANGED <<entities, last>>
    BY <1>0, <1>9
       DEF DropStep, Advance, Turns, TypeOK, Threads, MainPlaces, Slots, history
  <2>2. ASSUME NEW i \in Slots, i < at["mt"] + 1, Running(i)'
        PROVE  HAEntityListContainsUDN(entities["mt"], slot'[i].udn)
    <3>1. CASE i = at["mt"]
      BY <1>0, <1>9, <2>1, <2>2, <3>1 DEF DropStep, Running
    <3>2. CASE i # at["mt"]
      <4>1. slot'[i] = slot[i]
        BY <1>0, <1>9, <2>1, <3>2 DEF DropStep
      <4>2. i < at["mt"]
        BY <2>1, <2>2, <3>2 DEF Slots
      <4> QED
        BY <1>0, <2>1, <2>2, <4>1, <4>2 DEF Progress, Running
    <3> QED
      BY <3>1, <3>2
  <2> QED
    BY <1>0, <2>1, <2>2 DEF Progress, Threads
<1>10. CASE DropEnd
  <2>1. /\ pc["mt"] = "drop" /\ pc["main"] = "idle" /\ at["mt"] > MaxDevices
        /\ pc'["main"] = "idle" /\ pc'["mt"] = "sync" /\ at'["mt"] = 1
        /\ UNCHANGED <<slot, entities, last>>
    BY <1>0, <1>10
       DEF DropEnd, GoTo, Turns, TypeOK, Threads, MainPlaces, history
  <2>2. \A i \in Slots : i < at["mt"]
    BY <1>0, <2>1 DEF Slots, TypeOK, Threads
  <2>3. Done("mt")'
    BY <1>0, <2>1, <2>2 DEF Progress, Done, Running
  <2> QED
    BY <2>1, <2>3 DEF Progress, Threads
<1>11. CASE AddFetchFails \/ AddressChanged \/ Stop \/ StopJoins
  <2>1. /\ \A t \in Threads : pc'[t] # "sync"
        /\ pc'["mt"] \notin {"drop", "start"}
        /\ ~(pc'["main"] = "idle" /\ pc'["mt"] \in {"sleep", "check", "fetch"})
    BY <1>0, <1>11
       DEF AddFetchFails, AddressChanged, Stop, StopJoins, GoTo, Turns, TypeOK, Threads,
           MainPlaces, MtPlaces
  <2> QED
    BY <2>1 DEF Progress, Threads
<1>12. ASSUME NEW t \in Threads, FlushStep(t) \/ FlushEnd(t)
       PROVE  Progress'
  <2>1. /\ \A s \in Threads : pc'[s] # "sync"
        /\ pc'["mt"] # "drop"
        /\ pc'["mt"] = "start" => last' = "nobody"
        /\ ~(pc'["main"] = "idle" /\ pc'["mt"] \in {"sleep", "check", "fetch"})
    BY <1>0, <1>12
       DEF FlushStep, FlushEnd, GoTo, Advance, Turns, TypeOK, Threads, MainPlaces, MtPlaces,
           history
  <2> QED
    BY <2>1 DEF Progress, Threads
<1>13. CASE Restart \/ RestartFails
  <2>1. /\ last' = "nobody" /\ Empty /\ slot' = slot /\ pc'["mt"] = "fetch"
        /\ pc'["main"] = "idle"
    BY <1>0, <1>13
       DEF Restart, RestartFails, GoTo, Turns, Cleared, Progress, TypeOK, Threads, MainPlaces, history
  <2>2. Matched'
    BY <2>1 DEF Matched, Answer, Empty, Running
  <2> QED
    BY <2>1, <2>2 DEF Progress, Threads
<1>14. CASE UNCHANGED vars
  BY <1>0, <1>14
     DEF vars, history, Progress, Done, Matched, Answer, Settled, Has, Running
<1> QED
  BY <1>2, <1>3, <1>4, <1>5, <1>6, <1>7, <1>8, <1>9, <1>10, <1>11, <1>12, <1>13, <1>14, <1>15,
     <1>16
     DEF Next, MainSteps, MainThread, Stopping, Sync, Threads

LEMMA StartHolds ==
  Init => Turns /\ Chosen /\ NoTwins /\ AdvertisedName /\ Cleared /\ Advertised /\ Progress
<1> SUFFICES ASSUME Init
             PROVE  /\ Turns /\ Chosen /\ NoTwins /\ AdvertisedName /\ Cleared /\ Advertised
                    /\ Progress
  OBVIOUS
<1>1. /\ pc["main"] = "fetch" /\ pc["mt"] = "sleep" /\ glMainRunning
      /\ \A i \in Slots : ~Running(i)
      /\ \A t \in Threads : picked[t] = NoPick
  BY DEF Init, Threads, Running
<1>2. \A t \in Threads : pc[t] \in {"fetch", "sleep"}
  BY <1>1 DEF Threads
<1> QED
  BY <1>1, <1>2 DEF Turns, Chosen, NoTwins, AdvertisedName, Cleared, Empty, Advertised, Progress

\* With main and MainThread never at work at the same time.
THEOREM Serialised == ~Overlap => (Spec => []SInv)
<1> SUFFICES ASSUME ~Overlap PROVE Spec => []SInv
  OBVIOUS
<1>1. Init => SInv
  BY InitHolds, StartHolds DEF SInv
<1>2. ASSUME SInv, [Next]_vars PROVE SInv'
  <2>1. /\ TypeOK /\ Lists /\ Picks /\ NoTwins /\ AdvertisedName /\ Turns /\ Chosen /\ Cleared
        /\ Advertised
    BY <1>2 DEF SInv, IInv
  <2>2. IInv'
    BY <1>2, <2>1, TypeStep, ListsStep, PicksStep DEF IInv
  <2>3. Turns' /\ Chosen' /\ NoTwins' /\ AdvertisedName'
    BY <1>2, <2>1, TurnsStep, ChosenStep, TwinsStep, NamesStep
  <2> QED
    BY <1>2, <2>1, <2>2, <2>3, ClearedStep, AdvertisedStep, ProgressStep DEF SInv
<1>3. SInv /\ [Next]_vars => SInv'
  BY <1>2
<1> QED
  BY <1>1, <1>3, PTL DEF Spec

\* SearchUDN comes before the slot is chosen, and nobody takes the slot or the entity
\* before it is filled: no entity has two targets.
THEOREM NoTwinsEver == ~Overlap => (Spec => []NoTwins)
<1> SUFFICES ASSUME ~Overlap PROVE Spec => []NoTwins
  OBVIOUS
<1>1. Spec => []SInv
  BY Serialised
<1> QED
  BY <1>1, PTL DEF SInv

\* force_name and auto_name: a target's name is the configured one or follows its entity.
THEOREM NamesAreRight == ~Overlap => (Spec => []AdvertisedName)
<1> SUFFICES ASSUME ~Overlap PROVE Spec => []AdvertisedName
  OBVIOUS
<1>1. Spec => []SInv
  BY Serialised
<1> QED
  BY <1>1, PTL DEF SInv

\* Between two refreshes the targets are those of the last answer.
THEOREM TargetsAreSynced == ~Overlap => (Spec => []Synced)
<1> SUFFICES ASSUME ~Overlap PROVE Spec => []Synced
  OBVIOUS
<1>1. ASSUME SInv PROVE Synced
  <2> SUFFICES ASSUME AtRest PROVE Matched
    BY DEF Synced, Matched, Settled
  <2> QED
    BY <1>1 DEF SInv, Progress, AtRest
<1>2. Spec => []SInv
  BY Serialised
<1>3. SInv => Synced
  BY <1>1
<1> QED
  BY <1>2, <1>3, PTL

\* Start(false) finds no target left, so that a server that runs knows all of them; a
\* Start(false) that fails leaves none running.
THEOREM TargetsAreAdvertised == ~Overlap => (Spec => []Advertised)
<1> SUFFICES ASSUME ~Overlap PROVE Spec => []Advertised
  OBVIOUS
<1>1. Spec => []SInv
  BY Serialised
<1> QED
  BY <1>1, PTL DEF SInv

-----------------------------------------------------------------------------
(* Hidden platforms, as long as all their entities fit into the array.     *)

\* What is left of NativeHidden: a target of a hidden platform is there only if the last
\* fetch could not learn what to hide; the next one that can removes it.
HiddenUnlessBlind ==
  AtRest => \A i \in Slots : slot[i].udn \in Native => blind

LEMMA AllHidden ==
  ASSUME IsFiniteSet(Native), Cardinality(Native) <= MaxRenderers,
         NEW h \in HiddenIds(FALSE)
  PROVE  h = Native
<1>1. h \in SUBSET Native /\ Cardinality(h) = Cardinality(Native)
  <2>1. Cardinality(Native) \in Nat
    BY FS_CardinalityType
  <2> QED
    BY <2>1, RegistryAssumption DEF HiddenIds, Lesser
<1> QED
  BY <1>1, FS_Subset

LEMMA FilteredStep ==
  ASSUME IsFiniteSet(Native), Cardinality(Native) <= MaxRenderers, TypeOK, Filtered,
         [Next]_vars
  PROVE  Filtered'
<1>1. CASE UNCHANGED <<entities, blind>> /\ (last' = last \/ last' = "nobody")
  BY <1>1 DEF Filtered, Answer
<1>2. ASSUME NEW t \in Threads, NEW next, Fetch(t, next)
      PROVE  Filtered'
  <2>1. PICK l \in StateLists, failed \in BOOLEAN : \E hidden \in HiddenIds(failed) :
          /\ entities' = [s \in Threads |->
               IF s = t THEN Kept(Parsed(l), hidden)
               ELSE IF pc[s] \in {"drop", "sync"} THEN entities[s] ELSE <<>>]
          /\ blind' = (failed /\ l # <<>>)
    BY <1>2 DEF Fetch
  <2>2. PICK hidden \in HiddenIds(failed) :
          entities' = [s \in Threads |->
            IF s = t THEN Kept(Parsed(l), hidden)
            ELSE IF pc[s] \in {"drop", "sync"} THEN entities[s] ELSE <<>>]
    BY <2>1
  <2>3. Answer' = Kept(Parsed(l), hidden)
    BY <1>2, <2>2 DEF Fetch, Answer, Threads
  <2>4. /\ \A k \in 1..Len(Answer') : Answer'[k].udn \notin hidden
        /\ l = <<>> => Answer' = <<>>
    BY <2>3, FetchLeaves
  <2>5. CASE failed /\ l # <<>>
    <3>1. blind'
      BY <2>1, <2>5
    <3> QED
      BY <3>1 DEF Filtered
  <2>6. CASE ~failed
    BY <2>2, <2>4, <2>6, AllHidden DEF Filtered
  <2>7. CASE l = <<>>
    <3>1. 1..Len(Answer') = {}
      BY <2>4, <2>7
    <3> QED
      BY <3>1 DEF Filtered
  <2> QED
    BY <2>5, <2>6, <2>7
<1> QED
  BY <1>1, <1>2, ListsChange

\* A target of a hidden platform is there only if the last fetch could not know.
THEOREM HiddenOrBlind ==
  ~Overlap /\ IsFiniteSet(Native) /\ Cardinality(Native) <= MaxRenderers
    => (Spec => []HiddenUnlessBlind)
<1> SUFFICES ASSUME ~Overlap, IsFiniteSet(Native), Cardinality(Native) <= MaxRenderers
             PROVE  Spec => []HiddenUnlessBlind
  OBVIOUS
<1>1. Init => Filtered
  BY DEF Init, Filtered, Answer, Threads
<1>2. TypeOK /\ Filtered /\ [Next]_vars => Filtered'
  BY FilteredStep
<1>3. Spec => []TypeOK
  BY TypeCorrect
<1>4. Spec => []Filtered
  BY <1>1, <1>2, <1>3, PTL DEF Spec
<1>5. ASSUME SInv, Filtered, AtRest, NEW i \in Slots, slot[i].udn \in Native
      PROVE  blind
  <2>1. TypeOK /\ Matched
    BY <1>5 DEF SInv, IInv, Progress, AtRest
  <2>2. Running(i)
    BY <1>5, <2>1, SlotFacts, RegistryAssumption
  <2>3. PICK k \in 1..Len(Answer) : Answer[k].udn = slot[i].udn
    BY <2>1, <2>2 DEF Matched, HAEntityListContainsUDN
  <2> QED
    BY <1>5, <2>3 DEF Filtered
<1>6. SInv /\ Filtered => HiddenUnlessBlind
  BY <1>5 DEF HiddenUnlessBlind
<1>7. Spec => []SInv
  BY Serialised
<1> QED
  BY <1>4, <1>6, <1>7, PTL

-----------------------------------------------------------------------------
(* The mutexes, as long as main and MainThread take turns.                 *)

\* They are destroyed by the last step of Stop(true).
Undestroyed == ~mutexes => pc["main"] = "done"

LEMMA UndestroyedStep ==
  ASSUME TypeOK, Picks, Undestroyed, [Next]_vars
  PROVE  Undestroyed'
<1>1. CASE StopJoins
  BY <1>1 DEF StopJoins, GoTo, Undestroyed, TypeOK, Threads
<1>2. CASE AddFetch \/ AddFetchFails \/ Sync("main") \/ Stop \/ FlushStep("main")
           \/ FlushEnd("main")
  <2>1. pc["main"] # "done" /\ mutexes' = mutexes
    BY <1>2 DEF AddFetch, AddFetchFails, Fetch, Sync, PickSlot, FillSlot, NoSlotLeft, AlreadyThere, SyncEnd,
                Looping, Picks, Stop, FlushStep, FlushEnd, Threads
  <2> QED
    BY <2>1 DEF Undestroyed
<1>3. CASE MainThread \/ UNCHANGED vars
  <2>1. mutexes' = mutexes
    BY <1>3 DEF MainThread, WakeUp, SameAddress, AddressChanged, FlushStep, FlushEnd, Restart,
                RestartFails, RefreshFetch, Fetch, RefreshFetchFails, DropStep, DropEnd, Sync, PickSlot,
                FillSlot, NoSlotLeft, AlreadyThere, SyncEnd, RenameRemoves, RenameRemembers, vars
  <2>2. pc'["main"] = pc["main"]
    BY <1>3 DEF MainThread, WakeUp, SameAddress, AddressChanged, FlushStep, FlushEnd, Restart,
                RestartFails, RefreshFetch, Fetch, RefreshFetchFails, DropStep, DropEnd, Sync, PickSlot,
                FillSlot, NoSlotLeft, AlreadyThere, SyncEnd, Looping, RenameRemoves,
                RenameRemembers, Advance, GoTo, vars,
                TypeOK, Threads
  <2> QED
    BY <2>1, <2>2 DEF Undestroyed
<1> QED
  BY <1>1, <1>2, <1>3 DEF Next, MainSteps, Stopping

\* Then "mutexes must always be valid" (airhass.c:564) is right: no target runs without.
THEOREM MutexesStayValid == ~Overlap => (Spec => []MutexesValid)
<1> SUFFICES ASSUME ~Overlap PROVE Spec => []MutexesValid
  OBVIOUS
<1>1. Init => Undestroyed
  BY DEF Init, Undestroyed
<1>2. TypeOK /\ Picks /\ Undestroyed /\ [Next]_vars => Undestroyed'
  BY UndestroyedStep
<1>3. SInv => TypeOK /\ Picks
  BY DEF SInv, IInv
<1>4. SInv /\ Undestroyed => MutexesValid
  BY DEF SInv, IInv, TypeOK, Cleared, Empty, Undestroyed, MutexesValid
<1>5. Spec => []SInv
  BY Serialised
<1> QED
  BY <1>1, <1>2, <1>3, <1>4, <1>5, PTL DEF Spec
=============================================================================
