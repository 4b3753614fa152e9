------------------------------ MODULE Registry ------------------------------
(***************************************************************************)
(* The slots of glMRDevices (airhass.c) and the two threads that fill and  *)
(* empty them without a lock of their own: main, which adds the targets at *)
(* the start and runs Stop(true), from the signal handler or at the end,   *)
(* and MainThread, which every 30 seconds looks for a new address of the   *)
(* host and refreshes the targets from Home Assistant.                     *)
(*                                                                         *)
(* What one addition or removal does inside a slot is Device's matter; it  *)
(* is one step here.  Choosing the slot and filling it are two, for no     *)
(* lock joins them.                                                        *)
(***************************************************************************)
EXTENDS Integers, Sequences, FiniteSets

CONSTANTS
  Entities,     \* the media_player entities, with their UDN
  Names,        \* the names Home Assistant gives them
  NoName,       \* an empty Config.Name; no name in a free slot
  Nobody,       \* the UDN of a free slot
  ConfigName,   \* the Config.Name the XML file gives an entity
  Native,       \* the entities of a hidden platform
  Disabled,     \* those with Config.Enabled 0
  MaxDevices,   \* glMaxDevices
  MaxRenderers, \* MAX_RENDERERS
  MaxListed,    \* bound on the entities of one answer
  Overlap       \* whether main and MainThread may be at work at the same time

ASSUME RegistryAssumption ==
  /\ Native \subseteq Entities /\ Disabled \subseteq Entities
  /\ Nobody \notin Entities /\ NoName \notin Names
  /\ DOMAIN ConfigName = Entities
  /\ MaxDevices \in Nat \ {0} /\ MaxRenderers \in Nat \ {0}
  /\ MaxListed \in Nat /\ Overlap \in BOOLEAN

VARIABLES
  slot,         \* UDN, Name and Config.Name of every running device
  glMainRunning,
  mutexes,      \* the devices' mutexes are initialised and the array allocated
  glmDNSServer, \* "up", or "down" from mdnsd_stop on
  pc,           \* where each thread is
  at,           \* its loop's index
  picked,       \* the slot its loop has chosen for AddHADevice, and force_name
  entities,     \* the list its last fetch left it, until the other fetches
  advertised,   \* the slots registered with the mDNS server since it was started
  last,         \* history: who fetched last, "nobody" once all targets were flushed
  refused,      \* history: the entities whose receiver could not be created since
  blind         \* history: the last fetch did not learn which entities are hidden

history == <<last, refused, blind>>
server  == <<glmDNSServer, advertised>>
vars == <<slot, glMainRunning, mutexes, server, pc, at, picked, entities,
          history>>

Threads == {"main", "mt"}
Slots   == 1..MaxDevices
Free    == [udn |-> Nobody, name |-> NoName, shown |-> NoName]
Running(i) == slot[i] # Free
Shown   == Names \union {ConfigName[e] : e \in Entities}
Listed  == [udn : Entities, name : Names]
NoPick  == [slot |-> 0, force_name |-> FALSE]

MainPlaces == {"fetch", "sync", "idle", "flush", "join", "done"}
MtPlaces   == {"sleep", "check", "flush", "start", "fetch", "drop", "sync", "gone"}

TypeOK ==
  /\ slot \in [Slots -> [udn : Entities, name : Names, shown : Shown]
                          \union {Free}]
  /\ glMainRunning \in BOOLEAN /\ mutexes \in BOOLEAN
  /\ glmDNSServer \in {"up", "down"} /\ advertised \subseteq Slots
  /\ pc \in [Threads -> MainPlaces \union MtPlaces]
  /\ pc["main"] \in MainPlaces /\ pc["mt"] \in MtPlaces
  /\ at \in [Threads -> 1..(MaxDevices + MaxRenderers + 1)]
  /\ picked \in [Threads -> [slot : Slots, force_name : BOOLEAN] \union {NoPick}]
  /\ entities \in [Threads -> Seq(Listed)]
  /\ \A t \in Threads : Len(entities[t]) <= MaxRenderers
  /\ last \in Threads \union {"nobody"} /\ refused \subseteq Entities /\ blind \in BOOLEAN

\* Start(true) has started MainThread; AddHADevices comes next.
Init ==
  /\ slot = [i \in Slots |-> Free]
  /\ glMainRunning = TRUE /\ mutexes = TRUE /\ glmDNSServer = "up"
  /\ advertised = {} /\ picked = [t \in Threads |-> NoPick]
  /\ pc = [t \in Threads |-> IF t = "main" THEN "fetch" ELSE "sleep"]
  /\ at = [t \in Threads |-> 1]
  /\ entities = [t \in Threads |-> <<>>]
  /\ last = "main" /\ refused = {} /\ blind = FALSE

GoTo(t, next) ==
  /\ pc' = [pc EXCEPT ![t] = next] /\ at' = [at EXCEPT ![t] = 1]
  /\ picked' = [picked EXCEPT ![t] = NoPick]
Advance(t) ==
  /\ at' = [at EXCEPT ![t] = @ + 1] /\ UNCHANGED pc
  /\ picked' = [picked EXCEPT ![t] = NoPick]

\* The end of a pass: main waits for its end, MainThread looks at its loop's condition.
PassEnd(t) == IF t = "main" THEN "idle" ELSE IF glMainRunning THEN "sleep" ELSE "gone"

-----------------------------------------------------------------------------
(* ha_fetch_media_players.                                                 *)

Lesser(a, b) == IF a < b THEN a ELSE b

\* The states Home Assistant may list: some of the entities, in any order.
StateLists ==
  {l \in UNION {[1..n -> Listed] : n \in 0..MaxListed} :
     \A j, k \in DOMAIN l : l[j].udn = l[k].udn => j = k}

\* Mutant: the array's size is not looked at.
ParsedAll(l) == l

\* ha_parse_media_players: the first MAX_RENDERERS of them.
Parsed(l) == SubSeq(l, 1, Lesser(Len(l), MaxRenderers))

\* ha_fetch_hidden_entity_ids: as many as fit; none, and no complaint, if it fails.
HiddenIds(failed) ==
  IF failed THEN {{}}
  ELSE {h \in SUBSET Native : Cardinality(h) = Lesser(Cardinality(Native), MaxRenderers)}

\* The loop that moves the entities not hidden to the front, n of them looked at.
Kept(l, hidden) ==
  LET kept[n \in 0..Len(l)] ==
        IF n = 0 THEN <<>>
        ELSE IF l[n].udn \in hidden THEN kept[n - 1]
        ELSE Append(kept[n - 1], l[n])
  IN kept[Len(l)]

Fetch(t, next) ==
  /\ pc[t] = "fetch"
  /\ \E l \in StateLists, failed \in BOOLEAN : \E hidden \in HiddenIds(failed) :
       /\ entities' = [s \in Threads |->
            IF s = t THEN Kept(Parsed(l), hidden)
            ELSE IF pc[s] \in {"drop", "sync"} THEN entities[s] ELSE <<>>]
       /\ blind' = (failed /\ l # <<>>)
  /\ last' = t /\ refused' = {}
  /\ GoTo(t, next)
  /\ UNCHANGED <<slot, glMainRunning, mutexes, server>>

\* AddHADevices fetches to add, RefreshHADevices to remove and then to add.
AddFetch     == Fetch("main", "sync")
RefreshFetch == Fetch("mt", "drop")

RefreshFetchFails ==
  /\ pc["mt"] = "fetch"
  /\ GoTo("mt", PassEnd("mt"))
  /\ UNCHANGED <<slot, glMainRunning, mutexes, server, entities, history>>

\* AddHADevices failed: main runs Stop(true).
AddFetchFails ==
  /\ pc["main"] = "fetch"
  /\ Overlap \/ pc["mt"] = "sleep"
  /\ glMainRunning' = FALSE
  /\ GoTo("main", "flush")
  /\ UNCHANGED <<slot, mutexes, server, entities, history>>

-----------------------------------------------------------------------------
(* AddHADevices, and RefreshHADevices' second loop.                        *)

\* Mutant: only the first slot is searched.
SearchUDNFirst(e) == {i \in {1} : slot[i].udn = e}

\* SearchUDN: the first running device of that UDN, if there is one.
SearchUDN(e) == {i \in Slots : slot[i].udn = e /\ \A j \in 1..(i - 1) : slot[j].udn # e}

IsFirstFree(i) == ~Running(i) /\ \A j \in 1..(i - 1) : Running(j)

\* AddHADevice, in whatever the slot holds by then: a disabled entity leaves it alone
\* but for the configuration; the name is the configuration's, if it has one and
\* force_name is not set.
AddHADevice(i, e, force_name) ==
  \/ /\ e.udn \in Disabled
     /\ slot' = IF Running(i) THEN [slot EXCEPT ![i].shown = ConfigName[e.udn]] ELSE slot
     /\ UNCHANGED <<advertised, refused>>
  \/ /\ e.udn \notin Disabled
     /\ slot' = [slot EXCEPT ![i] =
          [udn   |-> e.udn, name |-> e.name,
           shown |-> IF force_name \/ ConfigName[e.udn] = NoName
                       THEN e.name ELSE ConfigName[e.udn]]]
     /\ advertised' = IF glmDNSServer = "up" THEN advertised \union {i} ELSE advertised \ {i}
     /\ UNCHANGED refused
  \/ /\ e.udn \notin Disabled      \* raopsr_create fails
     /\ slot' = [slot EXCEPT ![i] = Free] /\ refused' = refused \union {e.udn}
     /\ UNCHANGED advertised

Looping(t) == pc[t] = "sync" /\ picked[t] = NoPick /\ at[t] <= Len(entities[t])
Entity(t)  == entities[t][at[t]]

PickSlot(t) ==
  /\ Looping(t)
  /\ SearchUDN(Entity(t).udn) = {}
  /\ \E i \in Slots :
       /\ IsFirstFree(i)
       /\ picked' = [picked EXCEPT ![t] = [slot |-> i, force_name |-> FALSE]]
  /\ UNCHANGED <<slot, glMainRunning, mutexes, server, pc, at, entities, history>>

FillSlot(t) ==
  /\ picked[t] # NoPick
  /\ AddHADevice(picked[t].slot, Entity(t), picked[t].force_name)
  /\ Advance(t)
  /\ UNCHANGED <<glMainRunning, mutexes, glmDNSServer, entities, last, blind>>

\* "Too many devices": the loop is left.
NoSlotLeft(t) ==
  /\ Looping(t)
  /\ SearchUDN(Entity(t).udn) = {}
  /\ \A i \in Slots : Running(i)
  /\ GoTo(t, PassEnd(t))
  /\ UNCHANGED <<slot, glMainRunning, mutexes, server, entities, history>>

AlreadyThere(t) ==
  /\ Looping(t)
  /\ \E i \in SearchUDN(Entity(t).udn) :
       t = "main" \/ slot[i].name = Entity(t).name
  /\ Advance(t)
  /\ UNCHANGED <<slot, glMainRunning, mutexes, server, entities, history>>

\* Mutant: auto_name is not looked at.
AutoNamedAlways(i) == TRUE

\* auto_name: the target is shown under the entity's name.
AutoNamed(i) == slot[i].shown = slot[i].name

Renamed(i) ==
  /\ Looping("mt")
  /\ i \in SearchUDN(Entity("mt").udn) /\ slot[i].name # Entity("mt").name

\* A target shown under the entity's name is removed, to be added under the new one;
\* the name of another is only remembered.
RenameRemoves ==
  /\ \E i \in Slots :
       /\ Renamed(i) /\ AutoNamed(i)
       /\ slot' = [slot EXCEPT ![i] = Free]
       /\ picked' = [picked EXCEPT !["mt"] = [slot |-> i, force_name |-> TRUE]]
  /\ UNCHANGED <<glMainRunning, mutexes, server, pc, at, entities, history>>

RenameRemembers ==
  /\ \E i \in Slots :
       /\ Renamed(i) /\ ~AutoNamed(i)
       /\ slot' = [slot EXCEPT ![i].name = Entity("mt").name]
  /\ Advance("mt")
  /\ UNCHANGED <<glMainRunning, mutexes, server, entities, history>>

SyncEnd(t) ==
  /\ pc[t] = "sync" /\ at[t] > Len(entities[t])
  /\ GoTo(t, PassEnd(t))
  /\ UNCHANGED <<slot, glMainRunning, mutexes, server, entities, history>>

-----------------------------------------------------------------------------
(* RefreshHADevices' first loop: targets no longer listed are removed.     *)

HAEntityListContainsUDN(l, udn) == \E k \in 1..Len(l) : l[k].udn = udn

\* Mutant: the last slot is never looked at.
DropStepShort ==
  /\ pc["mt"] = "drop" /\ at["mt"] <= MaxDevices
  /\ LET i == at["mt"]
     IN slot' = IF HAEntityListContainsUDN(entities["mt"], slot[i].udn) \/ i = MaxDevices
                  THEN slot ELSE [slot EXCEPT ![i] = Free]
  /\ Advance("mt")
  /\ UNCHANGED <<glMainRunning, mutexes, server, entities, history>>

DropStep ==
  /\ pc["mt"] = "drop" /\ at["mt"] <= MaxDevices
  /\ LET i == at["mt"]
     IN slot' = IF HAEntityListContainsUDN(entities["mt"], slot[i].udn)
                  THEN slot ELSE [slot EXCEPT ![i] = Free]
  /\ Advance("mt")
  /\ UNCHANGED <<glMainRunning, mutexes, server, entities, history>>

DropEnd ==
  /\ pc["mt"] = "drop" /\ at["mt"] > MaxDevices
  /\ GoTo("mt", "sync")
  /\ UNCHANGED <<slot, glMainRunning, mutexes, server, entities, history>>

-----------------------------------------------------------------------------
(* MainThread around it.                                                   *)

\* Its sleep ends, by time or by crossthreads_wake.
WakeUp ==
  /\ pc["mt"] = "sleep"
  /\ Overlap \/ pc["main"] \in {"idle", "join"}
  /\ GoTo("mt", IF glMainRunning THEN "check" ELSE "gone")
  /\ UNCHANGED <<slot, glMainRunning, mutexes, server, entities, history>>

SameAddress ==
  /\ pc["mt"] = "check"
  /\ GoTo("mt", "fetch")
  /\ UNCHANGED <<slot, glMainRunning, mutexes, server, entities, history>>

\* A new address: Stop(false) ...
AddressChanged ==
  /\ pc["mt"] = "check"
  /\ glMainRunning' = FALSE
  /\ GoTo("mt", "flush")
  /\ UNCHANGED <<slot, mutexes, server, entities, history>>

\* Mutant: FlushDevices breaks at a free slot instead of going on.
FlushStepBreaks(t) ==
  /\ pc[t] = "flush" /\ at[t] <= MaxDevices
  /\ slot' = [slot EXCEPT ![at[t]] = Free]
  /\ at' = [at EXCEPT ![t] = IF Running(@) THEN @ + 1 ELSE MaxDevices + 1]
  /\ UNCHANGED <<pc, picked, glMainRunning, mutexes, server, entities, history>>

\* ... FlushDevices, which Stop(true) runs too, one slot at a time ...
FlushStep(t) ==
  /\ pc[t] = "flush" /\ at[t] <= MaxDevices
  /\ slot' = [slot EXCEPT ![at[t]] = Free]
  /\ Advance(t)
  /\ UNCHANGED <<glMainRunning, mutexes, server, entities, history>>

FlushEnd(t) ==
  /\ pc[t] = "flush" /\ at[t] > MaxDevices
  /\ glmDNSServer' = "down" /\ advertised' = {}
  /\ GoTo(t, IF t = "main" THEN "join" ELSE "start")
  /\ last' = "nobody"
  /\ UNCHANGED <<slot, glMainRunning, mutexes, entities, refused, blind>>

\* ... then glMainRunning is set again and Start(false) binds to the new address ...
Restart ==
  /\ pc["mt"] = "start"
  /\ glMainRunning' = TRUE
  /\ glmDNSServer' = "up"
  /\ GoTo("mt", "fetch")
  /\ UNCHANGED <<slot, mutexes, advertised, entities, history>>

\* ... or fails, without an interface or a server, which nobody looks at.  The refresh
\* follows either way: raopsr_create gets a server that is stopped, or NULL, and
\* returns (NULL or not) if it does not crash.
RestartFails ==
  /\ pc["mt"] = "start"
  /\ glMainRunning' = TRUE
  /\ GoTo("mt", "fetch")
  /\ UNCHANGED <<slot, mutexes, server, entities, history>>

-----------------------------------------------------------------------------
(* Stop(true), after "exit" or a signal.  Whether MainThread may be at     *)
(* work then is what Overlap decides.                                      *)

Stop ==
  /\ pc["main"] = "idle" \/ (Overlap /\ pc["main"] \in {"fetch", "sync"})
  /\ Overlap \/ pc["mt"] = "sleep"
  /\ glMainRunning' = FALSE
  /\ GoTo("main", "flush")
  /\ UNCHANGED <<slot, mutexes, server, entities, history>>

\* MainThread is woken and joined; the mutexes are destroyed, the array is freed.
StopJoins ==
  /\ pc["main"] = "join" /\ pc["mt"] = "gone"
  /\ mutexes' = FALSE
  /\ GoTo("main", "done")
  /\ UNCHANGED <<slot, glMainRunning, server, entities, history>>

-----------------------------------------------------------------------------
Sync(t) == PickSlot(t) \/ FillSlot(t) \/ NoSlotLeft(t) \/ AlreadyThere(t) \/ SyncEnd(t)

MainSteps == AddFetch \/ AddFetchFails \/ Sync("main")
MainThread ==
  \/ WakeUp \/ SameAddress \/ AddressChanged \/ FlushStep("mt") \/ FlushEnd("mt")
  \/ Restart \/ RestartFails
  \/ RefreshFetch \/ RefreshFetchFails \/ DropStep \/ DropEnd \/ Sync("mt")
  \/ RenameRemoves \/ RenameRemembers
Stopping == FlushStep("main") \/ FlushEnd("main") \/ StopJoins

Next == MainSteps \/ MainThread \/ Stop \/ Stopping

Spec == Init /\ [][Next]_vars

-----------------------------------------------------------------------------
(* Properties *)

Has(i, e) == Running(i) /\ slot[i].udn = e.udn /\ slot[i].name = e.name
AtRest == pc["main"] = "idle" /\ pc["mt"] = "sleep"
Answer == IF last = "nobody" THEN <<>> ELSE entities[last]

\* An entity never has two targets (SearchUDN before every AddHADevice, and the slot of
\* a renamed one used again), as long as the two threads take turns.
NoTwins ==
  \A i, j \in Slots : Running(i) /\ slot[i].udn = slot[j].udn => i = j

\* Between two refreshes the targets are those of Home Assistant's last answer, under
\* their names: none is left of an entity that went away, and one is missing only if
\* it is disabled, its receiver could not be created, or every slot is taken.  A failed
\* fetch changes nothing.
Synced ==
  AtRest =>
    /\ \A i \in Slots : Running(i) => HAEntityListContainsUDN(Answer, slot[i].udn)
    /\ \A k \in 1..Len(Answer) :
         \/ \E i \in Slots : Has(i, Answer[k])
         \/ Answer[k].udn \in Disabled \union refused
         \/ \A i \in Slots : Running(i)

\* What a target is called: a name the configuration gives, unless Home Assistant gives
\* the same one to some entity, stays whatever is renamed; without one the target
\* follows the entity (force_name and auto_name, airhass.c:434, 510).
AdvertisedName ==
  \A i \in Slots : Running(i) =>
    LET configured == ConfigName[slot[i].udn]
    IN /\ configured = NoName => slot[i].shown = slot[i].name
       /\ configured \notin Names \union {NoName} => slot[i].shown = configured

\* Once an mDNS server runs, every target is registered with it: none is left over from
\* the server Stop(false) stopped, nor from a refresh that ran without one because
\* Start(false) had failed (until a server is started again, such a refresh's targets
\* are heard by nobody, which no property denies).
Advertised ==
  glmDNSServer = "up" => \A i \in Slots : Running(i) => i \in advertised

\* "Native apple_tv and airplay targets are always hidden" (README.md:18).
NativeHidden ==
  \A i \in Slots : slot[i].udn \notin Native

\* "mutexes must always be valid" (airhass.c:564): a running target has one.
MutexesValid ==
  \A i \in Slots : Running(i) => mutexes
=============================================================================
