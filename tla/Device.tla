------------------------------- MODULE Device -------------------------------
(***************************************************************************)
(* One Home Assistant target (struct sMR, airhass.h) and every thread that *)
(* touches it: the manager that adds, removes and flushes it (MainThread   *)
(* and Stop), its poll thread (HAThread), and the threads of its AirPlay   *)
(* receiver that enter raop_cb: the RTSP thread and the RTP thread of each *)
(* streamer.  A SETUP starts a streamer and keeps it in ctx->ht whether    *)
(* one is there or not; one that is overwritten is adrift: its RTP thread  *)
(* is never asked to end.                                                  *)
(*                                                                         *)
(* A critical section in which the code calls out over the network is cut  *)
(* at the call: the mutex stays held and other threads run meanwhile.  One *)
(* without such a call is one action.                                      *)
(***************************************************************************)
EXTENDS Naturals

CONSTANTS
  HomeStates,   \* states a media_player reports; idle stands for off and unavailable
  Requests,     \* the RTSP requests made that reach raop_cb, by their event
  Levels,       \* volume levels, any two of them at least 0.01 apart
  NoLevel,      \* what a state without volume_level has in its place
  ConfigFlush,  \* Device->Config.Flush
  Hold,         \* the 1000 ms of airhass.c:320, in clock ticks
  Streamers,    \* the streamers, as many as run at the same time
  NoStreamer    \* ctx->ht = NULL

ASSUME DeviceAssumption ==
  /\ HomeStates \subseteq {"playing", "paused", "idle", "other"}
  /\ HomeStates # {}
  /\ Requests \subseteq {"STREAM", "STOP", "FLUSH", "VOLUME"}
  /\ 0 \in Levels /\ NoLevel \notin Levels
  /\ ConfigFlush \in BOOLEAN
  /\ Hold \in Nat
  /\ NoStreamer \notin Streamers
  /\ {"nobody", "ha", "rtsp"} \cap Streamers = {}

RaopEvents == {"STREAM", "PLAY", "PAUSE", "STOP", "FLUSH", "VOLUME"}
Receivers  == {"rtsp"} \union Streamers

VARIABLES
  running,     \* Device->Running
  raop,        \* Device->Raop: "null", or "ctx" for the last context created
  raopState, state, volume,          \* Device->RaopState, State, Volume
  txAge,       \* ticks since Device->VolumeStampTx, counted up to Hold + 1
  mutex,       \* holder of Device->Mutex
  abMutex,     \* holder of each streamer's ab_mutex, where it is held across raop_cb
  ctx,         \* the receiver's memory: "none", "live" or "freed"
  ctxRunning,  \* ctx->running of the receiver
  ht,          \* ctx->ht, the streamer of the receiver
  rtpRunning,  \* ctx->running of each streamer
  pc,          \* where each receiver thread is, "none" when it does not exist
  call,        \* the event a receiver thread passes to raop_cb
  hapc,        \* where HAThread is
  remote,      \* what Home Assistant answered to HAThread in this iteration
  due,         \* HAThread's now > VolumeStampTx + 1000 (see HAReply)
  pend,        \* the event HAThread is notifying
  op, at,      \* the manager's operation on this device and its next step
  told,        \* the last media service called, play_media or media_stop
  vague,       \* State left PLAYING by an answer that stands for no event, and
               \* RaopState still says PLAY, which is not play_media's
  adrift,      \* the streamers whose place in ctx->ht was overwritten
  unsettled,   \* Home Assistant does not show the sender's last level yet
  stale,       \* the poll under way was read before the sender's last level showed
  pollAge      \* ticks from that level, if it did not show, or else from the read, to
               \* the answer, counted up to Hold + 1

device  == <<running, raop, raopState, state, volume, txAge>>
context == <<ctx, ctxRunning, ht, rtpRunning, pc, call>>
mgr     == <<op, at>>
poller  == <<hapc, remote, due, pend>>
history == <<told, vague, adrift>>
timing  == <<unsettled, stale, pollAge>>
vars == <<device, mutex, abMutex, context, poller, mgr, history, timing>>

Idle     == op = "none"
NoCall   == [event |-> "none", level |-> 0]
NoAnswer == [state |-> "", level |-> NoLevel]
Answers  == [state : HomeStates, level : Levels \union {NoLevel}]

DeviceType ==
  /\ running \in BOOLEAN
  /\ raop \in {"null", "ctx"}
  /\ raopState \in RaopEvents
  /\ state \in {"STOPPED", "PLAYING", "PAUSED"}
  /\ volume \in Levels
  /\ txAge \in 0..(Hold + 1)

LockType ==
  /\ mutex \in {"nobody", "ha"} \union Receivers
  /\ abMutex \in [Streamers -> {"nobody"} \union Receivers]

ContextType ==
  /\ ctx \in {"none", "live", "freed"}
  /\ ctxRunning \in BOOLEAN
  /\ ht \in Streamers \union {NoStreamer}
  /\ rtpRunning \in [Streamers -> BOOLEAN]
  /\ pc \in [Receivers -> {"none", "ready", "lock", "call", "held", "join"}]
  /\ call \in [Receivers -> [event : RaopEvents \union {"none"}, level : Levels]]

PollerType ==
  /\ hapc \in {"none", "top", "read", "fetch", "lock", "notify", "volume",
               "notifyVolume"}
  /\ remote \in [state : HomeStates \union {""}, level : Levels \union {NoLevel}]
  /\ due \in BOOLEAN
  /\ pend \in {"NONE", "PLAY", "PAUSE", "STOP"}

ManagerType ==
  /\ op \in {"none", "add", "remove", "flush"}
  /\ at \in {"idle", "create", "start", "stop", "delete", "joinRtsp", "joinRtp",
             "joinHA"}

HistoryType ==
  /\ told \in {"none", "play", "stop"}
  /\ vague \in BOOLEAN
  /\ adrift \subseteq Streamers
  /\ unsettled \in BOOLEAN /\ stale \in BOOLEAN
  /\ pollAge \in 0..(Hold + 1)

TypeOK ==
  /\ DeviceType /\ LockType /\ ContextType
  /\ PollerType /\ ManagerType /\ HistoryType

Init ==
  /\ running = FALSE /\ raop = "null"
  /\ raopState = "STOP" /\ state = "STOPPED" /\ volume = 0 /\ txAge = Hold + 1
  /\ mutex = "nobody" /\ abMutex = [s \in Streamers |-> "nobody"]
  /\ ctx = "none" /\ ctxRunning = FALSE
  /\ ht = NoStreamer /\ rtpRunning = [s \in Streamers |-> FALSE]
  /\ pc = [t \in Receivers |-> "none"]
  /\ call = [t \in Receivers |-> NoCall]
  /\ hapc = "none"
  /\ remote = NoAnswer /\ due = FALSE /\ pend = "NONE"
  /\ op = "none" /\ at = "idle"
  /\ told = "none" /\ vague = FALSE /\ adrift = {}
  /\ unsettled = FALSE /\ stale = FALSE /\ pollAge = 0

-----------------------------------------------------------------------------
(* AddHADevice: a free slot is filled in without taking its mutex; the     *)
(* threads start one after the other.                                      *)

AddHADevice ==
  /\ Idle /\ ~running
  /\ op' = "add" /\ at' = "create"
  /\ running' = TRUE /\ raop' = "null"
  /\ raopState' = "STOP" /\ state' = "STOPPED" /\ volume' = 0
  /\ txAge' = Hold + 1      \* both stamps are set to now - 2000
  /\ vague' = FALSE
  /\ UNCHANGED <<mutex, abMutex, context, poller, told, adrift, timing>>

\* raopsr_create found no port: the slot is free again.
RaopsrCreateFails ==
  /\ op = "add" /\ at = "create"
  /\ running' = FALSE
  /\ op' = "none" /\ at' = "idle"
  /\ UNCHANGED <<raop, raopState, state, volume, txAge, mutex, abMutex, context,
                 poller, history, timing>>

\* The RTSP thread runs before Device->Raop is assigned.
RaopsrCreate ==
  /\ op = "add" /\ at = "create"
  /\ ctx' = "live" /\ ctxRunning' = TRUE /\ ht' = NoStreamer
  /\ pc' = [pc EXCEPT !["rtsp"] = "ready"]
  /\ op' = "add" /\ at' = "start"
  /\ UNCHANGED <<device, mutex, abMutex, rtpRunning, call, poller, history,
                 timing>>

StartHAThread ==
  /\ op = "add" /\ at = "start"
  /\ raop' = "ctx"
  /\ hapc' = "top"
  /\ op' = "none" /\ at' = "idle"
  /\ UNCHANGED <<running, raopState, state, volume, txAge, mutex, abMutex, context,
                 remote, due, pend, history, timing>>

-----------------------------------------------------------------------------
(* RemoveHADevice clears Running, deletes the receiver, joins HAThread.    *)
(* FlushDevices deletes the receiver first, then clears Running.           *)

BeginRemove ==
  /\ Idle /\ running
  /\ op' = "remove" /\ at' = "stop"
  /\ UNCHANGED <<device, mutex, abMutex, context, poller, history, timing>>

BeginFlush ==
  /\ Idle /\ running
  /\ op' = "flush" /\ at' = "delete"
  /\ UNCHANGED <<device, mutex, abMutex, context, poller, history, timing>>

\* Running is cleared under the mutex, by either operation.
ClearRunning ==
  /\ at = "stop"
  /\ mutex = "nobody"
  /\ running' = FALSE
  /\ unsettled' = FALSE      \* the next player is another one
  /\ at' = (IF op = "remove" THEN "delete" ELSE "joinHA") /\ UNCHANGED op
  /\ UNCHANGED <<raop, raopState, state, volume, txAge, mutex, abMutex, context,
                 poller, history, stale, pollAge>>

\* raopsr_delete asks the RTSP thread to leave ...
RaopsrDelete ==
  /\ at = "delete"
  /\ ctxRunning' = FALSE
  /\ at' = "joinRtsp" /\ UNCHANGED op
  /\ UNCHANGED <<device, mutex, abMutex, ctx, ht, rtpRunning, pc, call, poller,
                 history, timing>>

\* raopst_end asks the threads of the streamer in ctx->ht to leave, if there is one.
StreamerAsked == [s \in Streamers |-> rtpRunning[s] /\ s # ht]
StreamerGone  == ht # NoStreamer => pc[ht] = "none"

\* Mutant: raopsr_delete without its pthread_join of the RTSP thread.
JoinRtspForgotten ==
  /\ at = "joinRtsp"
  /\ rtpRunning' = StreamerAsked
  /\ at' = "joinRtp" /\ UNCHANGED op
  /\ UNCHANGED <<device, mutex, abMutex, ctx, ctxRunning, ht, pc, call, poller,
                 history, timing>>

\* ... joins it and, in raopst_end, asks the streamer's threads to leave ...
JoinRtsp ==
  /\ at = "joinRtsp"
  /\ pc["rtsp"] = "none"
  /\ rtpRunning' = StreamerAsked
  /\ at' = "joinRtp" /\ UNCHANGED op
  /\ UNCHANGED <<device, mutex, abMutex, ctx, ctxRunning, ht, pc, call, poller,
                 history, timing>>

\* ... joins them too (the HTTP thread never enters raop_cb) and frees the context.
FreeContext ==
  /\ at = "joinRtp"
  /\ StreamerGone
  /\ ctx' = "freed" /\ ht' = NoStreamer
  /\ at' = (IF op = "remove" THEN "joinHA" ELSE "stop") /\ UNCHANGED op
  /\ UNCHANGED <<device, mutex, abMutex, ctxRunning, rtpRunning, pc, call, poller,
                 history, timing>>

\* Mutant: HAThread is not joined.
JoinHAThreadForgotten ==
  /\ at = "joinHA"
  /\ raop' = IF op = "remove" THEN "null" ELSE raop
  /\ op' = "none" /\ at' = "idle"
  /\ UNCHANGED <<running, raopState, state, volume, txAge, mutex, abMutex, context,
                 poller, history, timing>>

\* FlushDevices leaves Device->Raop pointing at the freed context.
JoinHAThread ==
  /\ at = "joinHA"
  /\ hapc = "none"
  /\ raop' = IF op = "remove" THEN "null" ELSE raop
  /\ op' = "none" /\ at' = "idle"
  /\ UNCHANGED <<running, raopState, state, volume, txAge, mutex, abMutex, context,
                 poller, history, timing>>

-----------------------------------------------------------------------------
(* The receiver's threads (raop_server.c, raop_streamer.c) as callers of   *)
(* raop_cb.  ab_mutex is held across the call for FLUSH and for PLAY.      *)
(*                                                                         *)
(* A streamer adrift keeps the context it was started with as its owner    *)
(* and calls through it even when it was freed.  The process may crash     *)
(* there, which ends the behaviour; the model goes on with the outcome in  *)
(* which the memory still reads as it did: raop_cb on the same slot.       *)

Overwritten == adrift \union ({ht} \ {NoStreamer})

\* SETUP starts a streaming session, the next one if there is one already.
Setup ==
  /\ pc["rtsp"] = "ready" /\ ctxRunning
  /\ \E s \in Streamers :
       /\ pc[s] = "none"
       /\ ht' = s
       /\ rtpRunning' = [rtpRunning EXCEPT ![s] = TRUE]
       /\ pc' = [pc EXCEPT ![s] = "ready"]
  /\ adrift' = Overwritten
  /\ UNCHANGED <<device, mutex, abMutex, ctx, ctxRunning, call, poller, mgr, told,
                 vague, timing>>

\* raopst_init fails, with ctx->ht overwritten all the same.
SetupRefused ==
  /\ pc["rtsp"] = "ready" /\ ctxRunning
  /\ ht' = NoStreamer
  /\ adrift' = Overwritten
  /\ UNCHANGED <<device, mutex, abMutex, ctx, ctxRunning, rtpRunning, pc, call, poller,
                 mgr, told, vague, timing>>

\* Requests come in any order.
RtspEvent(e, v) ==
  /\ pc["rtsp"] = "ready" /\ ctxRunning
  /\ e # "VOLUME" => v = 0
  /\ e = "FLUSH" => ht # NoStreamer
  /\ call' = [call EXCEPT !["rtsp"] = [event |-> e, level |-> v]]
  /\ pc' = [pc EXCEPT !["rtsp"] = IF e = "FLUSH" THEN "lock" ELSE "call"]
  /\ UNCHANGED <<device, mutex, abMutex, ctx, ctxRunning, ht, rtpRunning, poller, mgr,
                 history, timing>>

\* The first audible frame after RECORD or FLUSH: buffer_put_packet raises
\* RAOP_STREAMER_PLAY (any number of times here; the ring buffer decides when).
RtpPlay(s) ==
  /\ pc[s] = "ready" /\ rtpRunning[s]
  /\ call' = [call EXCEPT ![s] = [event |-> "PLAY", level |-> 0]]
  /\ pc' = [pc EXCEPT ![s] = "lock"]
  /\ UNCHANGED <<device, mutex, abMutex, ctx, ctxRunning, ht, rtpRunning, poller, mgr,
                 history, timing>>

TakeAbMutex(t) ==
  LET s == IF t = "rtsp" THEN ht ELSE t
  IN /\ pc[t] = "lock"
     /\ abMutex[s] = "nobody"
     /\ abMutex' = [abMutex EXCEPT ![s] = t]
     /\ pc' = [pc EXCEPT ![t] = "call"]
     /\ UNCHANGED <<device, mutex, ctx, ctxRunning, ht, rtpRunning, call, poller, mgr,
                    history, timing>>

RtspExit ==
  /\ pc["rtsp"] = "ready" /\ ~ctxRunning
  /\ pc' = [pc EXCEPT !["rtsp"] = "none"]
  /\ UNCHANGED <<device, mutex, abMutex, ctx, ctxRunning, ht, rtpRunning, call, poller,
                 mgr, history, timing>>

RtpExit(s) ==
  /\ pc[s] = "ready" /\ ~rtpRunning[s]
  /\ pc' = [pc EXCEPT ![s] = "none"]
  /\ UNCHANGED <<device, mutex, abMutex, ctx, ctxRunning, ht, rtpRunning, call, poller,
                 mgr, history, timing>>

\* TEARDOWN joins the RTP thread once its callback has returned.
TeardownJoin ==
  /\ pc["rtsp"] = "join" /\ StreamerGone
  /\ ht' = NoStreamer
  /\ pc' = [pc EXCEPT !["rtsp"] = "ready"]
  /\ UNCHANGED <<device, mutex, abMutex, ctx, ctxRunning, rtpRunning, call, poller,
                 mgr, history, timing>>

-----------------------------------------------------------------------------
(* raop_cb, its switch first.  Each operator gives the device and the      *)
(* service called for one event.                                           *)

levels == <<volume, txAge, due, unsettled, stale>>

OnStream ==
  raopState' = "STREAM" /\ UNCHANGED <<told, levels>>

OnStop ==
  raopState' = "STOP" /\ told' = "stop" /\ UNCHANGED levels

\* Mutant: the flush stops the player but leaves RaopState alone.
OnFlushUnrecorded ==
  /\ told' = IF ConfigFlush THEN "stop" ELSE told
  /\ UNCHANGED <<raopState, levels>>

OnFlush ==
  /\ IF ConfigFlush THEN raopState' = "FLUSH" /\ told' = "stop"
                    ELSE UNCHANGED <<raopState, told>>
  /\ UNCHANGED levels

OnPlay ==
  /\ raopState' = "PLAY"
  /\ told' = IF raopState # "PLAY" THEN "play" ELSE told
  /\ UNCHANGED levels

\* The service call for a new level begins; a poll read before it is stale.
SendLevel == unsettled' = TRUE /\ stale' = (hapc \in {"fetch", "lock"})

\* Mutant: VolumeStampTx is not set.
OnVolumeUnstamped(v) ==
  /\ IF v # volume THEN volume' = v /\ SendLevel /\ UNCHANGED <<txAge, due>>
                   ELSE UNCHANGED levels
  /\ raopState' = "VOLUME"
  /\ UNCHANGED told

\* A new stamp is later than any time HAThread sampled before it.
OnVolume(v) ==
  /\ IF v # volume THEN volume' = v /\ SendLevel /\ txAge' = 0 /\ due' = FALSE
                   ELSE UNCHANGED levels
  /\ raopState' = "VOLUME"
  /\ UNCHANGED told

OnEvent(e, v) ==
  \/ e = "STREAM" /\ OnStream
  \/ e = "STOP"   /\ OnStop
  \/ e = "FLUSH"  /\ OnFlush
  \/ e = "PLAY"   /\ OnPlay
  \/ e = "VOLUME" /\ OnVolume(v)

\* Mutant: raop_cb does not look at Running.
RaopCbUnchecked(t) ==
  /\ pc[t] = "call"
  /\ mutex = "nobody"
  /\ mutex' = t
  /\ pc' = [pc EXCEPT ![t] = "held"]
  /\ OnEvent(call[t].event, call[t].level)
  /\ vague' = (vague /\ raopState' = "PLAY")
  /\ UNCHANGED <<running, raop, state, abMutex, ctx, ctxRunning, ht, rtpRunning, call,
                 hapc, remote, pend, mgr, adrift, pollAge>>

\* raop_cb up to the service call, made with the mutex held.
RaopCb(t) ==
  /\ pc[t] = "call"
  /\ mutex = "nobody"
  /\ running
  /\ mutex' = t
  /\ pc' = [pc EXCEPT ![t] = "held"]
  /\ OnEvent(call[t].event, call[t].level)
  /\ vague' = (vague /\ raopState' = "PLAY")
  /\ UNCHANGED <<running, raop, state, abMutex, ctx, ctxRunning, ht, rtpRunning, call,
                 hapc, remote, pend, mgr, adrift, pollAge>>

\* "this is async, so player might have been deleted": nothing is done, and the
\* mutex is given back with the return.
RaopCbRefused(t) ==
  /\ pc[t] = "call"
  /\ mutex = "nobody"
  /\ ~running
  /\ mutex' = t
  /\ pc' = [pc EXCEPT ![t] = "held"]
  /\ UNCHANGED <<device, abMutex, ctx, ctxRunning, ht, rtpRunning, call, poller, mgr,
                 history, timing>>

\* Mutant: FLUSH does not come back through raopst_flush_release.
RaopCbReturnUnreleased(t) ==
  /\ pc[t] = "held"
  /\ mutex' = "nobody"
  /\ abMutex' = [s \in Streamers |-> IF abMutex[s] = t /\ t # "rtsp" THEN "nobody"
                                    ELSE abMutex[s]]
  /\ call' = [call EXCEPT ![t] = NoCall]
  /\ IF call[t].event = "STOP"
       THEN pc' = [pc EXCEPT ![t] = "join"] /\ rtpRunning' = StreamerAsked
       ELSE pc' = [pc EXCEPT ![t] = "ready"] /\ UNCHANGED rtpRunning
  /\ UNCHANGED <<device, ctx, ctxRunning, ht, poller, mgr, history, timing>>

\* raop_cb returns; after STOP the RTSP thread ends the streaming session.
RaopCbReturn(t) ==
  /\ pc[t] = "held"
  /\ mutex' = "nobody"
  /\ abMutex' = [s \in Streamers |-> IF abMutex[s] = t THEN "nobody" ELSE abMutex[s]]
  /\ call' = [call EXCEPT ![t] = NoCall]
  /\ IF call[t].event = "STOP"
       THEN pc' = [pc EXCEPT ![t] = "join"] /\ rtpRunning' = StreamerAsked
       ELSE pc' = [pc EXCEPT ![t] = "ready"] /\ UNCHANGED rtpRunning
  /\ UNCHANGED <<device, ctx, ctxRunning, ht, poller, mgr, history, timing>>

-----------------------------------------------------------------------------
(* HAThread: poll Home Assistant, compare under the mutex, notify the      *)
(* AirPlay sender.                                                         *)

HAPlayerState(s) ==
  CASE s = "playing" -> "PLAYING" [] s = "paused" -> "PAUSED" [] OTHER -> "STOPPED"

\* ha_state_to_raop_event: what to tell a sender last seen in state current.
HaStateToRaopEvent(s, current) ==
  CASE s = "playing" /\ current # "PLAY" -> "PLAY"
    [] s = "paused"  /\ current = "PLAY" -> "PAUSE"
    [] s = "idle"    /\ current # "STOP" -> "STOP"
    [] OTHER                             -> "NONE"

\* while (p->Running), read without the mutex, at some time after the last iteration
HATop ==
  /\ hapc = "top"
  /\ hapc' = IF running THEN "read" ELSE "none"
  /\ UNCHANGED <<device, mutex, abMutex, context, remote, due, pend, mgr, history,
                 timing>>

\* Home Assistant shows the sender's last level from now on: the service call of
\* ha_set_volume, made with the mutex held, has taken effect (external).
HomeSettles ==
  /\ unsettled /\ unsettled' = FALSE
  /\ UNCHANGED <<device, mutex, abMutex, context, poller, mgr, history, stale,
                 pollAge>>

\* Home Assistant reads the player's state, any state, to answer the poll (external).
HARead ==
  /\ hapc = "read"
  /\ remote' \in Answers
  /\ hapc' = "fetch"
  /\ stale' = unsettled
  /\ pollAge' = IF unsettled THEN txAge ELSE 0
  /\ UNCHANGED <<device, mutex, abMutex, context, due, pend, mgr, history, unsettled>>

\* The answer arrives and now is sampled, before the mutex is taken.  The stamp
\* can only move forward past this now, so the test of airhass.c:320 is decided
\* here unless raop_cb sends a volume in between (OnVolume).
HAReply ==
  /\ hapc = "fetch"
  /\ due' = (txAge > Hold)
  /\ hapc' = "lock"
  /\ UNCHANGED <<device, mutex, abMutex, context, remote, pend, mgr, history, timing>>

\* The end of an iteration: its locals go out of scope, and HAThread sleeps for
\* HA_POLL before it looks at Running again.
EndIteration(next) ==
  /\ hapc' = next
  /\ remote' = NoAnswer /\ due' = FALSE /\ pend' = "NONE"
  /\ stale' = FALSE /\ pollAge' = 0 /\ UNCHANGED unsettled

HAFail ==
  /\ hapc = "fetch"
  /\ EndIteration("top")
  /\ UNCHANGED <<device, mutex, abMutex, context, mgr, history>>

HALeave ==
  /\ hapc = "lock"
  /\ mutex = "nobody"
  /\ ~running
  /\ EndIteration("none")
  /\ UNCHANGED <<device, mutex, abMutex, context, mgr, history>>

\* The answer's state is not read again, and its age matters only if it is stale.
DecideHistory(next) ==
  /\ remote' = [remote EXCEPT !.state = ""]
  /\ vague' = IF next = state THEN vague
             ELSE remote.state = "other" /\ raopState = "PLAY" /\ told # "play"
  /\ pollAge' = IF stale THEN pollAge ELSE 0

\* Mutant: an event is notified without asking whether there is one.
HADecideAlwaysNotifies ==
  LET next == HAPlayerState(remote.state)
  IN /\ hapc = "lock"
     /\ mutex = "nobody"
     /\ running
     /\ mutex' = "ha"
     /\ state' = next
     /\ pend' = IF next = state THEN "NONE"
                ELSE HaStateToRaopEvent(remote.state, raopState)
     /\ hapc' = "notify"
     /\ DecideHistory(next)
     /\ UNCHANGED <<running, raop, raopState, volume, txAge, abMutex, context, due, mgr,
                    told, adrift, unsettled, stale>>

\* The answer is compared with State, and its event with RaopState; an event is
\* notified with the mutex held.
HADecide ==
  LET next   == HAPlayerState(remote.state)
      action == IF next = state THEN "NONE"
                ELSE HaStateToRaopEvent(remote.state, raopState)
  IN /\ hapc = "lock"
     /\ mutex = "nobody"
     /\ running
     /\ mutex' = "ha"
     /\ state' = next
     /\ pend' = action
     /\ hapc' = IF action = "NONE" THEN "volume" ELSE "notify"
     /\ DecideHistory(next)
     /\ UNCHANGED <<running, raop, raopState, volume, txAge, abMutex, context, due, mgr,
                    told, adrift, unsettled, stale>>

\* raopsr_notify returns once the sender has answered, or at once without a remote.
HANotified ==
  /\ hapc = "notify"
  /\ raopState' = pend /\ pend' = "NONE"
  /\ hapc' = "volume"
  /\ UNCHANGED <<running, raop, state, volume, txAge, mutex, abMutex, context, remote,
                 due, mgr, history, timing>>

\* Mutant: the difference is compared without fabs.
NewLevelLouder == remote.level # NoLevel /\ remote.level > volume /\ due

NewLevel == remote.level \notin {NoLevel, volume} /\ due

HAVolume ==
  /\ hapc = "volume" /\ NewLevel
  /\ volume' = remote.level
  /\ hapc' = "notifyVolume"
  /\ UNCHANGED <<running, raop, raopState, state, txAge, mutex, abMutex, context,
                 remote, due, pend, mgr, history, timing>>

HAUnlock ==
  /\ hapc = "notifyVolume" \/ (hapc = "volume" /\ ~NewLevel)
  /\ mutex' = "nobody"
  /\ EndIteration("top")
  /\ UNCHANGED <<device, abMutex, context, mgr, history>>

-----------------------------------------------------------------------------
\* Time passes, as much of it as Home Assistant takes: no call has a timeout.
Older(age) == IF age <= Hold THEN age + 1 ELSE age

Tick ==
  /\ txAge <= Hold \/ hapc = "fetch"
  /\ txAge' = Older(txAge)
  /\ pollAge' = IF hapc = "fetch" THEN Older(pollAge) ELSE pollAge
  /\ UNCHANGED <<running, raop, raopState, state, volume, mutex, abMutex, context,
                 poller, mgr, history, unsettled, stale>>

-----------------------------------------------------------------------------
Manager ==
  \/ AddHADevice \/ RaopsrCreateFails \/ RaopsrCreate \/ StartHAThread
  \/ BeginRemove \/ BeginFlush \/ ClearRunning
  \/ RaopsrDelete \/ JoinRtsp \/ FreeContext \/ JoinHAThread

Receiver ==
  \/ Setup \/ SetupRefused \/ RtspExit \/ TeardownJoin
  \/ \E s \in Streamers : RtpPlay(s) \/ RtpExit(s)
  \/ \E e \in Requests, v \in Levels : RtspEvent(e, v)
  \/ \E t \in Receivers : TakeAbMutex(t) \/ RaopCb(t) \/ RaopCbRefused(t) \/ RaopCbReturn(t)

Poller ==
  \/ HATop \/ HARead \/ HAReply \/ HAFail \/ HADecide \/ HALeave
  \/ HANotified \/ HAVolume \/ HAUnlock

Next == Manager \/ Receiver \/ Poller \/ HomeSettles \/ Tick

Spec == Init /\ [][Next]_vars

-----------------------------------------------------------------------------
(* Fairness: every thread that has begun something goes on; a network call *)
(* made with the mutex held returns; and a thread that waits for a mutex   *)
(* gets it in the end although others take it too (strong fairness).       *)

ManagerSteps ==
  \/ RaopsrCreate \/ RaopsrCreateFails \/ StartHAThread \/ ClearRunning
  \/ RaopsrDelete \/ JoinRtsp \/ FreeContext \/ JoinHAThread
HASteps ==
  \/ HATop \/ HARead \/ HAReply \/ HAFail \/ HADecide \/ HALeave
  \/ HANotified \/ HAVolume \/ HAUnlock
CallSteps(t) == TakeAbMutex(t) \/ RaopCb(t) \/ RaopCbRefused(t) \/ RaopCbReturn(t)
RtspSteps    == CallSteps("rtsp") \/ TeardownJoin \/ RtspExit
RtpSteps(s)  == CallSteps(s) \/ RtpExit(s)

FairSpec ==
  /\ Spec
  /\ SF_vars(ManagerSteps) /\ SF_vars(HASteps) /\ SF_vars(RtspSteps)
  /\ \A s \in Streamers : SF_vars(RtpSteps(s))

\* For the poll to do its work, Home Assistant answers some polls and time passes.
Answered == SF_vars(HAReply) /\ SF_vars(Tick)

-----------------------------------------------------------------------------
(* Properties *)

\* The receiver's memory outlives the threads that use it: its RTSP thread, the
\* streamer it has in ctx->ht, and HAThread while raopsr_notify works on it.  Two
\* threads do outlive it: the RTP thread of a streamer whose place in ctx->ht a
\* second SETUP took (raop_server.c:464), which nobody joins, and HAThread in
\* FlushDevices, which deletes the receiver while Running still lets HAThread
\* notify it (airhass.c:544 before 546; RemoveHADevice has them the other way
\* round).
ContextAlive ==
  /\ (\E t \in Receivers \ adrift : pc[t] # "none") => ctx = "live"
  /\ hapc \in {"notify", "notifyVolume"} => ctx = "live" \/ op = "flush"

\* A slot the manager may hand to the next entity has no thread of the last one
\* left that could touch it, for AddHADevice overwrites every field without the
\* mutex (airhass.c:424), but for the streamers that a second SETUP set adrift: they
\* still enter raop_cb on it.
FreeSlotQuiet ==
  Idle /\ ~running =>
    /\ hapc = "none" /\ mutex \in {"nobody"} \union adrift
    /\ \A t \in Receivers \ adrift : pc[t] = "none"

\* RAOP_PLAY is swallowed in RaopState PLAY (airhass.c:252), so a PLAY that is not
\* play_media's leaves the speaker silent.  A poll read before the sender's stop
\* and taken after it sets one: State and RaopState say playing when stop_media was
\* the last service called.  It lasts no longer than State does: the next answer
\* that the player is paused or off withdraws it together with State.  The one
\* exception is an answer that moves State to STOPPED and stands for no event
\* (buffering, on), which leaves RaopState as it is.
PlayJustified ==
  raopState = "PLAY" /\ told # "play" =>
    state = "PLAYING" \/ hapc = "notify" \/ vague

\* The AirPlay sender gets back a level that its own last change is replacing only
\* if Home Assistant was slower than the hold of airhass.c:320: with showing the
\* change and answering the poll together.  How long either thread waited for
\* the mutex does not count, for now is sampled before it is taken.
EchoOnlyWhenSlow ==
  hapc = "notifyVolume" /\ stale => pollAge > Hold

\* A removal, a flush or an addition always comes to its end: none of the joins
\* waits for a thread that waits for the mutex or for ab_mutex for ever.
ManagerReturns == ~Idle ~> Idle

\* Once the player's level stays at v and no sender sends another one, the
\* device ends up at v: a level refused during the hold is taken by a later poll.
RaopVolume == \E t \in Receivers : pc[t] \in {"call", "held"} /\ call[t].event = "VOLUME"
LevelConverges ==
  Answered =>
    \A v \in Levels :
      <>[](running /\ Idle /\ (hapc = "fetch" => remote.level = v) /\ ~RaopVolume)
        => <>[](volume = v)

\* What the bridge promises of a target, whatever its threads do in between.
Promise == INSTANCE Bridge WITH up <- running, session <- raopState, level <- volume

\* Only a live target calls services, only a sender's event makes it call one, and
\* Home Assistant's report is weighed against the RaopState it replaces.
KeepsPromise == Promise!Spec
=============================================================================
