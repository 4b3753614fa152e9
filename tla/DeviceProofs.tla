---------------------------- MODULE DeviceProofs ----------------------------
(* What Device guarantees for every set of states, requests and levels and  *)
(* every hold: type correctness, the life of the receiver's memory and      *)
(* threads, how long an unfounded PLAY lasts, which levels come back to the *)
(* sender, and the promise of Bridge.                                       *)
EXTENDS Device, TLAPS

-----------------------------------------------------------------------------
(* The inductive invariant *)

Critical == {"notify", "volume", "notifyVolume"}

\* The device's mutex is held by exactly the thread that is inside.
Locking ==
  /\ mutex = "ha" <=> hapc \in Critical
  /\ \A t \in Receivers : mutex = t <=> pc[t] = "held"
  /\ hapc \in Critical => running

\* What exists at each step of the manager's operation.
NoReceiver == \A t \in Receivers \ adrift : pc[t] = "none"
Served     == ctx = "live" /\ running

\* Every streamer that runs is the receiver's own or adrift.
Owned == \A s \in Streamers : pc[s] # "none" => s = ht \/ s \in adrift

Phase ==
  \/ Idle /\ at = "idle" /\ ~running /\ NoReceiver /\ hapc = "none"
  \/ Idle /\ at = "idle" /\ Served
  \/ op = "add" /\ at = "create" /\ running /\ NoReceiver /\ hapc = "none"
  \/ op = "add" /\ at = "start" /\ Served /\ hapc = "none"
  \/ op = "remove" /\ at = "stop" /\ Served
  \/ op = "remove" /\ at \in {"delete", "joinRtsp"} /\ ctx = "live" /\ ~running
  \/ /\ op = "remove" /\ at = "joinRtp" /\ ctx = "live" /\ ~running
     /\ pc["rtsp"] = "none"
  \/ op = "remove" /\ at = "joinHA" /\ NoReceiver /\ ~running
  \/ op = "flush" /\ at \in {"delete", "joinRtsp"} /\ Served
  \/ op = "flush" /\ at = "joinRtp" /\ Served /\ pc["rtsp"] = "none"
  \/ op = "flush" /\ at = "stop" /\ NoReceiver /\ running
  \/ op = "flush" /\ at = "joinHA" /\ NoReceiver /\ ~running

\* The event being notified was weighed against the RaopState it will replace, and
\* a PLAY comes with the State it reports; what is weighed is an answer.
Weighed ==
  /\ hapc = "notify" =>
       \/ pend = "PLAY"  /\ raopState # "PLAY" /\ state = "PLAYING"
       \/ pend = "PAUSE" /\ raopState = "PLAY"
       \/ pend = "STOP"  /\ raopState # "STOP"
  /\ hapc \in {"fetch", "lock"} => remote.state \in HomeStates

\* A stale answer is no older than the volume that made it stale, or slow, or
\* refused; and a level is sent only when the hold was over.
Freshness ==
  /\ stale => \/ hapc = "fetch" /\ (txAge <= pollAge \/ pollAge > Hold)
              \/ hapc \in {"lock"} \union Critical /\ (~due \/ pollAge > Hold)
  /\ hapc = "notifyVolume" => due

IInv == TypeOK /\ Locking /\ Phase /\ Owned /\ Weighed /\ Freshness /\ PlayJustified

-----------------------------------------------------------------------------
(* Small facts *)

LEMMA ConstantFacts ==
  /\ 0 \in 0..(Hold + 1) /\ Hold + 1 \in 0..(Hold + 1) /\ Hold \in Nat
  /\ 0 \in Levels
BY DeviceAssumption

LEMMA RemoteLevel ==
  ASSUME PollerType
  PROVE  remote.level \in Levels \union {NoLevel}
BY DEF PollerType

LEMMA RtspNotAdrift ==
  ASSUME TypeOK
  PROVE  "rtsp" \notin adrift
BY DeviceAssumption DEF TypeOK, HistoryType

\* Four of the five events leave everything about levels alone.
LEMMA EventCases ==
  ASSUME NEW e, NEW v, OnEvent(e, v)
  PROVE  \/ OnVolume(v)
         \/ /\ UNCHANGED levels
            /\ raopState' \in {raopState, "STREAM", "STOP", "FLUSH", "PLAY"}
            /\ told' \in {told, "stop", "play"}
BY DEF OnEvent, OnStream, OnStop, OnFlush, OnPlay

LEMMA VolumeCases ==
  ASSUME NEW v, OnVolume(v)
  PROVE  /\ raopState' = "VOLUME" /\ told' = told
         /\ \/ /\ txAge' = 0 /\ due' = FALSE
               /\ unsettled' = TRUE /\ stale' = (hapc \in {"fetch", "lock"})
            \/ UNCHANGED levels
BY DEF OnVolume, SendLevel

LEMMA VolumeTypes ==
  ASSUME DeviceType, NEW v \in Levels, OnVolume(v)
  PROVE  volume' \in Levels /\ txAge' \in 0..(Hold + 1)
BY ConstantFacts DEF DeviceType, OnVolume, levels

-----------------------------------------------------------------------------
(* Every step keeps the types, part by part. *)

LEMMA DeviceTypeStep ==
  ASSUME TypeOK, Weighed, Next
  PROVE  DeviceType'
<1>1. CASE AddHADevice
  BY <1>1, TypeOK, Weighed, ConstantFacts DEF TypeOK, DeviceType, RaopEvents,
       device, AddHADevice, Idle
<1>2. CASE RaopsrCreateFails
  BY <1>2, TypeOK, Weighed, ConstantFacts DEF TypeOK, DeviceType, RaopEvents,
       device, RaopsrCreateFails
<1>3. CASE StartHAThread
  BY <1>3, TypeOK, Weighed, ConstantFacts DEF TypeOK, DeviceType, RaopEvents,
       device, StartHAThread
<1>4. CASE ClearRunning
  BY <1>4, TypeOK, Weighed, ConstantFacts DEF TypeOK, DeviceType, RaopEvents,
       device, ClearRunning
<1>5. CASE JoinHAThread
  BY <1>5, TypeOK, Weighed, ConstantFacts DEF TypeOK, DeviceType, RaopEvents,
       device, JoinHAThread
<1>6. ASSUME NEW t \in Receivers, RaopCb(t)
      PROVE  DeviceType'
  <2>1. call[t].level \in Levels
    BY TypeOK DEF TypeOK, ContextType
  <2>2. raopState' \in RaopEvents
    BY <1>6, EventCases, VolumeCases, TypeOK DEF RaopCb, TypeOK, DeviceType, RaopEvents
  <2>3. volume' \in Levels /\ txAge' \in 0..(Hold + 1)
    <3>1. CASE OnVolume(call[t].level)
      BY <2>1, <3>1, VolumeTypes, TypeOK DEF TypeOK
    <3>2. CASE UNCHANGED levels
      BY <3>2, TypeOK DEF TypeOK, DeviceType, levels
    <3> QED
      BY <1>6, <3>1, <3>2, EventCases DEF RaopCb
  <2> QED
    BY <1>6, <2>2, <2>3, TypeOK DEF RaopCb, TypeOK, DeviceType
<1>7. CASE HADecide
  <2>1. state' \in {"STOPPED", "PLAYING", "PAUSED"}
    BY <1>7 DEF HADecide, HAPlayerState
  <2> QED
    BY <1>7, <2>1, TypeOK DEF HADecide, TypeOK, DeviceType
<1>8. CASE HANotified
  BY <1>8, TypeOK, Weighed DEF HANotified, Weighed, TypeOK, DeviceType, RaopEvents
<1>9. CASE HAVolume
  BY <1>9, TypeOK, RemoteLevel DEF HAVolume, NewLevel, TypeOK, DeviceType
<1>10. CASE Tick
  BY <1>10, TypeOK, Weighed, ConstantFacts DEF TypeOK, DeviceType,
       RaopEvents, device, Tick, Older
<1>11. CASE RaopsrCreate \/ BeginRemove \/ BeginFlush \/
              RaopsrDelete \/ JoinRtsp \/ FreeContext \/ Setup \/ SetupRefused \/
              RtspExit \/ TeardownJoin \/ HATop \/ HARead \/ HAReply \/ HAFail \/
              HALeave \/ HAUnlock \/ HomeSettles \/ (\E s \in Streamers :
              RtpPlay(s)) \/ (\E s \in Streamers : RtpExit(s)) \/ (\E e \in
              Requests, v \in Levels : RtspEvent(e, v)) \/ (\E t \in Receivers :
              TakeAbMutex(t)) \/ (\E t \in Receivers : RaopCbRefused(t)) \/ (\E t
              \in Receivers : RaopCbReturn(t))
  BY <1>11, TypeOK, Weighed, ConstantFacts DEF TypeOK, DeviceType,
       RaopEvents, device, RaopsrCreate, BeginRemove, Idle, BeginFlush,
       RaopsrDelete, JoinRtsp, FreeContext, Setup, SetupRefused, RtspExit,
       TeardownJoin, RtpPlay, RtpExit, RtspEvent, TakeAbMutex, RaopCbRefused,
       RaopCbReturn, HATop, HARead, HAReply, HAFail, EndIteration, HALeave,
       HAUnlock, HomeSettles
<1> QED
  BY <1>1, <1>2, <1>3, <1>4, <1>5, <1>6, <1>7, <1>8, <1>9, <1>10, <1>11 DEF
     Next, Manager, Receiver, Poller

LEMMA LockTypeStep ==
  ASSUME TypeOK, Phase, Next
  PROVE  LockType'
<1>1. ASSUME NEW t \in Receivers, TakeAbMutex(t)
      PROVE  LockType'
  BY <1>1, TypeOK DEF TypeOK, LockType, Receivers, TakeAbMutex
<1>2. ASSUME NEW t \in Receivers, RaopCb(t)
      PROVE  LockType'
  BY <1>2, TypeOK DEF TypeOK, LockType, Receivers, RaopCb
<1>3. ASSUME NEW t \in Receivers, RaopCbRefused(t)
      PROVE  LockType'
  BY <1>3, TypeOK DEF TypeOK, LockType, Receivers, RaopCbRefused
<1>4. ASSUME NEW t \in Receivers, RaopCbReturn(t)
      PROVE  LockType'
  BY <1>4, TypeOK DEF TypeOK, LockType, Receivers, RaopCbReturn
<1>5. CASE HADecide
  BY <1>5, TypeOK DEF TypeOK, LockType, Receivers, HADecide, DecideHistory
<1>6. CASE HAUnlock
  BY <1>6, TypeOK DEF TypeOK, LockType, Receivers, HAUnlock, EndIteration
<1>7. CASE AddHADevice \/ RaopsrCreateFails \/ RaopsrCreate \/
              StartHAThread \/ BeginRemove \/ BeginFlush \/ ClearRunning \/
              RaopsrDelete \/ JoinRtsp \/ FreeContext \/ JoinHAThread \/ Setup \/
              SetupRefused \/ RtspExit \/ TeardownJoin \/ HATop \/ HARead \/
              HAReply \/ HAFail \/ HALeave \/ HANotified \/ HAVolume \/
              HomeSettles \/ Tick \/ (\E s \in Streamers : RtpPlay(s)) \/ (\E s
              \in Streamers : RtpExit(s)) \/ (\E e \in Requests, v \in Levels :
              RtspEvent(e, v))
  BY <1>7, TypeOK DEF TypeOK, LockType, Receivers, AddHADevice, Idle,
       RaopsrCreateFails, RaopsrCreate, StartHAThread, BeginRemove, BeginFlush,
       ClearRunning, RaopsrDelete, JoinRtsp, FreeContext, JoinHAThread, Setup,
       SetupRefused, RtspExit, TeardownJoin, RtpPlay, RtpExit, RtspEvent, HATop,
       HARead, HAReply, HAFail, EndIteration, HALeave, HANotified, HAVolume,
       HomeSettles, Tick, Older
<1> QED
  BY <1>1, <1>2, <1>3, <1>4, <1>5, <1>6, <1>7 DEF Next, Manager, Receiver,
     Poller

LEMMA ContextTypeStep ==
  ASSUME TypeOK, Next
  PROVE  ContextType'
<1>1. CASE RaopsrCreate
  BY <1>1, TypeOK, ConstantFacts, DeviceAssumption DEF TypeOK, ContextType,
       Receivers, RaopEvents, NoCall, context, RaopsrCreate
<1>2. CASE RaopsrDelete
  BY <1>2, TypeOK, ConstantFacts, DeviceAssumption DEF TypeOK, ContextType,
       Receivers, RaopEvents, NoCall, context, RaopsrDelete
<1>3. CASE JoinRtsp
  BY <1>3, TypeOK, ConstantFacts, DeviceAssumption DEF TypeOK, ContextType,
       Receivers, RaopEvents, NoCall, context, JoinRtsp, StreamerAsked
<1>4. CASE FreeContext
  BY <1>4, TypeOK, ConstantFacts, DeviceAssumption DEF TypeOK, ContextType,
       Receivers, RaopEvents, NoCall, context, FreeContext
<1>5. CASE Setup
  BY <1>5, TypeOK, ConstantFacts, DeviceAssumption DEF TypeOK, ContextType,
       Receivers, RaopEvents, NoCall, context, Setup
<1>6. CASE SetupRefused
  BY <1>6, TypeOK, ConstantFacts, DeviceAssumption DEF TypeOK, ContextType,
       Receivers, RaopEvents, NoCall, context, SetupRefused
<1>7. CASE RtspExit
  BY <1>7, TypeOK, ConstantFacts, DeviceAssumption DEF TypeOK, ContextType,
       Receivers, RaopEvents, NoCall, context, RtspExit
<1>8. CASE TeardownJoin
  BY <1>8, TypeOK, ConstantFacts, DeviceAssumption DEF TypeOK, ContextType,
       Receivers, RaopEvents, NoCall, context, TeardownJoin
<1>9. ASSUME NEW s \in Streamers, RtpPlay(s)
      PROVE  ContextType'
  BY <1>9, TypeOK, ConstantFacts, DeviceAssumption DEF TypeOK, ContextType,
       Receivers, RaopEvents, NoCall, context, RtpPlay
<1>10. ASSUME NEW s \in Streamers, RtpExit(s)
      PROVE  ContextType'
  BY <1>10, TypeOK, ConstantFacts, DeviceAssumption DEF TypeOK, ContextType,
       Receivers, RaopEvents, NoCall, context, RtpExit
<1>11. ASSUME NEW e \in Requests, NEW v \in Levels, RtspEvent(e, v)
      PROVE  ContextType'
  BY <1>11, TypeOK, ConstantFacts, DeviceAssumption DEF TypeOK, ContextType,
       Receivers, RaopEvents, NoCall, context, RtspEvent
<1>12. ASSUME NEW t \in Receivers, TakeAbMutex(t)
      PROVE  ContextType'
  BY <1>12, TypeOK, ConstantFacts, DeviceAssumption DEF TypeOK, ContextType,
       Receivers, RaopEvents, NoCall, context, TakeAbMutex
<1>13. ASSUME NEW t \in Receivers, RaopCb(t)
      PROVE  ContextType'
  BY <1>13, TypeOK, ConstantFacts, DeviceAssumption DEF TypeOK, ContextType,
       Receivers, RaopEvents, NoCall, context, RaopCb
<1>14. ASSUME NEW t \in Receivers, RaopCbRefused(t)
      PROVE  ContextType'
  BY <1>14, TypeOK, ConstantFacts, DeviceAssumption DEF TypeOK, ContextType,
       Receivers, RaopEvents, NoCall, context, RaopCbRefused
<1>15. ASSUME NEW t \in Receivers, RaopCbReturn(t)
      PROVE  ContextType'
  <2>1. call' \in [Receivers -> [event : RaopEvents \union {"none"}, level : Levels]]
    BY <1>15, TypeOK, ConstantFacts DEF RaopCbReturn, TypeOK, ContextType, NoCall
  <2>2. pc' \in [Receivers -> {"none", "ready", "lock", "call", "held", "join"}]
    BY <1>15, TypeOK DEF RaopCbReturn, TypeOK, ContextType
  <2>3. rtpRunning' \in [Streamers -> BOOLEAN]
    <3>1. StreamerAsked \in [Streamers -> BOOLEAN]
      BY DEF StreamerAsked
    <3> QED
      BY <1>15, <3>1, TypeOK DEF RaopCbReturn, TypeOK, ContextType
  <2> QED
    BY <1>15, <2>1, <2>2, <2>3, TypeOK DEF RaopCbReturn, TypeOK, ContextType
<1>16. CASE AddHADevice \/ RaopsrCreateFails \/ StartHAThread \/
              BeginRemove \/ BeginFlush \/ ClearRunning \/ JoinHAThread \/ HATop
              \/ HARead \/ HAReply \/ HAFail \/ HADecide \/ HALeave \/ HANotified
              \/ HAVolume \/ HAUnlock \/ HomeSettles \/ Tick
  BY <1>16, TypeOK, ConstantFacts, DeviceAssumption DEF TypeOK, ContextType,
       Receivers, RaopEvents, NoCall, context, AddHADevice, Idle,
       RaopsrCreateFails, StartHAThread, BeginRemove, BeginFlush, ClearRunning,
       JoinHAThread, HATop, HARead, HAReply, HAFail, EndIteration, HADecide,
       DecideHistory, HALeave, HANotified, HAVolume, HAUnlock, HomeSettles, Tick,
       Older
<1> QED
  BY <1>1, <1>2, <1>3, <1>4, <1>5, <1>6, <1>7, <1>8, <1>9, <1>10, <1>11, <1>12,
     <1>13, <1>14, <1>15, <1>16 DEF Next, Manager, Receiver, Poller

LEMMA PollerTypeStep ==
  ASSUME TypeOK, Next
  PROVE  PollerType'
<1>1. CASE StartHAThread
  BY <1>1, TypeOK DEF TypeOK, PollerType, poller, StartHAThread
<1>2. ASSUME NEW t \in Receivers, RaopCb(t)
      PROVE  PollerType'
  <2>1. due' \in BOOLEAN
    BY <1>2, EventCases, VolumeCases, TypeOK DEF RaopCb, TypeOK, PollerType, levels
  <2> QED
    BY <1>2, <2>1, TypeOK DEF RaopCb, TypeOK, PollerType
<1>3. CASE HATop
  BY <1>3, TypeOK DEF TypeOK, PollerType, poller, HATop
<1>4. CASE HARead
  BY <1>4, TypeOK DEF TypeOK, PollerType, HARead, Answers
<1>5. CASE HAReply
  <2>1. due' \in BOOLEAN
    BY <1>5 DEF HAReply
  <2> QED
    BY <1>5, <2>1, TypeOK DEF HAReply, TypeOK, PollerType
<1>6. CASE HAFail
  BY <1>6, TypeOK DEF TypeOK, PollerType, poller, HAFail, EndIteration,
       NoAnswer
<1>7. CASE HADecide
  BY <1>7, TypeOK DEF TypeOK, PollerType, poller, HADecide, DecideHistory,
       HaStateToRaopEvent
<1>8. CASE HALeave
  BY <1>8, TypeOK DEF TypeOK, PollerType, poller, HALeave, EndIteration,
       NoAnswer
<1>9. CASE HANotified
  BY <1>9, TypeOK DEF TypeOK, PollerType, poller, HANotified
<1>10. CASE HAVolume
  BY <1>10, TypeOK DEF TypeOK, PollerType, poller, HAVolume
<1>11. CASE HAUnlock
  BY <1>11, TypeOK DEF TypeOK, PollerType, poller, HAUnlock, EndIteration,
       NoAnswer
<1>12. CASE AddHADevice \/ RaopsrCreateFails \/ RaopsrCreate \/
              BeginRemove \/ BeginFlush \/ ClearRunning \/ RaopsrDelete \/
              JoinRtsp \/ FreeContext \/ JoinHAThread \/ Setup \/ SetupRefused \/
              RtspExit \/ TeardownJoin \/ HomeSettles \/ Tick \/ (\E s \in
              Streamers : RtpPlay(s)) \/ (\E s \in Streamers : RtpExit(s)) \/ (\E
              e \in Requests, v \in Levels : RtspEvent(e, v)) \/ (\E t \in
              Receivers : TakeAbMutex(t)) \/ (\E t \in Receivers :
              RaopCbRefused(t)) \/ (\E t \in Receivers : RaopCbReturn(t))
  BY <1>12, TypeOK DEF TypeOK, PollerType, poller, AddHADevice, Idle,
       RaopsrCreateFails, RaopsrCreate, BeginRemove, BeginFlush, ClearRunning,
       RaopsrDelete, JoinRtsp, FreeContext, JoinHAThread, Setup, SetupRefused,
       RtspExit, TeardownJoin, RtpPlay, RtpExit, RtspEvent, TakeAbMutex,
       RaopCbRefused, RaopCbReturn, HomeSettles, Tick, Older
<1> QED
  BY <1>1, <1>2, <1>3, <1>4, <1>5, <1>6, <1>7, <1>8, <1>9, <1>10, <1>11, <1>12
     DEF Next, Manager, Receiver, Poller

LEMMA ManagerTypeStep ==
  ASSUME TypeOK, Next
  PROVE  ManagerType'
<1>1. CASE AddHADevice
  BY <1>1, TypeOK DEF TypeOK, ManagerType, mgr, AddHADevice, Idle
<1>2. CASE RaopsrCreateFails
  BY <1>2, TypeOK DEF TypeOK, ManagerType, mgr, RaopsrCreateFails
<1>3. CASE RaopsrCreate
  BY <1>3, TypeOK DEF TypeOK, ManagerType, mgr, RaopsrCreate
<1>4. CASE StartHAThread
  BY <1>4, TypeOK DEF TypeOK, ManagerType, mgr, StartHAThread
<1>5. CASE BeginRemove
  BY <1>5, TypeOK DEF TypeOK, ManagerType, mgr, BeginRemove, Idle
<1>6. CASE BeginFlush
  BY <1>6, TypeOK DEF TypeOK, ManagerType, mgr, BeginFlush, Idle
<1>7. CASE ClearRunning
  BY <1>7, TypeOK DEF TypeOK, ManagerType, mgr, ClearRunning
<1>8. CASE RaopsrDelete
  BY <1>8, TypeOK DEF TypeOK, ManagerType, mgr, RaopsrDelete
<1>9. CASE JoinRtsp
  BY <1>9, TypeOK DEF TypeOK, ManagerType, mgr, JoinRtsp
<1>10. CASE FreeContext
  BY <1>10, TypeOK DEF TypeOK, ManagerType, mgr, FreeContext
<1>11. CASE JoinHAThread
  BY <1>11, TypeOK DEF TypeOK, ManagerType, mgr, JoinHAThread
<1>12. CASE Setup \/ SetupRefused \/ RtspExit \/ TeardownJoin \/
              HATop \/ HARead \/ HAReply \/ HAFail \/ HADecide \/ HALeave \/
              HANotified \/ HAVolume \/ HAUnlock \/ HomeSettles \/ Tick \/ (\E s
              \in Streamers : RtpPlay(s)) \/ (\E s \in Streamers : RtpExit(s)) \/
              (\E e \in Requests, v \in Levels : RtspEvent(e, v)) \/ (\E t \in
              Receivers : TakeAbMutex(t)) \/ (\E t \in Receivers : RaopCb(t)) \/
              (\E t \in Receivers : RaopCbRefused(t)) \/ (\E t \in Receivers :
              RaopCbReturn(t))
  BY <1>12, TypeOK DEF TypeOK, ManagerType, mgr, Setup, SetupRefused,
       RtspExit, TeardownJoin, RtpPlay, RtpExit, RtspEvent, TakeAbMutex, RaopCb,
       RaopCbRefused, RaopCbReturn, HATop, HARead, HAReply, HAFail, EndIteration,
       HADecide, DecideHistory, HALeave, HANotified, HAVolume, HAUnlock,
       HomeSettles, Tick, Older
<1> QED
  BY <1>1, <1>2, <1>3, <1>4, <1>5, <1>6, <1>7, <1>8, <1>9, <1>10, <1>11, <1>12
     DEF Next, Manager, Receiver, Poller

LEMMA HistoryTypeStep ==
  ASSUME TypeOK, Next
  PROVE  HistoryType'
<1>1. CASE AddHADevice
  BY <1>1, TypeOK, ConstantFacts DEF TypeOK, HistoryType, history, timing,
       AddHADevice, Idle
<1>2. CASE ClearRunning
  BY <1>2, TypeOK, ConstantFacts DEF TypeOK, HistoryType, history, timing,
       ClearRunning
<1>3. CASE Setup
  BY <1>3, TypeOK, ConstantFacts DEF TypeOK, HistoryType, history, timing,
       Setup, Overwritten, ContextType
<1>4. CASE SetupRefused
  BY <1>4, TypeOK, ConstantFacts DEF TypeOK, HistoryType, history, timing,
       SetupRefused, Overwritten, ContextType
<1>5. ASSUME NEW t \in Receivers, RaopCb(t)
      PROVE  HistoryType'
  <2>1. told' \in {"none", "play", "stop"}
    BY <1>5, EventCases, VolumeCases, TypeOK DEF RaopCb, TypeOK, HistoryType
  <2>2. unsettled' \in BOOLEAN /\ stale' \in BOOLEAN
    <3>1. CASE UNCHANGED levels
      BY <3>1, TypeOK DEF TypeOK, HistoryType, levels
    <3>2. CASE unsettled' = TRUE /\ stale' = (hapc \in {"fetch", "lock"})
      BY <3>2
    <3> QED
      BY <1>5, <3>1, <3>2, EventCases, VolumeCases DEF RaopCb
  <2>3. vague' \in BOOLEAN
    BY <1>5 DEF RaopCb
  <2> QED
    BY <1>5, <2>1, <2>2, <2>3, TypeOK DEF RaopCb, TypeOK, HistoryType
<1>6. CASE HARead
  BY <1>6, TypeOK, ConstantFacts DEF TypeOK, HistoryType, history, timing,
       HARead, DeviceType
<1>7. CASE HAFail
  BY <1>7, TypeOK, ConstantFacts DEF TypeOK, HistoryType, history, timing,
       HAFail, EndIteration
<1>8. CASE HADecide
  <2>1. vague' \in BOOLEAN
    <3>1. vague' = vague \/ vague' = (remote.state = "other" /\ raopState = "PLAY" /\ told # "play")
      BY <1>8 DEF HADecide, DecideHistory
    <3> QED
      BY <3>1, TypeOK DEF TypeOK, HistoryType
  <2> QED
    BY <1>8, <2>1, TypeOK, ConstantFacts DEF HADecide, DecideHistory, TypeOK, HistoryType
<1>9. CASE HALeave
  BY <1>9, TypeOK, ConstantFacts DEF TypeOK, HistoryType, history, timing,
       HALeave, EndIteration
<1>10. CASE HAUnlock
  BY <1>10, TypeOK, ConstantFacts DEF TypeOK, HistoryType, history, timing,
       HAUnlock, EndIteration
<1>11. CASE Tick
  BY <1>11, TypeOK, ConstantFacts DEF TypeOK, HistoryType, history, timing,
       Tick, Older
<1>12. CASE RaopsrCreateFails \/ RaopsrCreate \/ StartHAThread \/
              BeginRemove \/ BeginFlush \/ RaopsrDelete \/ JoinRtsp \/ FreeContext
              \/ JoinHAThread \/ RtspExit \/ TeardownJoin \/ HATop \/ HAReply \/
              HANotified \/ HAVolume \/ HomeSettles \/ (\E s \in Streamers :
              RtpPlay(s)) \/ (\E s \in Streamers : RtpExit(s)) \/ (\E e \in
              Requests, v \in Levels : RtspEvent(e, v)) \/ (\E t \in Receivers :
              TakeAbMutex(t)) \/ (\E t \in Receivers : RaopCbRefused(t)) \/ (\E t
              \in Receivers : RaopCbReturn(t))
  BY <1>12, TypeOK, ConstantFacts DEF TypeOK, HistoryType, history, timing,
       RaopsrCreateFails, RaopsrCreate, StartHAThread, BeginRemove, Idle,
       BeginFlush, RaopsrDelete, JoinRtsp, FreeContext, JoinHAThread, RtspExit,
       TeardownJoin, RtpPlay, RtpExit, RtspEvent, TakeAbMutex, RaopCbRefused,
       RaopCbReturn, HATop, HAReply, HANotified, HAVolume, HomeSettles
<1> QED
  BY <1>1, <1>2, <1>3, <1>4, <1>5, <1>6, <1>7, <1>8, <1>9, <1>10, <1>11, <1>12
     DEF Next, Manager, Receiver, Poller

LEMMA TypeStep ==
  ASSUME TypeOK, Phase, Weighed, Next
  PROVE  TypeOK'
BY DeviceTypeStep, LockTypeStep, ContextTypeStep, PollerTypeStep, ManagerTypeStep,
   HistoryTypeStep DEF TypeOK

-----------------------------------------------------------------------------
(* Every step keeps the rest of the inductive invariant. *)

\* The mutex: whoever takes it finds it free, whoever gives it back holds it.
LEMMA LockingStep ==
  ASSUME TypeOK, Locking, Phase, Next
  PROVE  Locking'
<1>1. CASE AddHADevice
  BY <1>1, TypeOK, Locking, Phase, DeviceAssumption DEF TypeOK, LockType,
       ContextType, PollerType, Locking, Critical, Receivers, Phase, Served,
       NoReceiver, Idle, device, context, poller, AddHADevice
<1>2. CASE RaopsrCreateFails
  BY <1>2, TypeOK, Locking, Phase, DeviceAssumption DEF TypeOK, LockType,
       ContextType, PollerType, Locking, Critical, Receivers, Phase, Served,
       NoReceiver, Idle, device, context, poller, RaopsrCreateFails
<1>3. CASE RaopsrCreate
  <2>1. pc["rtsp"] = "none" /\ mutex # "rtsp"
    BY <1>3, RtspNotAdrift, TypeOK, Locking, Phase
       DEF RaopsrCreate, Phase, Idle, NoReceiver, Locking, Receivers
  <2> QED
    BY <1>3, <2>1, TypeOK, Locking DEF RaopsrCreate, TypeOK, ContextType, Locking, Receivers,
       device, poller
<1>4. CASE StartHAThread
  BY <1>4, TypeOK, Locking, Phase, DeviceAssumption DEF TypeOK, LockType,
       ContextType, PollerType, Locking, Critical, Receivers, Phase, Served,
       NoReceiver, Idle, device, context, poller, StartHAThread
<1>5. CASE ClearRunning
  BY <1>5, TypeOK, Locking, Phase, DeviceAssumption DEF TypeOK, LockType,
       ContextType, PollerType, Locking, Critical, Receivers, Phase, Served,
       NoReceiver, Idle, device, context, poller, ClearRunning
<1>6. CASE JoinRtsp
  BY <1>6, TypeOK, Locking, Phase, DeviceAssumption DEF TypeOK, LockType,
       ContextType, PollerType, Locking, Critical, Receivers, Phase, Served,
       NoReceiver, Idle, device, context, poller, JoinRtsp
<1>7. CASE FreeContext
  BY <1>7, TypeOK, Locking, Phase, DeviceAssumption DEF TypeOK, LockType,
       ContextType, PollerType, Locking, Critical, Receivers, Phase, Served,
       NoReceiver, Idle, device, context, poller, FreeContext
<1>8. CASE JoinHAThread
  BY <1>8, TypeOK, Locking, Phase, DeviceAssumption DEF TypeOK, LockType,
       ContextType, PollerType, Locking, Critical, Receivers, Phase, Served,
       NoReceiver, Idle, device, context, poller, JoinHAThread
<1>9. CASE Setup
  <2>1. PICK s \in Streamers :
         pc[s] = "none" /\ pc' = [pc EXCEPT ![s] = "ready"]
    BY <1>9 DEF Setup
  <2>2. s \in Receivers /\ mutex # s
    BY <2>1, Locking DEF Locking, Receivers
  <2> QED
    BY <1>9, <2>1, <2>2, TypeOK, Locking
       DEF Setup, TypeOK, ContextType, Locking, device, poller
<1>10. CASE SetupRefused
  BY <1>10, TypeOK, Locking, Phase, DeviceAssumption DEF TypeOK, LockType,
       ContextType, PollerType, Locking, Critical, Receivers, Phase, Served,
       NoReceiver, Idle, device, context, poller, SetupRefused
<1>11. CASE RtspExit
  BY <1>11, TypeOK, Locking, Phase, DeviceAssumption DEF TypeOK, LockType,
       ContextType, PollerType, Locking, Critical, Receivers, Phase, Served,
       NoReceiver, Idle, device, context, poller, RtspExit
<1>12. CASE TeardownJoin
  BY <1>12, TypeOK, Locking, Phase, DeviceAssumption DEF TypeOK, LockType,
       ContextType, PollerType, Locking, Critical, Receivers, Phase, Served,
       NoReceiver, Idle, device, context, poller, TeardownJoin
<1>13. ASSUME NEW s \in Streamers, RtpPlay(s)
      PROVE  Locking'
  BY <1>13, TypeOK, Locking, Phase, DeviceAssumption DEF TypeOK, LockType,
       ContextType, PollerType, Locking, Critical, Receivers, Phase, Served,
       NoReceiver, Idle, device, context, poller, RtpPlay
<1>14. ASSUME NEW s \in Streamers, RtpExit(s)
      PROVE  Locking'
  BY <1>14, TypeOK, Locking, Phase, DeviceAssumption DEF TypeOK, LockType,
       ContextType, PollerType, Locking, Critical, Receivers, Phase, Served,
       NoReceiver, Idle, device, context, poller, RtpExit
<1>15. ASSUME NEW e \in Requests, NEW v \in Levels, RtspEvent(e, v)
      PROVE  Locking'
  BY <1>15, TypeOK, Locking, Phase, DeviceAssumption DEF TypeOK, LockType,
       ContextType, PollerType, Locking, Critical, Receivers, Phase, Served,
       NoReceiver, Idle, device, context, poller, RtspEvent
<1>16. ASSUME NEW t \in Receivers, TakeAbMutex(t)
      PROVE  Locking'
  BY <1>16, TypeOK, Locking, Phase, DeviceAssumption DEF TypeOK, LockType,
       ContextType, PollerType, Locking, Critical, Receivers, Phase, Served,
       NoReceiver, Idle, device, context, poller, TakeAbMutex
<1>17. ASSUME NEW t \in Receivers, RaopCb(t)
      PROVE  Locking'
  BY <1>17, TypeOK, Locking, Phase, DeviceAssumption DEF TypeOK, LockType,
       ContextType, PollerType, Locking, Critical, Receivers, Phase, Served,
       NoReceiver, Idle, device, context, poller, RaopCb
<1>18. ASSUME NEW t \in Receivers, RaopCbRefused(t)
      PROVE  Locking'
  BY <1>18, TypeOK, Locking, Phase, DeviceAssumption DEF TypeOK, LockType,
       ContextType, PollerType, Locking, Critical, Receivers, Phase, Served,
       NoReceiver, Idle, device, context, poller, RaopCbRefused
<1>19. ASSUME NEW t \in Receivers, RaopCbReturn(t)
      PROVE  Locking'
  BY <1>19, TypeOK, Locking, Phase, DeviceAssumption DEF TypeOK, LockType,
       ContextType, PollerType, Locking, Critical, Receivers, Phase, Served,
       NoReceiver, Idle, device, context, poller, RaopCbReturn
<1>20. CASE HATop
  BY <1>20, TypeOK, Locking, Phase, DeviceAssumption DEF TypeOK, LockType,
       ContextType, PollerType, Locking, Critical, Receivers, Phase, Served,
       NoReceiver, Idle, device, context, poller, HATop
<1>21. CASE HARead
  BY <1>21, TypeOK, Locking, Phase, DeviceAssumption DEF TypeOK, LockType,
       ContextType, PollerType, Locking, Critical, Receivers, Phase, Served,
       NoReceiver, Idle, device, context, poller, HARead
<1>22. CASE HAReply
  BY <1>22, TypeOK, Locking, Phase, DeviceAssumption DEF TypeOK, LockType,
       ContextType, PollerType, Locking, Critical, Receivers, Phase, Served,
       NoReceiver, Idle, device, context, poller, HAReply
<1>23. CASE HAFail
  BY <1>23, TypeOK, Locking, Phase, DeviceAssumption DEF TypeOK, LockType,
       ContextType, PollerType, Locking, Critical, Receivers, Phase, Served,
       NoReceiver, Idle, device, context, poller, HAFail, EndIteration
<1>24. CASE HADecide
  BY <1>24, TypeOK, Locking, Phase, DeviceAssumption DEF TypeOK, LockType,
       ContextType, PollerType, Locking, Critical, Receivers, Phase, Served,
       NoReceiver, Idle, device, context, poller, HADecide, DecideHistory
<1>25. CASE HALeave
  BY <1>25, TypeOK, Locking, Phase, DeviceAssumption DEF TypeOK, LockType,
       ContextType, PollerType, Locking, Critical, Receivers, Phase, Served,
       NoReceiver, Idle, device, context, poller, HALeave, EndIteration
<1>26. CASE HANotified
  BY <1>26, TypeOK, Locking, Phase, DeviceAssumption DEF TypeOK, LockType,
       ContextType, PollerType, Locking, Critical, Receivers, Phase, Served,
       NoReceiver, Idle, device, context, poller, HANotified
<1>27. CASE HAVolume
  BY <1>27, TypeOK, Locking, Phase, DeviceAssumption DEF TypeOK, LockType,
       ContextType, PollerType, Locking, Critical, Receivers, Phase, Served,
       NoReceiver, Idle, device, context, poller, HAVolume
<1>28. CASE HAUnlock
  BY <1>28, TypeOK, Locking, Phase, DeviceAssumption DEF TypeOK, LockType,
       ContextType, PollerType, Locking, Critical, Receivers, Phase, Served,
       NoReceiver, Idle, device, context, poller, HAUnlock, EndIteration
<1>29. CASE BeginRemove \/ BeginFlush \/ RaopsrDelete \/ HomeSettles
              \/ Tick
  BY <1>29, TypeOK, Locking, Phase, DeviceAssumption DEF TypeOK, LockType,
       ContextType, PollerType, Locking, Critical, Receivers, Phase, Served,
       NoReceiver, Idle, device, context, poller, BeginRemove, BeginFlush,
       RaopsrDelete, HomeSettles, Tick, Older
<1> QED
  BY <1>1, <1>2, <1>3, <1>4, <1>5, <1>6, <1>7, <1>8, <1>9, <1>10, <1>11, <1>12,
     <1>13, <1>14, <1>15, <1>16, <1>17, <1>18, <1>19, <1>20, <1>21, <1>22, <1>23,
     <1>24, <1>25, <1>26, <1>27, <1>28, <1>29 DEF Next, Manager, Receiver, Poller

\* The manager: each of its steps leaves the next one what it counts on.
LEMMA PhaseStep ==
  ASSUME TypeOK, Phase, Owned, Next
  PROVE  Phase'
<1>1. CASE AddHADevice
  BY <1>1, TypeOK, Phase, Owned DEF TypeOK, ContextType, Phase, Served,
       NoReceiver, Idle, Receivers, device, context, mgr, poller, history,
       AddHADevice
<1>2. CASE RaopsrCreateFails
  BY <1>2, TypeOK, Phase, Owned DEF TypeOK, ContextType, Phase, Served,
       NoReceiver, Idle, Receivers, device, context, mgr, poller, history,
       RaopsrCreateFails
<1>3. CASE RaopsrCreate
  BY <1>3, TypeOK, Phase, Owned DEF TypeOK, ContextType, Phase, Served,
       NoReceiver, Idle, Receivers, device, context, mgr, poller, history,
       RaopsrCreate
<1>4. CASE StartHAThread
  BY <1>4, TypeOK, Phase, Owned DEF TypeOK, ContextType, Phase, Served,
       NoReceiver, Idle, Receivers, device, context, mgr, poller, history,
       StartHAThread
<1>5. CASE BeginRemove
  BY <1>5, TypeOK, Phase, Owned DEF TypeOK, ContextType, Phase, Served,
       NoReceiver, Idle, Receivers, device, context, mgr, poller, history,
       BeginRemove
<1>6. CASE BeginFlush
  BY <1>6, TypeOK, Phase, Owned DEF TypeOK, ContextType, Phase, Served,
       NoReceiver, Idle, Receivers, device, context, mgr, poller, history,
       BeginFlush
<1>7. CASE ClearRunning
  BY <1>7, TypeOK, Phase, Owned DEF TypeOK, ContextType, Phase, Served,
       NoReceiver, Idle, Receivers, device, context, mgr, poller, history,
       ClearRunning
<1>8. CASE RaopsrDelete
  BY <1>8, TypeOK, Phase, Owned DEF TypeOK, ContextType, Phase, Served,
       NoReceiver, Idle, Receivers, device, context, mgr, poller, history,
       RaopsrDelete
<1>9. CASE JoinRtsp
  BY <1>9, TypeOK, Phase, Owned DEF TypeOK, ContextType, Phase, Served,
       NoReceiver, Idle, Receivers, device, context, mgr, poller, history,
       JoinRtsp
<1>10. CASE FreeContext
  <2>1. pc["rtsp"] = "none"
    BY <1>10, Phase DEF FreeContext, Phase, Idle
  <2>2. NoReceiver'
    <3> SUFFICES ASSUME NEW t \in Receivers, t \notin adrift
                 PROVE  pc[t] = "none"
      BY <1>10 DEF FreeContext, NoReceiver, history
    <3> QED
      BY <1>10, <2>1, Owned, TypeOK, DeviceAssumption
         DEF FreeContext, StreamerGone, Owned, Receivers, TypeOK, ContextType
  <2> QED
    BY <1>10, <2>2, Phase DEF FreeContext, Phase, Idle, Served, device
<1>11. CASE JoinHAThread
  BY <1>11, TypeOK, Phase, Owned DEF TypeOK, ContextType, Phase, Served,
       NoReceiver, Idle, Receivers, device, context, mgr, poller, history,
       JoinHAThread
<1>12. CASE Setup
  <2>1. ~NoReceiver
    BY <1>12, RtspNotAdrift, TypeOK DEF Setup, NoReceiver, Receivers
  <2> QED
    BY <1>12, <2>1, Phase DEF Setup, Phase, Idle, Served, device, mgr, poller
<1>13. CASE SetupRefused
  BY <1>13, TypeOK, Phase, Owned DEF TypeOK, ContextType, Phase, Served,
       NoReceiver, Idle, Receivers, device, context, mgr, poller, history,
       SetupRefused, Overwritten
<1>14. CASE RtspExit
  BY <1>14, TypeOK, Phase, Owned DEF TypeOK, ContextType, Phase, Served,
       NoReceiver, Idle, Receivers, device, context, mgr, poller, history,
       RtspExit
<1>15. CASE TeardownJoin
  BY <1>15, TypeOK, Phase, Owned DEF TypeOK, ContextType, Phase, Served,
       NoReceiver, Idle, Receivers, device, context, mgr, poller, history,
       TeardownJoin
<1>16. ASSUME NEW s \in Streamers, RtpPlay(s)
      PROVE  Phase'
  BY <1>16, TypeOK, Phase, Owned DEF TypeOK, ContextType, Phase, Served,
       NoReceiver, Idle, Receivers, device, context, mgr, poller, history, RtpPlay
<1>17. ASSUME NEW s \in Streamers, RtpExit(s)
      PROVE  Phase'
  BY <1>17, TypeOK, Phase, Owned DEF TypeOK, ContextType, Phase, Served,
       NoReceiver, Idle, Receivers, device, context, mgr, poller, history, RtpExit
<1>18. ASSUME NEW e \in Requests, NEW v \in Levels, RtspEvent(e, v)
      PROVE  Phase'
  BY <1>18, TypeOK, Phase, Owned DEF TypeOK, ContextType, Phase, Served,
       NoReceiver, Idle, Receivers, device, context, mgr, poller, history,
       RtspEvent
<1>19. ASSUME NEW t \in Receivers, TakeAbMutex(t)
      PROVE  Phase'
  BY <1>19, TypeOK, Phase, Owned DEF TypeOK, ContextType, Phase, Served,
       NoReceiver, Idle, Receivers, device, context, mgr, poller, history,
       TakeAbMutex
<1>20. ASSUME NEW t \in Receivers, RaopCb(t)
      PROVE  Phase'
  BY <1>20, TypeOK, Phase, Owned DEF TypeOK, ContextType, Phase, Served,
       NoReceiver, Idle, Receivers, device, context, mgr, poller, history, RaopCb
<1>21. ASSUME NEW t \in Receivers, RaopCbRefused(t)
      PROVE  Phase'
  BY <1>21, TypeOK, Phase, Owned DEF TypeOK, ContextType, Phase, Served,
       NoReceiver, Idle, Receivers, device, context, mgr, poller, history,
       RaopCbRefused
<1>22. ASSUME NEW t \in Receivers, RaopCbReturn(t)
      PROVE  Phase'
  BY <1>22, TypeOK, Phase, Owned DEF TypeOK, ContextType, Phase, Served,
       NoReceiver, Idle, Receivers, device, context, mgr, poller, history,
       RaopCbReturn
<1>23. CASE HATop
  BY <1>23, TypeOK, Phase, Owned DEF TypeOK, ContextType, Phase, Served,
       NoReceiver, Idle, Receivers, device, context, mgr, poller, history, HATop
<1>24. CASE HARead
  BY <1>24, TypeOK, Phase, Owned DEF TypeOK, ContextType, Phase, Served,
       NoReceiver, Idle, Receivers, device, context, mgr, poller, history, HARead
<1>25. CASE HAReply
  BY <1>25, TypeOK, Phase, Owned DEF TypeOK, ContextType, Phase, Served,
       NoReceiver, Idle, Receivers, device, context, mgr, poller, history, HAReply
<1>26. CASE HAFail
  BY <1>26, TypeOK, Phase, Owned DEF TypeOK, ContextType, Phase, Served,
       NoReceiver, Idle, Receivers, device, context, mgr, poller, history, HAFail,
       EndIteration
<1>27. CASE HADecide
  BY <1>27, TypeOK, Phase, Owned DEF TypeOK, ContextType, Phase, Served,
       NoReceiver, Idle, Receivers, device, context, mgr, poller, history,
       HADecide, DecideHistory
<1>28. CASE HALeave
  BY <1>28, TypeOK, Phase, Owned DEF TypeOK, ContextType, Phase, Served,
       NoReceiver, Idle, Receivers, device, context, mgr, poller, history,
       HALeave, EndIteration
<1>29. CASE HANotified
  BY <1>29, TypeOK, Phase, Owned DEF TypeOK, ContextType, Phase, Served,
       NoReceiver, Idle, Receivers, device, context, mgr, poller, history,
       HANotified
<1>30. CASE HAVolume
  BY <1>30, TypeOK, Phase, Owned DEF TypeOK, ContextType, Phase, Served,
       NoReceiver, Idle, Receivers, device, context, mgr, poller, history,
       HAVolume
<1>31. CASE HAUnlock
  BY <1>31, TypeOK, Phase, Owned DEF TypeOK, ContextType, Phase, Served,
       NoReceiver, Idle, Receivers, device, context, mgr, poller, history,
       HAUnlock, EndIteration
<1>32. CASE HomeSettles
  BY <1>32, TypeOK, Phase, Owned DEF TypeOK, ContextType, Phase, Served,
       NoReceiver, Idle, Receivers, device, context, mgr, poller, history,
       HomeSettles
<1>33. CASE Tick
  BY <1>33, TypeOK, Phase, Owned DEF TypeOK, ContextType, Phase, Served,
       NoReceiver, Idle, Receivers, device, context, mgr, poller, history, Tick,
       Older
<1> QED
  BY <1>1, <1>2, <1>3, <1>4, <1>5, <1>6, <1>7, <1>8, <1>9, <1>10, <1>11, <1>12,
     <1>13, <1>14, <1>15, <1>16, <1>17, <1>18, <1>19, <1>20, <1>21, <1>22, <1>23,
     <1>24, <1>25, <1>26, <1>27, <1>28, <1>29, <1>30, <1>31, <1>32, <1>33 DEF
     Next, Manager, Receiver, Poller

\* The streamers: whoever leaves ctx->ht is adrift or gone.
LEMMA OwnedStep ==
  ASSUME TypeOK, Phase, Owned, Next
  PROVE  Owned'
<1>1. CASE RaopsrCreate
  <2>1. NoReceiver
    BY <1>1, Phase DEF RaopsrCreate, Phase, Idle
  <2> QED
    BY <1>1, <2>1, DeviceAssumption, TypeOK
       DEF RaopsrCreate, NoReceiver, Owned, Receivers, TypeOK, ContextType, history
<1>2. CASE JoinRtsp
  BY <1>2, TypeOK, Owned, DeviceAssumption DEF TypeOK, ContextType, Owned,
       Receivers, context, history, JoinRtsp
<1>3. CASE FreeContext
  BY <1>3, TypeOK, Owned, DeviceAssumption DEF TypeOK, ContextType, Owned,
       Receivers, context, history, FreeContext, StreamerGone
<1>4. CASE Setup
  BY <1>4, TypeOK, Owned, DeviceAssumption DEF TypeOK, ContextType, Owned,
       Receivers, context, history, Setup, Overwritten
<1>5. CASE SetupRefused
  BY <1>5, TypeOK, Owned, DeviceAssumption DEF TypeOK, ContextType, Owned,
       Receivers, context, history, SetupRefused, Overwritten
<1>6. CASE RtspExit
  BY <1>6, TypeOK, Owned, DeviceAssumption DEF TypeOK, ContextType, Owned,
       Receivers, context, history, RtspExit
<1>7. CASE TeardownJoin
  BY <1>7, TypeOK, Owned, DeviceAssumption DEF TypeOK, ContextType, Owned,
       Receivers, context, history, TeardownJoin, StreamerGone
<1>8. ASSUME NEW s \in Streamers, RtpPlay(s)
      PROVE  Owned'
  BY <1>8, TypeOK, Owned, DeviceAssumption DEF TypeOK, ContextType, Owned,
       Receivers, context, history, RtpPlay
<1>9. ASSUME NEW s \in Streamers, RtpExit(s)
      PROVE  Owned'
  BY <1>9, TypeOK, Owned, DeviceAssumption DEF TypeOK, ContextType, Owned,
       Receivers, context, history, RtpExit
<1>10. ASSUME NEW e \in Requests, NEW v \in Levels, RtspEvent(e, v)
      PROVE  Owned'
  BY <1>10, TypeOK, Owned, DeviceAssumption DEF TypeOK, ContextType, Owned,
       Receivers, context, history, RtspEvent
<1>11. ASSUME NEW t \in Receivers, TakeAbMutex(t)
      PROVE  Owned'
  BY <1>11, TypeOK, Owned, DeviceAssumption DEF TypeOK, ContextType, Owned,
       Receivers, context, history, TakeAbMutex
<1>12. ASSUME NEW t \in Receivers, RaopCb(t)
      PROVE  Owned'
  BY <1>12, TypeOK, Owned, DeviceAssumption DEF TypeOK, ContextType, Owned,
       Receivers, context, history, RaopCb
<1>13. ASSUME NEW t \in Receivers, RaopCbRefused(t)
      PROVE  Owned'
  BY <1>13, TypeOK, Owned, DeviceAssumption DEF TypeOK, ContextType, Owned,
       Receivers, context, history, RaopCbRefused
<1>14. ASSUME NEW t \in Receivers, RaopCbReturn(t)
      PROVE  Owned'
  BY <1>14, TypeOK, Owned, DeviceAssumption DEF TypeOK, ContextType, Owned,
       Receivers, context, history, RaopCbReturn
<1>15. CASE AddHADevice \/ RaopsrCreateFails \/ StartHAThread \/
              BeginRemove \/ BeginFlush \/ ClearRunning \/ RaopsrDelete \/
              JoinHAThread \/ HATop \/ HARead \/ HAReply \/ HAFail \/ HADecide \/
              HALeave \/ HANotified \/ HAVolume \/ HAUnlock \/ HomeSettles \/ Tick
  BY <1>15, TypeOK, Owned, DeviceAssumption DEF TypeOK, ContextType, Owned,
       Receivers, context, history, AddHADevice, Idle, RaopsrCreateFails,
       StartHAThread, BeginRemove, BeginFlush, ClearRunning, RaopsrDelete,
       JoinHAThread, HATop, HARead, HAReply, HAFail, EndIteration, HADecide,
       DecideHistory, HALeave, HANotified, HAVolume, HAUnlock, HomeSettles, Tick,
       Older
<1> QED
  BY <1>1, <1>2, <1>3, <1>4, <1>5, <1>6, <1>7, <1>8, <1>9, <1>10, <1>11, <1>12,
     <1>13, <1>14, <1>15 DEF Next, Manager, Receiver, Poller

\* The event notified: nobody changes RaopState while HAThread holds the mutex.
LEMMA WeighedStep ==
  ASSUME TypeOK, Locking, Phase, Weighed, Next
  PROVE  Weighed'
<1>1. CASE AddHADevice
  BY <1>1, TypeOK, Locking, Phase, Weighed DEF Weighed, Locking, Critical,
       device, poller, AddHADevice, Idle, Phase, Served
<1>2. CASE StartHAThread
  BY <1>2, TypeOK, Locking, Phase, Weighed DEF Weighed, Locking, Critical,
       device, poller, StartHAThread
<1>3. ASSUME NEW t \in Receivers, RaopCb(t)
      PROVE  Weighed'
  BY <1>3, TypeOK, Locking, Phase, Weighed DEF Weighed, Locking, Critical,
       device, poller, RaopCb
<1>4. CASE HATop
  BY <1>4, TypeOK, Locking, Phase, Weighed DEF Weighed, Locking, Critical,
       device, poller, HATop
<1>5. CASE HARead
  BY <1>5, TypeOK, Locking, Phase, Weighed DEF Weighed, Locking, Critical,
       device, poller, HARead, Answers
<1>6. CASE HAReply
  BY <1>6, TypeOK, Locking, Phase, Weighed DEF Weighed, Locking, Critical,
       device, poller, HAReply
<1>7. CASE HAFail
  BY <1>7, TypeOK, Locking, Phase, Weighed DEF Weighed, Locking, Critical,
       device, poller, HAFail, EndIteration
<1>8. CASE HADecide
  BY <1>8, TypeOK, Locking, Phase, Weighed DEF Weighed, Locking, Critical,
       device, poller, HADecide, DecideHistory, HaStateToRaopEvent, HAPlayerState
<1>9. CASE HALeave
  BY <1>9, TypeOK, Locking, Phase, Weighed DEF Weighed, Locking, Critical,
       device, poller, HALeave, EndIteration
<1>10. CASE HANotified
  BY <1>10, TypeOK, Locking, Phase, Weighed DEF Weighed, Locking, Critical,
       device, poller, HANotified
<1>11. CASE HAVolume
  BY <1>11, TypeOK, Locking, Phase, Weighed DEF Weighed, Locking, Critical,
       device, poller, HAVolume
<1>12. CASE HAUnlock
  BY <1>12, TypeOK, Locking, Phase, Weighed DEF Weighed, Locking, Critical,
       device, poller, HAUnlock, EndIteration
<1>13. CASE RaopsrCreateFails \/ RaopsrCreate \/ BeginRemove \/
              BeginFlush \/ ClearRunning \/ RaopsrDelete \/ JoinRtsp \/
              FreeContext \/ JoinHAThread \/ Setup \/ SetupRefused \/ RtspExit \/
              TeardownJoin \/ HomeSettles \/ Tick \/ (\E s \in Streamers :
              RtpPlay(s)) \/ (\E s \in Streamers : RtpExit(s)) \/ (\E e \in
              Requests, v \in Levels : RtspEvent(e, v)) \/ (\E t \in Receivers :
              TakeAbMutex(t)) \/ (\E t \in Receivers : RaopCbRefused(t)) \/ (\E t
              \in Receivers : RaopCbReturn(t))
  BY <1>13, TypeOK, Locking, Phase, Weighed DEF Weighed, Locking, Critical,
       device, poller, RaopsrCreateFails, RaopsrCreate, BeginRemove, Idle,
       BeginFlush, ClearRunning, RaopsrDelete, JoinRtsp, FreeContext,
       JoinHAThread, Setup, SetupRefused, RtspExit, TeardownJoin, RtpPlay,
       RtpExit, RtspEvent, TakeAbMutex, RaopCbRefused, RaopCbReturn, HomeSettles,
       Tick, Older
<1> QED
  BY <1>1, <1>2, <1>3, <1>4, <1>5, <1>6, <1>7, <1>8, <1>9, <1>10, <1>11, <1>12,
     <1>13 DEF Next, Manager, Receiver, Poller

\* The hold: a volume sent while a poll is unanswered is no older than the poll.
LEMMA FreshnessStep ==
  ASSUME TypeOK, Locking, Phase, Freshness, Next
  PROVE  Freshness'
<1>1. CASE AddHADevice
  <2>1. hapc = "none"
    BY <1>1, Phase DEF AddHADevice, Idle, Phase, Served
  <2>2. ~stale
    BY <2>1, Freshness DEF Freshness, Critical
  <2> QED
    BY <1>1, <2>1, <2>2 DEF AddHADevice, poller, timing, Freshness
<1>2. CASE StartHAThread
  BY <1>2, TypeOK, Locking, Phase, Freshness, ConstantFacts DEF TypeOK,
       DeviceType, PollerType, HistoryType, Freshness, Critical, device, poller,
       timing, StartHAThread, Phase
<1>3. CASE ClearRunning
  BY <1>3, TypeOK, Locking, Phase, Freshness, ConstantFacts DEF TypeOK,
       DeviceType, PollerType, HistoryType, Freshness, Critical, device, poller,
       timing, ClearRunning
<1>4. ASSUME NEW t \in Receivers, RaopCb(t)
      PROVE  Freshness'
  <2>0. hapc \notin Critical
    BY <1>4, Locking DEF RaopCb, Locking
  <2>1. CASE UNCHANGED levels
    BY <1>4, <2>1, TypeOK, Freshness DEF RaopCb, Freshness, Critical, levels
  <2>2. CASE txAge' = 0 /\ due' = FALSE /\ stale' = (hapc \in {"fetch", "lock"})
    BY <1>4, <2>0, <2>2, TypeOK, ConstantFacts
       DEF RaopCb, Freshness, Critical, TypeOK, HistoryType
  <2> QED
    BY <1>4, <2>1, <2>2, EventCases, VolumeCases DEF RaopCb
<1>5. CASE HATop
  BY <1>5, TypeOK, Locking, Phase, Freshness, ConstantFacts DEF TypeOK,
       DeviceType, PollerType, HistoryType, Freshness, Critical, device, poller,
       timing, HATop
<1>6. CASE HARead
  <2>1. stale' => unsettled
    BY <1>6 DEF HARead
  <2>2. stale' => pollAge' = txAge /\ txAge' = txAge
    BY <1>6, <2>1 DEF HARead, device
  <2>3. txAge \in Nat
    BY TypeOK, ConstantFacts DEF TypeOK, DeviceType
  <2> QED
    BY <1>6, <2>2, <2>3 DEF HARead, Freshness
<1>7. CASE HAReply
  <2>1. ASSUME stale PROVE txAge <= Hold \/ pollAge > Hold
    BY <1>7, <2>1, TypeOK, Freshness, ConstantFacts
       DEF HAReply, Freshness, Critical, TypeOK, DeviceType, HistoryType
  <2>2. ASSUME stale PROVE ~due' \/ pollAge > Hold
    <3>1. ~ (txAge > Hold) \/ pollAge > Hold
      BY <2>1, <2>2, TypeOK, ConstantFacts DEF TypeOK, DeviceType
    <3>2. due' = (txAge > Hold)
      BY <1>7 DEF HAReply
    <3> QED
      BY <3>1, <3>2
  <2> QED
    BY <1>7, <2>2 DEF HAReply, Freshness, timing
<1>8. CASE HAFail
  BY <1>8, TypeOK, Locking, Phase, Freshness, ConstantFacts DEF TypeOK,
       DeviceType, PollerType, HistoryType, Freshness, Critical, device, poller,
       timing, HAFail, EndIteration
<1>9. CASE HADecide
  BY <1>9, TypeOK, Locking, Phase, Freshness, ConstantFacts DEF TypeOK,
       DeviceType, PollerType, HistoryType, Freshness, Critical, device, poller,
       timing, HADecide, DecideHistory
<1>10. CASE HALeave
  BY <1>10, TypeOK, Locking, Phase, Freshness, ConstantFacts DEF TypeOK,
       DeviceType, PollerType, HistoryType, Freshness, Critical, device, poller,
       timing, HALeave, EndIteration
<1>11. CASE HANotified
  BY <1>11, TypeOK, Locking, Phase, Freshness, ConstantFacts DEF TypeOK,
       DeviceType, PollerType, HistoryType, Freshness, Critical, device, poller,
       timing, HANotified
<1>12. CASE HAVolume
  BY <1>12, TypeOK, Locking, Phase, Freshness, ConstantFacts DEF TypeOK,
       DeviceType, PollerType, HistoryType, Freshness, Critical, device, poller,
       timing, HAVolume, NewLevel
<1>13. CASE HAUnlock
  BY <1>13, TypeOK, Locking, Phase, Freshness, ConstantFacts DEF TypeOK,
       DeviceType, PollerType, HistoryType, Freshness, Critical, device, poller,
       timing, HAUnlock, EndIteration
<1>14. CASE HomeSettles
  BY <1>14, TypeOK, Locking, Phase, Freshness, ConstantFacts DEF TypeOK,
       DeviceType, PollerType, HistoryType, Freshness, Critical, device, poller,
       timing, HomeSettles
<1>15. CASE Tick
  <2>1. txAge \in Nat /\ pollAge \in Nat /\ Hold \in Nat
    BY TypeOK, ConstantFacts DEF TypeOK, DeviceType, HistoryType
  <2>2. hapc' = hapc /\ due' = due /\ stale' = stale
    BY <1>15 DEF Tick, poller
  <2>3. CASE hapc = "fetch"
    <3>1. txAge' = Older(txAge) /\ pollAge' = Older(pollAge)
      BY <1>15, <2>3 DEF Tick
    <3>2. txAge <= pollAge \/ pollAge > Hold =>
            Older(txAge) <= Older(pollAge) \/ Older(pollAge) > Hold
      BY <2>1 DEF Older
    <3> QED
      BY <2>2, <2>3, <3>1, <3>2, Freshness DEF Freshness, Critical
  <2>4. CASE hapc # "fetch"
    <3>1. pollAge' = pollAge
      BY <1>15, <2>4 DEF Tick
    <3> QED
      BY <2>2, <2>4, <3>1, Freshness DEF Freshness, Critical
  <2> QED
    BY <2>3, <2>4
<1>16. CASE RaopsrCreateFails \/ RaopsrCreate \/ BeginRemove \/
              BeginFlush \/ RaopsrDelete \/ JoinRtsp \/ FreeContext \/
              JoinHAThread \/ Setup \/ SetupRefused \/ RtspExit \/ TeardownJoin \/
              (\E s \in Streamers : RtpPlay(s)) \/ (\E s \in Streamers :
              RtpExit(s)) \/ (\E e \in Requests, v \in Levels : RtspEvent(e, v))
              \/ (\E t \in Receivers : TakeAbMutex(t)) \/ (\E t \in Receivers :
              RaopCbRefused(t)) \/ (\E t \in Receivers : RaopCbReturn(t))
  <2>1. UNCHANGED <<txAge, hapc, due, stale, pollAge>>
    BY <1>16 DEF device, poller, timing, RaopsrCreateFails, RaopsrCreate,
         BeginRemove, Idle, BeginFlush, RaopsrDelete, JoinRtsp, FreeContext,
         JoinHAThread, Setup, SetupRefused, RtspExit, TeardownJoin, RtpPlay,
         RtpExit, RtspEvent, TakeAbMutex, RaopCbRefused, RaopCbReturn
  <2> QED
    BY <2>1, Freshness DEF Freshness, Critical
<1> QED
  BY <1>1, <1>2, <1>3, <1>4, <1>5, <1>6, <1>7, <1>8, <1>9, <1>10, <1>11, <1>12,
     <1>13, <1>14, <1>15, <1>16 DEF Next, Manager, Receiver, Poller

\* A PLAY without play_media lasts no longer than State PLAYING.
LEMMA JustifiedStep ==
  ASSUME TypeOK, Locking, Phase, Weighed, PlayJustified, Next
  PROVE  PlayJustified'
<1>1. CASE AddHADevice
  BY <1>1, TypeOK, Locking, Phase, Weighed, PlayJustified DEF PlayJustified,
       device, history, poller, AddHADevice, Idle, Phase, Served
<1>2. CASE StartHAThread
  BY <1>2, TypeOK, Locking, Phase, Weighed, PlayJustified DEF PlayJustified,
       device, history, poller, StartHAThread, Phase
<1>3. ASSUME NEW t \in Receivers, RaopCb(t)
      PROVE  PlayJustified'
  BY <1>3, TypeOK, Locking, PlayJustified
     DEF PlayJustified, RaopCb, OnEvent, OnStream, OnStop, OnFlush, OnPlay, OnVolume,
         Locking, Critical
<1>4. CASE HATop
  BY <1>4, TypeOK, Locking, Phase, Weighed, PlayJustified DEF PlayJustified,
       device, history, poller, HATop
<1>5. CASE HARead
  BY <1>5, TypeOK, Locking, Phase, Weighed, PlayJustified DEF PlayJustified,
       device, history, poller, HARead
<1>6. CASE HAReply
  BY <1>6, TypeOK, Locking, Phase, Weighed, PlayJustified DEF PlayJustified,
       device, history, poller, HAReply
<1>7. CASE HAFail
  BY <1>7, TypeOK, Locking, Phase, Weighed, PlayJustified DEF PlayJustified,
       device, history, poller, HAFail, EndIteration
<1>8. CASE HADecide
  <2> DEFINE next == HAPlayerState(remote.state)
  <2> SUFFICES ASSUME raopState = "PLAY", told # "play", next # "PLAYING",
                      hapc' # "notify"
               PROVE  vague'
    BY <1>8 DEF HADecide, PlayJustified
  <2>1. CASE next = state
    BY <1>8, <2>1, TypeOK, Locking, PlayJustified
       DEF HADecide, DecideHistory, PlayJustified
  <2>2. CASE next # state
    <3>1. HaStateToRaopEvent(remote.state, raopState) = "NONE"
      BY <1>8, <2>2 DEF HADecide
    <3>2. remote.state \notin {"playing", "paused", "idle"}
      BY <3>1 DEF HaStateToRaopEvent, HAPlayerState
    <3>3. remote.state = "other"
      BY <3>2, <1>8, Weighed, DeviceAssumption DEF HADecide, Weighed
    <3> QED
      BY <1>8, <2>2, <3>3 DEF HADecide, DecideHistory
  <2> QED
    BY <2>1, <2>2
<1>9. CASE HALeave
  BY <1>9, TypeOK, Locking, Phase, Weighed, PlayJustified DEF PlayJustified,
       device, history, poller, HALeave, EndIteration
<1>10. CASE HANotified
  BY <1>10, Weighed DEF PlayJustified, HANotified, Weighed
<1>11. CASE HAVolume
  BY <1>11, TypeOK, Locking, Phase, Weighed, PlayJustified DEF PlayJustified,
       device, history, poller, HAVolume
<1>12. CASE HAUnlock
  BY <1>12, TypeOK, Locking, Phase, Weighed, PlayJustified DEF PlayJustified,
       device, history, poller, HAUnlock, EndIteration
<1>13. CASE RaopsrCreateFails \/ RaopsrCreate \/ BeginRemove \/
              BeginFlush \/ ClearRunning \/ RaopsrDelete \/ JoinRtsp \/
              FreeContext \/ JoinHAThread \/ Setup \/ SetupRefused \/ RtspExit \/
              TeardownJoin \/ HomeSettles \/ Tick \/ (\E s \in Streamers :
              RtpPlay(s)) \/ (\E s \in Streamers : RtpExit(s)) \/ (\E e \in
              Requests, v \in Levels : RtspEvent(e, v)) \/ (\E t \in Receivers :
              TakeAbMutex(t)) \/ (\E t \in Receivers : RaopCbRefused(t)) \/ (\E t
              \in Receivers : RaopCbReturn(t))
  BY <1>13, TypeOK, Locking, Phase, Weighed, PlayJustified DEF PlayJustified,
       device, history, poller, RaopsrCreateFails, RaopsrCreate, BeginRemove,
       Idle, BeginFlush, ClearRunning, RaopsrDelete, JoinRtsp, FreeContext,
       JoinHAThread, Setup, SetupRefused, RtspExit, TeardownJoin, RtpPlay,
       RtpExit, RtspEvent, TakeAbMutex, RaopCbRefused, RaopCbReturn, HomeSettles,
       Tick, Older
<1> QED
  BY <1>1, <1>2, <1>3, <1>4, <1>5, <1>6, <1>7, <1>8, <1>9, <1>10, <1>11, <1>12,
     <1>13 DEF Next, Manager, Receiver, Poller

-----------------------------------------------------------------------------
(* Theorems *)

LEMMA InitInvariant == Init => IInv
<1> SUFFICES ASSUME Init PROVE IInv
  OBVIOUS
<1>1. DeviceType /\ PollerType /\ ManagerType /\ HistoryType
  BY ConstantFacts
     DEF Init, DeviceType, RaopEvents, PollerType, ManagerType, HistoryType, NoAnswer
<1>2. LockType /\ ContextType
  BY ConstantFacts DEF Init, LockType, ContextType, NoCall
<1>3. Locking /\ Phase /\ Owned
  BY DeviceAssumption
     DEF Init, Locking, Critical, Receivers, Phase, Idle, NoReceiver, Owned
<1>4. Weighed /\ Freshness /\ PlayJustified
  BY DEF Init, Weighed, Freshness, PlayJustified
<1> QED
  BY <1>1, <1>2, <1>3, <1>4 DEF IInv, TypeOK

LEMMA StepInvariant == IInv /\ [Next]_vars => IInv'
<1>1. ASSUME IInv, Next PROVE IInv'
  BY <1>1, TypeStep, LockingStep, PhaseStep, OwnedStep, WeighedStep, FreshnessStep,
     JustifiedStep DEF IInv
<1>2. ASSUME IInv, UNCHANGED vars PROVE IInv'
  <2> USE <1>2 DEF IInv, vars, device, context, mgr, poller, history, timing
  <2>1. TypeOK'
    <3>1. DeviceType' /\ LockType'
      BY DEF TypeOK, DeviceType, LockType
    <3>2. ContextType'
      BY DEF TypeOK, ContextType
    <3>3. PollerType' /\ ManagerType'
      BY DEF TypeOK, PollerType, ManagerType
    <3>4. HistoryType'
      BY DEF TypeOK, HistoryType
    <3> QED
      BY <3>1, <3>2, <3>3, <3>4 DEF TypeOK
  <2>2. Locking'
    BY DEF Locking, Critical
  <2>3. Phase' /\ Owned'
    BY DEF Phase, Owned, Idle, Served, NoReceiver
  <2>4. Weighed' /\ PlayJustified'
    BY DEF Weighed, PlayJustified
  <2>5. Freshness'
    BY DEF Freshness, Critical
  <2> QED
    BY <2>1, <2>2, <2>3, <2>4, <2>5
<1> QED
  BY <1>1, <1>2

\* The inductive invariant holds of every behaviour.
THEOREM Invariant == Spec => []IInv
<1>1. Init => IInv
  BY InitInvariant
<1>2. IInv /\ [Next]_vars => IInv'
  BY StepInvariant
<1> QED
  BY <1>1, <1>2, PTL DEF Spec

\* Every variable of a target keeps its type.
THEOREM TypeCorrect == Spec => []TypeOK
<1>1. IInv => TypeOK
  BY DEF IInv
<1> QED
  BY <1>1, Invariant, PTL

\* The receiver's memory outlives its threads but for the streamers that a second
\* SETUP set adrift, and HAThread's use of it but for the notify of a flush
\* (raop_server.c:450-464, raopsr_delete, RemoveHADevice, FlushDevices).
THEOREM ContextOutlivesUsers == Spec => []ContextAlive
<1>1. IInv => ContextAlive
  BY DEF IInv, Locking, Critical, Phase, Idle, Served, NoReceiver, ContextAlive
<1> QED
  BY <1>1, Invariant, PTL

\* A slot is free only once every thread of its last entity is gone, but for the
\* streamers adrift (AddHADevice, raop_server.c:450-464).
THEOREM FreeSlotIsQuiet == Spec => []FreeSlotQuiet
<1>1. IInv => FreeSlotQuiet
  <2> SUFFICES ASSUME IInv, Idle, ~running PROVE FreeSlotQuiet
    BY DEF FreeSlotQuiet
  <2>1. NoReceiver /\ hapc = "none"
    BY DEF IInv, Phase, Idle, Served
  <2>2. mutex \in {"nobody"} \union adrift
    BY <2>1 DEF IInv, TypeOK, LockType, Locking, Critical, NoReceiver
  <2> QED
    BY <2>1, <2>2 DEF FreeSlotQuiet, NoReceiver
<1> QED
  BY <1>1, Invariant, PTL

\* RaopState PLAY without play_media lasts no longer than State PLAYING, but for an
\* answer that stands for no event (raop_cb, HAThread, ha_state_to_raop_event).
THEOREM PlayIsJustified == Spec => []PlayJustified
<1>1. IInv => PlayJustified
  BY DEF IInv
<1> QED
  BY <1>1, Invariant, PTL

\* The sender gets its replaced level back only from a Home Assistant that was
\* slower than the hold, however long its call and HAThread waited for the mutex
\* (raop_cb, HAThread).
THEOREM EchoesComeLate == Spec => []EchoOnlyWhenSlow
<1>1. IInv => EchoOnlyWhenSlow
  BY DEF IInv, Freshness, EchoOnlyWhenSlow, Critical
<1> QED
  BY <1>1, Invariant, PTL

-----------------------------------------------------------------------------
(* The promise of Bridge *)

LEMMA InitPromise == Init => Promise!Init
BY DEF Init, Promise!Init

\* What raop_cb does under the mutex is a step of the sender, or none.
LEMMA RaopCbPromise ==
  ASSUME TypeOK, NEW t \in Receivers, RaopCb(t)
  PROVE  [Promise!Next]_(Promise!vars)
<1>1. call[t].level \in Levels
  BY DEF TypeOK, ContextType
<1>2. running /\ UNCHANGED running
  BY DEF RaopCb
<1>3. CASE OnVolume(call[t].level)
  <2>1. raopState' = "VOLUME" /\ told' = told /\ volume' \in Levels
    BY <1>1, <1>3, VolumeCases, VolumeTypes DEF TypeOK
  <2> QED
    BY <1>2, <2>1 DEF Promise!Next, Promise!SenderVolume
<1>4. CASE OnStream \/ OnStop \/ OnFlush \/ OnPlay
  BY <1>2, <1>4
     DEF OnStream, OnStop, OnFlush, OnPlay, levels, Promise!Next, Promise!Sender,
         Promise!SenderStarts, Promise!SenderStops, Promise!SenderPlays, Promise!vars
<1> QED
  BY <1>3, <1>4 DEF RaopCb, OnEvent

LEMMA StepPromise ==
  ASSUME IInv, [Next]_vars
  PROVE  [Promise!Next]_(Promise!vars)
<1>1. CASE AddHADevice
  BY <1>1 DEF AddHADevice, Promise!Next, Promise!Appear
<1>2. CASE RaopsrCreateFails
  BY <1>2 DEF RaopsrCreateFails, history, IInv, Phase, Idle, Served,
     Promise!Next, Promise!Vanish
<1>3. CASE ClearRunning
  BY <1>3 DEF ClearRunning, history, IInv, Phase, Idle, Served,
     Promise!Next, Promise!Vanish
<1>4. ASSUME NEW t \in Receivers, RaopCb(t)
      PROVE  [Promise!Next]_(Promise!vars)
  BY <1>4, RaopCbPromise DEF IInv
<1>5. CASE HANotified
  BY <1>5 DEF HANotified, history, IInv, Locking, Critical, Weighed,
     Promise!Next, Promise!HomeReports
<1>6. CASE HAVolume
  BY <1>6, RemoteLevel DEF HAVolume, NewLevel, history, IInv, TypeOK, Locking, Critical,
     Promise!Next, Promise!HomeVolume
<1>7. CASE RaopsrCreate \/ StartHAThread \/ BeginRemove \/
              BeginFlush \/ RaopsrDelete \/ JoinRtsp \/ FreeContext \/
              JoinHAThread \/ Setup \/ SetupRefused \/ RtspExit \/ TeardownJoin \/
              HATop \/ HARead \/ HAReply \/ HAFail \/ HADecide \/ HALeave \/
              HAUnlock \/ HomeSettles \/ Tick \/ (\E s \in Streamers : RtpPlay(s))
              \/ (\E s \in Streamers : RtpExit(s)) \/ (\E e \in Requests, v \in
              Levels : RtspEvent(e, v)) \/ (\E t \in Receivers : TakeAbMutex(t))
              \/ (\E t \in Receivers : RaopCbRefused(t)) \/ (\E t \in Receivers :
              RaopCbReturn(t))
  BY <1>7 DEF Promise!vars, device, history, RaopsrCreate, StartHAThread,
       BeginRemove, Idle, BeginFlush, RaopsrDelete, JoinRtsp, FreeContext,
       JoinHAThread, Setup, SetupRefused, RtspExit, TeardownJoin, RtpPlay,
       RtpExit, RtspEvent, TakeAbMutex, RaopCbRefused, RaopCbReturn, HATop,
       HARead, HAReply, HAFail, HADecide, HALeave, HAUnlock, HomeSettles, Tick
<1>8. CASE UNCHANGED vars
  BY <1>8 DEF vars, device, history, Promise!vars
<1> QED
  BY <1>1, <1>2, <1>3, <1>4, <1>5, <1>6, <1>7, <1>8 DEF Next, Manager, Receiver, Poller

\* Whatever the threads of a target do in between, its services and its session
\* are those of the abstract target.
THEOREM DeviceKeepsPromise == Spec => KeepsPromise
<1>1. Init => Promise!Init
  BY InitPromise
<1>2. IInv /\ [Next]_vars => [Promise!Next]_(Promise!vars)
  BY StepPromise
<1> QED
  BY <1>1, <1>2, Invariant, PTL DEF Spec, KeepsPromise, Promise!Spec
=============================================================================
