---------------------------- MODULE SessionProofs ----------------------------
(* What Session guarantees for any number of senders, searches, streamers    *)
(* and every set of faults: what TEARDOWN and raopsr_delete join, what is     *)
(* left when the context is freed, and whose remote is found.                 *)
EXTENDS Session, TLAPS

-----------------------------------------------------------------------------
(* The inductive invariant *)

\* How far raopsr_delete and the RTSP thread are tells what each has left.
Stopping ==
  /\ deleting # "no" \/ rtsp = "gone" => ~running
  /\ deleting \in {"end", "close", "join", "done"} => rtsp = "gone"
  /\ ctx = "freed" <=> deleting = "done"

\* The handle is that of the thread, and a thread that has one is not joined before it
\* is forgotten; one that was started without is known by that.
SearchOwned ==
  /\ handle # None => thread = handle
  /\ thread # None => search[thread] # "unused"
  /\ handle # None /\ deleting # "done" => search[thread] # "joined"
  /\ deleting = "join" => handle # None
  /\ Alive \subseteq orphan \union {thread}
  /\ handle = None \/ deleting = "done" => Alive \subseteq orphan \union (unopened \intersect {thread})

\* A streamer that runs is ht or was overwritten there; ht runs until it is ended.
StreamerOwned ==
  /\ \A s \in Streamers \ adrift : streamer[s] \in {"up", "asked"} => s = ht
  /\ rtsp = "ready" /\ deleting \in {"no", "thread"} /\ ht # None => streamer[ht] = "up"
  /\ rtsp \in {"close", "join"} => ht = None
  /\ deleting \in {"close", "join", "done"} => Ended(ht)

\* As long as requests come in order, each finds what the ones before it left.
InOrder ==
  ~disorder =>
    /\ rtsp \in {"end", "close", "join"} => phase # "down"
    /\ phase # "down" => thread # None /\ (search[thread] # "joined" \/ deleting = "done")
    /\ rtsp = "ready" /\ phase \in {"setup", "up"} => ht # None

\* Between sessions nothing is left in active_remote, nor a search that could write there.
Tidy ==
  ~untidy /\ phase = "down" => port = Nobody /\ dacp = NoId /\ Alive \subseteq closed

IInv ==
  /\ TypeOK /\ Stopping /\ SearchOwned /\ StreamerOwned /\ InOrder
  /\ Tidy /\ RemoteOfSession

-----------------------------------------------------------------------------
(* Every step keeps the invariant, part by part. *)

LEMMA Constants ==
  /\ Searches \subseteq Nat /\ Streamers \subseteq Nat
  /\ None \notin Searches /\ None \notin Streamers
  /\ NoId \notin Senders /\ Nobody \notin Senders
BY SessionAssumption DEF Searches, Streamers, None

LEMMA SendsType ==
  ASSUME IInv, NEW phases, Sends(phases)
  PROVE  disorder' \in BOOLEAN
BY Zenon DEF IInv, TypeOK, ContextType, Sends

\* The types, part by part.
LEMMA ContextTypeStep ==
  ASSUME IInv, [Next]_vars
  PROVE  ContextType'
<1>1. CASE TeardownJoin
  BY <1>1, Zenon DEF TeardownJoin, IInv, TypeOK, ContextType
<1>2. CASE Delete
  BY <1>2, Zenon DEF Delete, history, IInv, TypeOK, ContextType
<1>3. CASE Disconnect
  BY <1>3, Zenon DEF Disconnect, IInv, TypeOK, ContextType
<1>4. CASE Announce
  <2>1. untidy' \in BOOLEAN
    BY <1>4, Zenon DEF Announce
  <2>2. disorder' \in BOOLEAN
    BY <1>4, SendsType DEF Announce
  <2> QED
    BY <1>4, <2>1, <2>2 DEF Announce, IInv, TypeOK, ContextType
<1>5. CASE Setup \/ SetupFails \/ Record \/ Metadata \/ Teardown
  <2>1. disorder' \in BOOLEAN
    BY <1>5, SendsType DEF Setup, SetupFails, Record, Metadata, Teardown
  <2> QED
    BY <1>5, <2>1
       DEF Setup, SetupFails, Record, Metadata, Teardown, IInv, TypeOK, ContextType
<1>6. CASE Accept \/ TeardownJoinLost \/ RtspExit \/ TeardownEnd \/ TeardownClose \/ DeleteJoinsRtsp \/ DeleteEnds \/
           DeleteCloses \/ DeleteFrees \/ (\E k \in Searches : Find(k)) \/
           (\E k \in Searches : SearchExits(k)) \/
           (\E s \in Streamers : StreamerExits(s)) \/ UNCHANGED vars
  BY <1>6
     DEF IInv, TypeOK, ContextType, vars, remote, threads, history, Accept,
         TeardownJoinLost, RtspExit, TeardownEnd, TeardownClose,
         DeleteJoinsRtsp, DeleteEnds, DeleteCloses, DeleteFrees, Find, SearchExits,
         StreamerExits
<1> QED
  BY <1>1, <1>2, <1>3, <1>4, <1>5, <1>6 DEF Next, Request, Handling, Deleting

LEMMA RemoteTypeStep ==
  ASSUME IInv, [Next]_vars
  PROVE  RemoteType'
<1>1. CASE Accept
  BY <1>1, Constants DEF Accept, remote, IInv, TypeOK, RemoteType
<1>2. CASE Announce
  BY <1>2, Constants DEF Announce, Sends, IInv, TypeOK, RemoteType
<1>3. CASE TeardownJoin
  BY <1>3, Constants DEF TeardownJoin, IInv, TypeOK, RemoteType
<1>4. ASSUME NEW k \in Searches, Find(k)
      PROVE  RemoteType'
  BY <1>4, Constants DEF Find, IInv, TypeOK, RemoteType
<1>5. CASE Disconnect \/ Setup \/ SetupFails \/ Record \/ Metadata \/ Teardown \/
           TeardownJoinLost \/ RtspExit \/
           TeardownEnd \/ TeardownClose \/ Delete \/ DeleteJoinsRtsp \/ DeleteEnds \/
           DeleteCloses \/ DeleteFrees \/ (\E k \in Searches : SearchExits(k)) \/
           (\E s \in Streamers : StreamerExits(s)) \/ UNCHANGED vars
  BY <1>5
     DEF IInv, TypeOK, RemoteType, vars, remote, threads, history, Disconnect, Setup,
         SetupFails, Record, Metadata, Teardown, TeardownJoinLost, RtspExit, TeardownEnd, TeardownClose, Delete,
         DeleteJoinsRtsp, DeleteEnds, DeleteCloses, DeleteFrees, SearchExits,
         StreamerExits
<1> QED
  BY <1>1, <1>2, <1>3, <1>4, <1>5 DEF Next, Request, Handling, Deleting

LEMMA ThreadsTypeStep ==
  ASSUME IInv, [Next]_vars
  PROVE  ThreadsType'
<1>1. CASE Announce
  <2>1. PICK k \in Searches :
          /\ handle' \in {k, None} /\ closed' \in {closed, closed \union {k}}
          /\ thread' = k /\ search' = [search EXCEPT ![k] = "running"]
    BY <1>1 DEF Announce
  <2>2. handle' \in Searches \union {None} /\ thread' \in Searches /\ closed' \subseteq Searches
    BY <2>1 DEF IInv, TypeOK, ThreadsType
  <2>3. search' \in [Searches -> {"unused", "running", "exited", "joined"}]
    BY <2>1 DEF IInv, TypeOK, ThreadsType
  <2>4. orphan' \subseteq Searches /\ unopened' \subseteq Searches
    BY <1>1, <2>2 DEF Announce, Alive, IInv, TypeOK, ThreadsType
  <2> QED
    BY <1>1, <2>2, <2>3, <2>4 DEF Announce, IInv, TypeOK, ThreadsType
<1>2. CASE Setup
  BY <1>2, Constants
     DEF Setup, remote, threads, history, Ask, Owned, Alive, IInv, TypeOK, ThreadsType
<1>3. CASE SetupFails
  BY <1>3, Constants
     DEF SetupFails, remote, threads, history, Ask, Owned, Alive, IInv, TypeOK,
         ThreadsType
<1>4. CASE Teardown
  BY <1>4, Constants
     DEF Teardown, remote, threads, history, Ask, Owned, Alive, IInv, TypeOK, ThreadsType
<1>5. CASE TeardownEnd
  BY <1>5, Constants
     DEF TeardownEnd, remote, threads, history, Ask, Owned, Alive, IInv, TypeOK,
         ThreadsType
<1>6. CASE TeardownClose
  BY <1>6, Constants
     DEF TeardownClose, remote, threads, history, Ask, Owned, Alive, IInv, TypeOK,
         ThreadsType
<1>7. CASE TeardownJoin
  BY <1>7, Constants
     DEF TeardownJoin, Joinable, remote, threads, history, Ask, Owned, Alive, IInv,
         TypeOK, ThreadsType
<1>8. CASE DeleteJoinsRtsp
  BY <1>8, Constants
     DEF DeleteJoinsRtsp, remote, threads, history, Ask, Owned, Alive, IInv, TypeOK,
         ThreadsType
<1>9. CASE DeleteCloses
  BY <1>9, Constants
     DEF DeleteCloses, remote, threads, history, Ask, Owned, Alive, IInv, TypeOK,
         ThreadsType
<1>10. CASE DeleteFrees
  BY <1>10, Constants
     DEF DeleteFrees, remote, threads, history, Ask, Owned, Alive, IInv, TypeOK,
         ThreadsType
<1>11. ASSUME NEW k \in Searches, Find(k)
      PROVE  ThreadsType'
  BY <1>11, Constants
     DEF Find, remote, threads, history, Ask, Owned, Alive, IInv, TypeOK, ThreadsType
<1>12. ASSUME NEW k \in Searches, SearchExits(k)
      PROVE  ThreadsType'
  BY <1>12, Constants
     DEF SearchExits, remote, threads, history, Ask, Owned, Alive, IInv, TypeOK,
         ThreadsType
<1>13. ASSUME NEW s \in Streamers, StreamerExits(s)
      PROVE  ThreadsType'
  BY <1>13, Constants
     DEF StreamerExits, remote, threads, history, Ask, Owned, Alive, IInv, TypeOK,
         ThreadsType
<1>14. CASE Accept \/ Disconnect \/ Record \/ Metadata \/ TeardownJoinLost \/
            RtspExit \/ Delete \/ DeleteEnds \/ UNCHANGED vars
  BY <1>14
     DEF IInv, TypeOK, ThreadsType, vars, remote, threads, history, Accept, Disconnect,
         Record, Metadata, TeardownJoinLost, RtspExit, Delete, DeleteEnds
<1> QED
  BY <1>1, <1>2, <1>3, <1>4, <1>5, <1>6, <1>7, <1>8, <1>9, <1>10, <1>11, <1>12, <1>13,
     <1>14
     DEF Next, Request, Handling, Deleting

\* How far it is.
LEMMA StoppingStep ==
  ASSUME IInv, [Next]_vars
  PROVE  Stopping'
<1>1. CASE Accept \/ Disconnect \/ Announce \/ Setup \/ SetupFails \/ Record \/
           Metadata \/ TeardownJoinLost \/ Teardown \/ RtspExit \/ TeardownEnd \/ TeardownClose \/ TeardownJoin \/
           Delete \/ DeleteJoinsRtsp \/ DeleteEnds \/ DeleteCloses \/ DeleteFrees \/
           (\E k \in Searches : Find(k)) \/ (\E k \in Searches : SearchExits(k)) \/
           (\E s \in Streamers : StreamerExits(s)) \/ UNCHANGED vars
  BY <1>1
     DEF IInv, Stopping, Ready, Sends, Metadata, TeardownJoinLost, SearchOwned, vars, remote, threads, history, Accept,
         Disconnect, Announce, Setup, SetupFails, Record, Teardown, RtspExit,
         TeardownEnd, TeardownClose, TeardownJoin, Delete, DeleteJoinsRtsp, DeleteEnds,
         DeleteCloses, DeleteFrees, Find, SearchExits, StreamerExits
<1> QED
  BY <1>1 DEF Next, Request, Handling, Deleting

\* The searches.
LEMMA SearchStep ==
  ASSUME IInv, [Next]_vars
  PROVE  SearchOwned'
<1>1. CASE Announce
  <2>1. PICK k \in Searches :
          /\ search[k] = "unused" /\ thread' = k
          /\ search' = [search EXCEPT ![k] = "running"]
          /\ \/ handle' = k /\ unopened' = unopened
             \/ handle' = None /\ unopened' = unopened \union {k}
    BY <1>1 DEF Announce
  <2>2. Alive' = Alive \union {k}
    BY <2>1 DEF Alive, IInv, TypeOK, ThreadsType
  <2>3. search'[k] = "running" /\ orphan' = orphan \union Alive /\ deleting' = deleting
    BY <1>1, <2>1 DEF Announce, IInv, TypeOK, ThreadsType
  <2>4. deleting \notin {"join", "done"}
    BY <1>1 DEF Announce, Sends, Ready, IInv, Stopping
  <2> QED
    BY <2>1, <2>2, <2>3, <2>4, Constants DEF SearchOwned
<1>2. CASE TeardownJoin
  <2>1. deleting \notin {"join", "done"} /\ deleting' = deleting
    BY <1>2 DEF TeardownJoin, IInv, Stopping
  <2>2. UNCHANGED <<thread, orphan, unopened>> /\ handle' = None
    BY <1>2 DEF TeardownJoin
  <2>3. CASE Joinable(thread)
    <3>1. Alive' = Alive \ {thread} /\ (thread # None => search'[thread] # "unused")
      BY <1>2, <2>3 DEF TeardownJoin, Joinable, Alive, IInv, TypeOK, ThreadsType
    <3> QED
      BY <2>1, <2>2, <3>1 DEF SearchOwned, IInv
  <2>4. CASE ~Joinable(thread)
    <3>1. search' = search /\ Alive' = Alive
      BY <1>2, <2>4 DEF TeardownJoin, Alive
    <3>2. thread \notin Alive
      BY <2>4 DEF Joinable, Alive
    <3> QED
      BY <2>1, <2>2, <3>1, <3>2 DEF SearchOwned, IInv
  <2> QED
    BY <2>3, <2>4
<1>3. CASE DeleteFrees
  BY <1>3, Constants
     DEF DeleteFrees, remote, threads, history, Alive, IInv, TypeOK, ContextType,
         ThreadsType, Stopping, SearchOwned
<1>4. CASE DeleteCloses
  BY <1>4, Constants
     DEF DeleteCloses, remote, threads, history, Alive, IInv, TypeOK, ContextType,
         ThreadsType, Stopping, SearchOwned
<1>5. ASSUME NEW k \in Searches, Find(k)
      PROVE  SearchOwned'
  BY <1>5, Constants
     DEF Find, remote, threads, history, Alive, IInv, TypeOK, ContextType,
         ThreadsType, Stopping, SearchOwned
<1>6. ASSUME NEW k \in Searches, SearchExits(k)
      PROVE  SearchOwned'
  BY <1>6, Constants
     DEF SearchExits, remote, threads, history, Alive, IInv, TypeOK, ContextType,
         ThreadsType, Stopping, SearchOwned
<1>7. CASE Accept \/ Disconnect \/ Setup \/ SetupFails \/ Record \/ Metadata \/
           Teardown \/ TeardownJoinLost \/ RtspExit \/ TeardownEnd \/ TeardownClose \/
           Delete \/ DeleteJoinsRtsp \/ DeleteEnds \/
           (\E s \in Streamers : StreamerExits(s)) \/ UNCHANGED vars
  <2>1. UNCHANGED <<handle, thread, search, unopened, orphan>>
    BY <1>7
       DEF vars, remote, threads, history, Accept, Disconnect, Setup, SetupFails, Record,
           Metadata, Teardown, TeardownJoinLost, RtspExit, TeardownEnd, TeardownClose,
           Delete, DeleteJoinsRtsp, DeleteEnds, StreamerExits
  <2>2. deleting' = deleting \/ deleting' \in {"thread", "end", "close"}
    BY <1>7
       DEF vars, Accept, Disconnect, Setup, SetupFails, Record, Metadata, Teardown,
           TeardownJoinLost, RtspExit, TeardownEnd, TeardownClose, Delete,
           DeleteJoinsRtsp, DeleteEnds, StreamerExits
  <2>3. deleting = "done" => deleting' = "done"
    BY <1>7
       DEF vars, Accept, Disconnect, Setup, SetupFails, Record, Metadata, Teardown,
           TeardownJoinLost, RtspExit, TeardownEnd, TeardownClose, Delete,
           DeleteJoinsRtsp, DeleteEnds, StreamerExits
  <2> QED
    BY <2>1, <2>2, <2>3 DEF IInv, SearchOwned, Alive
<1> QED
  BY <1>1, <1>2, <1>3, <1>4, <1>5, <1>6, <1>7 DEF Next, Request, Handling, Deleting

\* The requests.
LEMMA InOrderStep ==
  ASSUME IInv, [Next]_vars
  PROVE  InOrder'
<1>1. CASE Announce
  <2>1. PICK k \in Searches :
          thread' = k /\ search' = [search EXCEPT ![k] = "running"]
    BY <1>1 DEF Announce
  <2>2. search'[k] = "running" /\ k # None
    BY <2>1, Constants DEF IInv, TypeOK, ThreadsType
  <2> QED
    BY <1>1, <2>1, <2>2 DEF Announce, Sends, Ready, InOrder
<1>2. CASE Setup
  BY <1>2, Constants DEF Setup, Sends, Ready, threads, IInv, InOrder
<1>3. CASE SetupFails \/ Record \/ Teardown
  BY <1>3 DEF SetupFails, Record, Teardown, Sends, Ready, threads, IInv, InOrder
<1>4. CASE Metadata
  BY <1>4 DEF Metadata, Sends, Ready, threads, IInv, InOrder
<1>5. CASE TeardownJoin \/ TeardownEnd \/ TeardownClose \/ TeardownJoinLost \/ Disconnect
           \/ Accept \/ RtspExit
  BY <1>5
     DEF TeardownJoin, TeardownEnd, TeardownClose, TeardownJoinLost, Disconnect, Accept,
         RtspExit, threads, history, Ready, IInv, InOrder
<1>6. CASE DeleteFrees
  BY <1>6
     DEF DeleteFrees, history, IInv, TypeOK, ThreadsType, SearchOwned, Stopping, InOrder
<1>7. ASSUME NEW k \in Searches, Find(k) \/ SearchExits(k)
      PROVE  InOrder'
  BY <1>7 DEF Find, SearchExits, history, threads, IInv, TypeOK, ThreadsType, InOrder
<1>8. CASE Delete \/ DeleteJoinsRtsp \/ DeleteEnds \/ DeleteCloses \/
           (\E s \in Streamers : StreamerExits(s)) \/ UNCHANGED vars
  BY <1>8
     DEF Delete, DeleteJoinsRtsp, DeleteEnds, DeleteCloses, StreamerExits, vars, threads,
         history, IInv, InOrder, Stopping
<1> QED
  BY <1>1, <1>2, <1>3, <1>4, <1>5, <1>6, <1>7, <1>8 DEF Next, Request, Handling, Deleting

\* The streamers.
LEMMA StreamerStep ==
  ASSUME IInv, [Next]_vars
  PROVE  StreamerOwned'
<1>1. CASE Record \/ Metadata \/ TeardownJoinLost
  BY <1>1, Constants
     DEF Record, Metadata, TeardownJoinLost, remote, threads, history, Ready, Sends, Ask, Ended, Owned, IInv,
         TypeOK, ContextType, ThreadsType, Stopping, StreamerOwned
<1>2. CASE RtspExit
  BY <1>2, Constants
     DEF RtspExit, remote, threads, history, Ready, Sends, Ask, Ended, Owned, IInv,
         TypeOK, ContextType, ThreadsType, Stopping, StreamerOwned
<1>3. CASE TeardownJoin
  BY <1>3, Constants
     DEF TeardownJoin, remote, threads, history, Ready, Sends, Ask, Ended, Owned, IInv,
         TypeOK, ContextType, ThreadsType, Stopping, StreamerOwned
<1>4. CASE Delete
  BY <1>4, Constants
     DEF Delete, remote, threads, history, Ready, Sends, Ask, Ended, Owned, IInv,
         TypeOK, ContextType, ThreadsType, Stopping, StreamerOwned
<1>5. CASE DeleteEnds
  BY <1>5, Constants
     DEF DeleteEnds, remote, threads, history, Ready, Sends, Ask, Ended, Owned, IInv,
         TypeOK, ContextType, ThreadsType, Stopping, StreamerOwned
<1>6. CASE DeleteCloses
  BY <1>6, Constants
     DEF DeleteCloses, remote, threads, history, Ready, Sends, Ask, Ended, Owned, IInv,
         TypeOK, ContextType, ThreadsType, Stopping, StreamerOwned
<1>7. CASE DeleteFrees
  BY <1>7, Constants
     DEF DeleteFrees, remote, threads, history, Ready, Sends, Ask, Ended, Owned, IInv,
         TypeOK, ContextType, ThreadsType, Stopping, StreamerOwned
<1>8. CASE Setup
  BY <1>8, Constants
     DEF Setup, remote, threads, history, Ready, Sends, Ask, Ended, Owned, IInv,
         TypeOK, ContextType, ThreadsType, Stopping, StreamerOwned
<1>9. CASE SetupFails
  BY <1>9, Constants
     DEF SetupFails, remote, threads, history, Ready, Sends, Ask, Ended, Owned, IInv,
         TypeOK, ContextType, ThreadsType, Stopping, StreamerOwned
<1>10. CASE Teardown
  BY <1>10, Constants
     DEF Teardown, remote, threads, history, Ready, Sends, Ask, Ended, Owned, IInv,
         TypeOK, ContextType, ThreadsType, Stopping, StreamerOwned
<1>11. CASE TeardownEnd
  BY <1>11, Constants
     DEF TeardownEnd, remote, threads, history, Ready, Sends, Ask, Ended, Owned, IInv,
         TypeOK, ContextType, ThreadsType, Stopping, StreamerOwned
<1>12. CASE DeleteJoinsRtsp
  BY <1>12, Constants
     DEF DeleteJoinsRtsp, remote, threads, history, Ready, Ask, Ended, Owned, IInv,
         TypeOK, ContextType, ThreadsType, Stopping, StreamerOwned
<1>13. ASSUME NEW s \in Streamers, StreamerExits(s)
      PROVE  StreamerOwned'
  BY <1>13, Constants
     DEF StreamerExits, remote, threads, history, Ready, Sends, Ask, Ended, Owned, IInv,
         TypeOK, ContextType, ThreadsType, Stopping, StreamerOwned
<1>14. CASE Accept \/ Disconnect \/ Announce \/ TeardownClose \/
            (\E k \in Searches : Find(k)) \/ (\E k \in Searches : SearchExits(k)) \/
            UNCHANGED vars
  BY <1>14, Constants
     DEF IInv, StreamerOwned, Stopping, TypeOK, ContextType, RemoteType, ThreadsType,
         Ready, Sends, Owned, Ask, Ended, vars, remote, threads, history, Accept,
         Disconnect, Announce, TeardownClose, Find, SearchExits
<1> QED
  BY <1>1, <1>2, <1>3, <1>4, <1>5, <1>6, <1>7, <1>8, <1>9, <1>10, <1>11, <1>12, <1>13,
     <1>14
     DEF Next, Request, Handling, Deleting

\* The remote.
LEMMA TidyStep ==
  ASSUME IInv, [Next]_vars
  PROVE  Tidy' /\ RemoteOfSession'
<1>1. CASE Announce
  BY <1>1, Constants
     DEF IInv, Tidy, RemoteOfSession, TypeOK, ContextType, RemoteType, ThreadsType, Ready,
         Sends, Alive, Announce
<1>2. ASSUME NEW k \in Searches, Find(k)
      PROVE  Tidy' /\ RemoteOfSession'
  <2>1. ~untidy => phase # "down"
    BY <1>2 DEF Find, Alive, IInv, Tidy
  <2>2. RemoteOfSession'
    BY <1>2 DEF Find, RemoteOfSession
  <2> QED
    BY <1>2, <2>1, <2>2 DEF Find, history, Tidy
<1>3. CASE Accept \/ Disconnect \/ TeardownJoin
  BY <1>3, Constants
     DEF IInv, Tidy, RemoteOfSession, Stopping, TypeOK, ContextType, RemoteType,
         ThreadsType, Ready, Joinable, Alive, remote, threads, history, Accept,
         Disconnect, TeardownJoin
<1>4. CASE Setup \/ SetupFails \/ Record \/ Metadata \/ Teardown \/ RtspExit \/
           TeardownEnd \/ TeardownClose \/ TeardownJoinLost \/ UNCHANGED vars
  BY <1>4, Constants
     DEF IInv, Tidy, RemoteOfSession, Stopping, TypeOK, ContextType, RemoteType,
         ThreadsType, Ready, Alive, vars, remote, threads, history, Setup, SetupFails,
         Record, Metadata, Teardown, RtspExit, TeardownEnd, TeardownClose,
         TeardownJoinLost
<1>5. CASE Delete \/ DeleteJoinsRtsp \/ DeleteEnds \/ DeleteCloses \/ DeleteFrees \/
           (\E k \in Searches : SearchExits(k)) \/
           (\E s \in Streamers : StreamerExits(s))
  BY <1>5, Constants
     DEF IInv, Tidy, RemoteOfSession, Stopping, TypeOK, ContextType, RemoteType,
         ThreadsType, Alive, remote, threads, history, Delete, DeleteJoinsRtsp,
         DeleteEnds, DeleteCloses, DeleteFrees, SearchExits, StreamerExits
<1> QED
  BY <1>1, <1>2, <1>3, <1>4, <1>5 DEF Next, Request, Handling, Deleting

LEMMA InitHolds == Init => IInv
<1> SUFFICES ASSUME Init PROVE IInv
  OBVIOUS
<1>1. TypeOK
  BY DEF Init, TypeOK, ContextType, RemoteType, ThreadsType
<1>2. Alive = {}
  BY DEF Init, Alive
<1>3. Stopping /\ StreamerOwned
  BY Constants DEF Init, Stopping, StreamerOwned, Ended
<1>4. SearchOwned /\ InOrder /\ Tidy /\ RemoteOfSession
  BY <1>2 DEF Init, SearchOwned, InOrder, Tidy, RemoteOfSession
<1> QED
  BY <1>1, <1>3, <1>4 DEF IInv

\* The inductive invariant holds in every behaviour.
THEOREM Invariant == Spec => []IInv
<1>1. IInv /\ [Next]_vars => IInv'
  BY ContextTypeStep, RemoteTypeStep, ThreadsTypeStep, StoppingStep, SearchStep,
     StreamerStep, InOrderStep, TidyStep
     DEF IInv, TypeOK
<1> QED
  BY InitHolds, <1>1, PTL DEF Spec

-----------------------------------------------------------------------------
(* What follows *)

\* The context, its searches and streamers keep their types.
THEOREM TypeCorrect == Spec => []TypeOK
BY Invariant, PTL DEF IInv

\* When raopsr_delete frees the context, no thread of it runs but the searches and
\* streamers that were overwritten, and the last search if it never had a handle.
THEOREM NothingIsLeft == Spec => []NothingOutlivesContext
<1>1. ASSUME IInv, ctx = "freed"
      PROVE  Alive \subseteq orphan \union (unopened \intersect {thread})
  BY <1>1 DEF IInv, Stopping, SearchOwned
<1>2. ASSUME IInv, ctx = "freed", NEW s \in Streamers \ adrift
      PROVE  streamer[s] \in {"unused", "ended"}
  <2>1. streamer[s] \in {"up", "asked"} => s = ht /\ s # None
    BY <1>2, Constants DEF IInv, StreamerOwned
  <2>2. ht # None => streamer[ht] = "ended"
    BY <1>2 DEF IInv, Stopping, StreamerOwned, Ended
  <2>3. streamer[s] \in {"unused", "up", "asked", "ended"}
    BY <1>2 DEF IInv, TypeOK, ThreadsType
  <2> QED
    BY <2>1, <2>2, <2>3
<1>3. IInv => NothingOutlivesContext
  BY <1>1, <1>2 DEF NothingOutlivesContext
<1> QED
  BY Invariant, <1>3, PTL

\* The remote found for a session with a DACP-ID is the session's own, unless a sender was
\* lost or announced twice since the last clean TEARDOWN.
THEOREM RemoteIsOfSession == Spec => []RemoteOfSession
BY Invariant, PTL DEF IInv

\* raopsr_delete joins a search that was started, and once, whatever senders did before;
\* TEARDOWN does if requests came in order.
THEOREM JoinsOnce == Spec => []JoinsLiveThread
<1>1. IInv => JoinsLiveThread
  BY Constants
     DEF IInv, TypeOK, ContextType, ThreadsType, Stopping, SearchOwned, InOrder, Joinable,
         JoinsLiveThread
<1> QED
  BY Invariant, <1>1, PTL

\* There is one streamer but for those a SETUP overwrote, and as long as requests come in
\* order it is there when SET_PARAMETER reaches for it.
THEOREM OneStreamerOnly == Spec => []OneStreamer
<1>1. IInv => OneStreamer
  BY DEF IInv, StreamerOwned, InOrder, OneStreamer
<1> QED
  BY Invariant, <1>1, PTL

-----------------------------------------------------------------------------
(* With no connection lost within a session, every search given a handle    *)
(* and requests in order                                                    *)

Sound == {"drop", "mdns", "order"} \intersect Faults = {}

\* Each session begins with nothing of the one before.
Orderly ==
  /\ orphan = {} /\ adrift = {} /\ unopened = {}
  /\ phase = "down" => handle = None
  /\ phase \in {"down", "announced"} => ht = None

LEMMA OrderlyStep ==
  ASSUME Sound, IInv, Orderly, [Next]_vars
  PROVE  Orderly'
<1>1. CASE Announce
  <2>1. phase = "down" /\ phase' = "announced" /\ ht' = ht /\ adrift' = adrift
    BY <1>1 DEF Announce, Sends, Sound
  <2>2. Alive = {}
    BY <2>1 DEF IInv, SearchOwned, Orderly
  <2>3. unopened' = unopened
    BY <1>1 DEF Announce, Sound
  <2>4. orphan' = {} /\ unopened' = {}
    BY <1>1, <2>2, <2>3 DEF Announce, Orderly
  <2> QED
    BY <2>1, <2>4 DEF Orderly
<1>2. CASE Setup \/ SetupFails
  <2>1. ht = None /\ UNCHANGED <<orphan, unopened>> /\ phase' \in {"setup", "refused"}
        /\ adrift' = Owned(ht) \union adrift
    BY <1>2 DEF Setup, SetupFails, Sends, Sound, Orderly
  <2> QED
    BY <2>1 DEF Orderly, Owned
<1>3. CASE TeardownJoin
  BY <1>3 DEF TeardownJoin, IInv, StreamerOwned, Orderly
<1>4. CASE Disconnect
  BY <1>4 DEF Disconnect, Sound, Orderly, remote, threads
<1>5. CASE Accept \/ Record \/ Metadata \/ TeardownJoinLost \/ Teardown \/ RtspExit \/ TeardownEnd \/ TeardownClose \/
           Delete \/ DeleteJoinsRtsp \/ DeleteEnds \/ DeleteCloses \/ DeleteFrees \/
           (\E k \in Searches : Find(k) \/ SearchExits(k)) \/
           (\E s \in Streamers : StreamerExits(s)) \/ UNCHANGED vars
  BY <1>5
     DEF Orderly, vars, remote, threads, history, Accept, Record, Metadata,
         TeardownJoinLost, Sends, Sound, Teardown, RtspExit,
         TeardownEnd, TeardownClose, Delete, DeleteJoinsRtsp, DeleteEnds, DeleteCloses,
         DeleteFrees, Find, SearchExits, StreamerExits
<1> QED
  BY <1>1, <1>2, <1>3, <1>4, <1>5 DEF Next, Request, Handling, Deleting

LEMMA OrderlyAlways ==
  ASSUME Sound
  PROVE  Spec => [](IInv /\ Orderly)
<1>1. Init => Orderly
  BY DEF Init, Orderly
<1>2. IInv /\ Orderly /\ [Next]_vars => Orderly'
  BY OrderlyStep
<1> QED
  BY Invariant, <1>1, <1>2, PTL DEF Spec

\* Then the comment of raop_server.c:525 is right: TEARDOWN leaves no search on-going.
THEOREM TeardownEndsTheSearch ==
  Sound => (Spec => []TeardownLeavesNoSearch)
<1> SUFFICES ASSUME Sound
             PROVE  Spec => []TeardownLeavesNoSearch
  OBVIOUS
<1>1. IInv /\ Orderly => TeardownLeavesNoSearch
  BY DEF IInv, SearchOwned, Orderly, TeardownLeavesNoSearch
<1> QED
  BY OrderlyAlways, <1>1, PTL

\* No thread that works on the context is left when it is freed, without exception.
NothingOutlivesAtAll ==
  ctx = "freed" => Alive = {} /\ \A s \in Streamers : streamer[s] \in {"unused", "ended"}

\* Then raopsr_delete frees the context only when every thread of it has ended.
THEOREM NothingIsLeftAtAll ==
  Sound => (Spec => []NothingOutlivesAtAll)
<1> SUFFICES ASSUME Sound
             PROVE  Spec => []NothingOutlivesAtAll
  OBVIOUS
<1>1. Spec => []NothingOutlivesContext
  BY NothingIsLeft
<1>2. Orderly /\ NothingOutlivesContext => NothingOutlivesAtAll
  BY DEF Orderly, NothingOutlivesContext, NothingOutlivesAtAll
<1> QED
  BY OrderlyAlways, <1>1, <1>2, PTL
=============================================================================
