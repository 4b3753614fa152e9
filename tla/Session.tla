------------------------------ MODULE Session ------------------------------
(***************************************************************************)
(* The AirPlay receiver's sessions (raop_server.c).  One RTSP thread       *)
(* answers one sender at a time; ANNOUNCE starts a thread that searches    *)
(* the sender's remote control by mDNS, SETUP starts a streamer with its   *)
(* own threads, TEARDOWN ends both, and raopsr_delete ends everything from *)
(* another thread.  What a session has left in the context is still there  *)
(* for the next connection.                                                *)
(*                                                                         *)
(* handle_rtsp accepts any request at any time.  A sender that keeps to    *)
(* the order of raop_client.c sends ANNOUNCE, SETUP, RECORD, metadata,     *)
(* then TEARDOWN, also when SETUP was refused; that all of them do is an   *)
(* assumption about the environment, made only where Faults lacks "order". *)
(***************************************************************************)
EXTENDS Naturals

CONSTANTS
  Senders,       \* the senders, by their DACP-ID and the remote they advertise under it
  NoId,          \* an empty DACP-ID: none announced, or the header was missing
  Nobody,        \* no connection; no remote found
  MaxSearches,   \* bound on the ANNOUNCEs of one context
  MaxStreamers,  \* bound on its SETUPs
  Faults         \* what may go wrong: "drop" a connection, "mdns", "anonymous", "setup",
                 \* and requests out of "order"

ASSUME SessionAssumption ==
  /\ NoId \notin Senders /\ Nobody \notin Senders
  /\ MaxSearches \in Nat /\ MaxStreamers \in Nat
  /\ Faults \subseteq {"drop", "mdns", "anonymous", "setup", "order"}

Searches  == 1..MaxSearches
Streamers == 1..MaxStreamers
None      == 0     \* a NULL handle, thread or ht

VARIABLES
  ctx,        \* the context: "live" or "freed"
  running,    \* ctx->running
  rtsp,       \* where the RTSP thread is in its handler, "gone", or "lost": its process
              \* crashed, or it waits for ever, in undefined behaviour
  deleting,   \* where raopsr_delete is
  conn,       \* the sender connected
  phase,      \* how far that sender got, by its last request
  dacp,       \* active_remote.DACPid
  port,       \* active_remote.host and port: whose remote they lead to
  handle,     \* active_remote.handle: the search it belongs to
  thread,     \* ctx->search_thread: the search it runs
  search,     \* every search thread started
  closed,     \* the searches whose handle was closed, or was never opened
  ht,         \* ctx->ht
  streamer,   \* every streamer started
  unopened,   \* history: the searches started without a handle
  orphan,     \* history: the searches an ANNOUNCE found running and overwrote
  adrift,     \* history: the streamers a SETUP found in ht and overwrote
  untidy,     \* history: active_remote may hold what a lost sender or an ANNOUNCE before
              \* this one left there, or a search of its time may still write to it
  disorder    \* history: a request came out of order

remote  == <<dacp, port, handle>>
threads == <<thread, search, closed>>
history == <<unopened, orphan, adrift, untidy, disorder>>
vars == <<ctx, running, rtsp, deleting, conn, phase, remote, threads, ht, streamer, history>>

ContextType ==
  /\ ctx \in {"live", "freed"}
  /\ running \in BOOLEAN /\ untidy \in BOOLEAN /\ disorder \in BOOLEAN
  /\ rtsp \in {"ready", "end", "close", "join", "gone", "lost"}
  /\ deleting \in {"no", "thread", "end", "close", "join", "done"}
  /\ phase \in {"down", "announced", "refused", "setup", "up"}

RemoteType ==
  /\ conn \in Senders \union {Nobody}
  /\ dacp \in Senders \union {NoId}
  /\ port \in Senders \union {Nobody}

ThreadsType ==
  /\ handle \in Searches \union {None} /\ thread \in Searches \union {None}
  /\ search \in [Searches -> {"unused", "running", "exited", "joined"}]
  /\ closed \subseteq Searches
  /\ unopened \subseteq Searches /\ orphan \subseteq Searches
  /\ ht \in Streamers \union {None}
  /\ streamer \in [Streamers -> {"unused", "up", "asked", "ended"}]
  /\ adrift \subseteq Streamers

TypeOK == ContextType /\ RemoteType /\ ThreadsType

Init ==
  /\ ctx = "live" /\ running = TRUE
  /\ rtsp = "ready" /\ deleting = "no"
  /\ conn = Nobody /\ phase = "down"
  /\ dacp = NoId /\ port = Nobody /\ handle = None
  /\ thread = None /\ search = [k \in Searches |-> "unused"] /\ closed = {}
  /\ ht = None /\ streamer = [s \in Streamers |-> "unused"]
  /\ unopened = {} /\ orphan = {} /\ adrift = {} /\ untidy = FALSE /\ disorder = FALSE

-----------------------------------------------------------------------------
(* The RTSP thread between two requests (rtsp_thread).                     *)

Ready == rtsp = "ready" /\ running

Alive    == {k \in Searches : search[k] = "running"}
Owned(s) == IF s = None THEN {} ELSE {s}

Accept ==
  /\ Ready /\ conn = Nobody
  /\ conn' \in Senders
  /\ UNCHANGED <<ctx, running, rtsp, deleting, phase, remote, threads, ht, streamer, history>>

\* The connection ends: the sender is done with it, or it is lost.
Disconnect ==
  /\ Ready /\ conn # Nobody
  /\ phase = "down" \/ "drop" \in Faults
  /\ conn' = Nobody /\ phase' = "down"
  /\ untidy' = (untidy \/ phase # "down")
  /\ UNCHANGED <<ctx, running, rtsp, deleting, remote, threads, ht, streamer, unopened,
                 orphan, adrift, disorder>>

RtspExit ==
  /\ rtsp = "ready" /\ ~running
  /\ rtsp' = "gone"
  /\ UNCHANGED <<ctx, running, deleting, conn, phase, remote, threads, ht, streamer, history>>

-----------------------------------------------------------------------------
(* Requests (handle_rtsp).  An ANNOUNCE without DACP-ID leaves the one     *)
(* that is there; mdnssd_init may give no handle, and the thread is        *)
(* created all the same.                                                   *)

\* The sender connected sends the request; in order, it does so in these phases.
Sends(phases) ==
  /\ Ready /\ conn # Nobody
  /\ phase \in phases \/ "order" \in Faults
  /\ disorder' = (disorder \/ phase \notin phases)

Announce ==
  /\ Sends({"down"})
  /\ \E k \in Searches :
       /\ search[k] = "unused" /\ \A j \in 1..(k-1) : search[j] # "unused"
       /\ \/ dacp' = conn
          \/ "anonymous" \in Faults /\ dacp' = dacp
       /\ \/ handle' = k /\ UNCHANGED <<closed, unopened>>
          \/ /\ "mdns" \in Faults /\ handle' = None
             /\ closed' = closed \union {k} /\ unopened' = unopened \union {k}
       /\ thread' = k
       /\ search' = [search EXCEPT ![k] = "running"]
  /\ phase' = "announced"
  /\ orphan' = orphan \union Alive
  /\ untidy' = (untidy \/ phase # "down")
  /\ UNCHANGED <<ctx, running, rtsp, deleting, conn, port, ht, streamer, adrift>>

Setup ==
  /\ Sends({"announced"})
  /\ \E s \in Streamers :
       /\ streamer[s] = "unused" /\ \A j \in 1..(s-1) : streamer[j] # "unused"
       /\ ht' = s
       /\ streamer' = [streamer EXCEPT ![s] = "up"]
  /\ phase' = "setup"
  /\ adrift' = Owned(ht) \union adrift
  /\ UNCHANGED <<ctx, running, rtsp, deleting, conn, remote, threads, unopened, orphan,
                 untidy>>

\* Mutant: a SETUP refused leaves ht at a streamer that was freed.
SetupFailsDangling ==
  /\ "setup" \in Faults
  /\ Sends({"announced"})
  /\ ht' = MaxStreamers + 1
  /\ phase' = "refused"
  /\ adrift' = Owned(ht) \union adrift
  /\ UNCHANGED <<ctx, running, rtsp, deleting, conn, remote, threads, streamer, unopened,
                 orphan, untidy>>

\* raopst_init found no port: 500, and ht is NULL.
SetupFails ==
  /\ "setup" \in Faults
  /\ Sends({"announced"})
  /\ ht' = None
  /\ phase' = "refused"
  /\ adrift' = Owned(ht) \union adrift
  /\ UNCHANGED <<ctx, running, rtsp, deleting, conn, remote, threads, streamer, unopened,
                 orphan, untidy>>

\* Without a streamer the bridge is told all the same.
Record ==
  /\ Sends({"setup"})
  /\ phase' = "up"
  /\ UNCHANGED <<ctx, running, rtsp, deleting, conn, remote, threads, ht, streamer,
                 unopened, orphan, adrift, untidy>>

\* Metadata or artwork goes to raopst_metadata, which locks a mutex behind ctx->ht: with
\* a streamer nothing changes that is modelled here, without one it is NULL.
Metadata ==
  /\ Sends({"setup", "up"})
  /\ rtsp' = IF ht = None THEN "lost" ELSE rtsp
  /\ UNCHANGED <<ctx, running, deleting, conn, phase, remote, threads, ht, streamer,
                 unopened, orphan, adrift, untidy>>

-----------------------------------------------------------------------------
(* TEARDOWN, step by step as it waits for the threads of the session.      *)

Ask(s) == streamer' = IF s = None THEN streamer ELSE [streamer EXCEPT ![s] = "asked"]
Ended(s) == s # None => streamer[s] = "ended"

\* raop_cb(RAOP_STOP), then raopst_end asks the streamer's threads to leave ...
Teardown ==
  /\ Sends({"announced", "refused", "setup", "up"})
  /\ Ask(ht)
  /\ rtsp' = "end"
  /\ UNCHANGED <<ctx, running, deleting, conn, phase, remote, threads, ht, unopened,
                 orphan, adrift, untidy>>

\* Mutant: TEARDOWN forgets raopst_end.
TeardownEndForgotten ==
  /\ rtsp = "end"
  /\ ht' = None
  /\ rtsp' = "close"
  /\ UNCHANGED <<ctx, running, deleting, conn, phase, remote, threads, streamer, history>>

\* ... and joins them;
TeardownEnd ==
  /\ rtsp = "end"
  /\ Ended(ht)
  /\ ht' = None
  /\ rtsp' = "close"
  /\ UNCHANGED <<ctx, running, deleting, conn, phase, remote, threads, streamer, history>>

\* Mutant: the handle is not closed before the search is joined.
TeardownCloseForgotten ==
  /\ rtsp = "close"
  /\ rtsp' = "join"
  /\ UNCHANGED <<ctx, running, deleting, conn, phase, remote, threads, ht, streamer, history>>

\* the handle is closed, if there is one;
TeardownClose ==
  /\ rtsp = "close"
  /\ closed' = IF handle = None THEN closed ELSE closed \union {handle}
  /\ rtsp' = "join"
  /\ UNCHANGED <<ctx, running, deleting, conn, phase, remote, thread, search, ht,
                 streamer, history>>

Joinable(k) == k \in Searches /\ search[k] \in {"running", "exited"}

\* Mutant: active_remote is not cleared.
TeardownJoinKeepsRemote ==
  /\ rtsp = "join"
  /\ IF Joinable(thread)
       THEN search[thread] = "exited" /\ search' = [search EXCEPT ![thread] = "joined"]
       ELSE UNCHANGED search
  /\ untidy' = (Alive \ closed # {})
  /\ phase' = "down" /\ rtsp' = "ready"
  /\ UNCHANGED <<ctx, running, deleting, conn, remote, thread, closed, ht, streamer,
                 unopened, orphan, adrift, disorder>>

\* the search is joined whether there is one or not, and active_remote is cleared.
TeardownJoin ==
  /\ rtsp = "join"
  /\ IF Joinable(thread)
       THEN search[thread] = "exited" /\ search' = [search EXCEPT ![thread] = "joined"]
       ELSE UNCHANGED search
  /\ dacp' = NoId /\ port' = Nobody /\ handle' = None
  /\ untidy' = (Alive \ closed # {})
  /\ phase' = "down" /\ rtsp' = "ready"
  /\ UNCHANGED <<ctx, running, deleting, conn, thread, closed, ht, streamer, unopened,
                 orphan, adrift, disorder>>

\* A thread never started or joined before may be refused (TeardownJoin), or this.
TeardownJoinLost ==
  /\ rtsp = "join" /\ ~Joinable(thread)
  /\ rtsp' = "lost"
  /\ UNCHANGED <<ctx, running, deleting, conn, phase, remote, threads, ht, streamer,
                 history>>

-----------------------------------------------------------------------------
(* The threads of a session.                                               *)

\* search_remote_cb: the first remote whose name contains DACPid as it is now, and
\* every name contains the empty one.  The query stops then.
Find(k) ==
  /\ search[k] = "running" /\ k \notin closed
  /\ port' \in IF dacp = NoId THEN Senders ELSE {dacp}
  /\ search' = [search EXCEPT ![k] = "exited"]
  /\ UNCHANGED <<ctx, running, rtsp, deleting, conn, phase, dacp, handle, thread,
                 closed, ht, streamer, history>>

\* Its handle is closed: mdnssd_query returns (external).
SearchExits(k) ==
  /\ search[k] = "running" /\ k \in closed
  /\ search' = [search EXCEPT ![k] = "exited"]
  /\ UNCHANGED <<ctx, running, rtsp, deleting, conn, phase, remote, thread, closed,
                 ht, streamer, history>>

\* rtp_thread_func and http_thread_func see ctx->running false.
StreamerExits(s) ==
  /\ streamer[s] = "asked"
  /\ streamer' = [streamer EXCEPT ![s] = "ended"]
  /\ UNCHANGED <<ctx, running, rtsp, deleting, conn, phase, remote, threads, ht, history>>

-----------------------------------------------------------------------------
(* raopsr_delete, called once by the bridge.                               *)

Delete ==
  /\ deleting = "no"
  /\ running' = FALSE
  /\ deleting' = "thread"
  /\ UNCHANGED <<ctx, rtsp, conn, phase, remote, threads, ht, streamer, history>>

DeleteJoinsRtsp ==
  /\ deleting = "thread"
  /\ rtsp = "gone"
  /\ Ask(ht)
  /\ deleting' = "end"
  /\ UNCHANGED <<ctx, running, rtsp, conn, phase, remote, threads, ht, history>>

DeleteEnds ==
  /\ deleting = "end"
  /\ Ended(ht)
  /\ deleting' = "close"
  /\ UNCHANGED <<ctx, running, rtsp, conn, phase, remote, threads, ht, streamer, history>>

\* "do not reclaim memory of pthread if never launched": told by the handle.
DeleteCloses ==
  /\ deleting = "close"
  /\ IF handle # None THEN closed' = closed \union {handle} /\ deleting' = "join"
                      ELSE UNCHANGED closed /\ deleting' = "done"
  /\ ctx' = IF handle # None THEN ctx ELSE "freed"
  /\ UNCHANGED <<running, rtsp, conn, phase, remote, thread, search, ht, streamer, history>>

\* Mutant: the context is freed without waiting for the search.
DeleteFreesUnjoined ==
  /\ deleting = "join"
  /\ ctx' = "freed" /\ deleting' = "done"
  /\ UNCHANGED <<running, rtsp, conn, phase, remote, threads, ht, streamer, history>>

DeleteFrees ==
  /\ deleting = "join"
  /\ search[thread] = "exited"
  /\ search' = [search EXCEPT ![thread] = "joined"]
  /\ ctx' = "freed" /\ deleting' = "done"
  /\ UNCHANGED <<running, rtsp, conn, phase, remote, thread, closed, ht, streamer, history>>

-----------------------------------------------------------------------------
Request  == Announce \/ Setup \/ SetupFails \/ Record \/ Metadata \/ Teardown
Handling == RtspExit \/ TeardownEnd \/ TeardownClose \/ TeardownJoin \/ TeardownJoinLost
Deleting == DeleteJoinsRtsp \/ DeleteEnds \/ DeleteCloses \/ DeleteFrees

Next ==
  \/ Accept \/ Disconnect \/ Request \/ Handling
  \/ Delete \/ Deleting
  \/ \E k \in Searches : Find(k) \/ SearchExits(k)
  \/ \E s \in Streamers : StreamerExits(s)

Spec == Init /\ [][Next]_vars

\* Every thread runs, and a query whose handle is closed returns.  What ends a thread or
\* the context happens once for each, so fairness to all of it is fairness to each.
Ending ==
  \/ Deleting
  \/ \E k \in Searches : SearchExits(k)
  \/ \E s \in Streamers : StreamerExits(s)

FairSpec == Spec /\ WF_vars(Handling) /\ WF_vars(Ending)

-----------------------------------------------------------------------------
(* Properties *)

\* The context is freed only when no thread that works on it is left, with three
\* exceptions, each as the code makes it: the searches an ANNOUNCE overwrote while they
\* ran and the streamers a SETUP overwrote (a sender was lost, or its requests came out
\* of order), and the last search if it was started without a handle, by which
\* raopsr_delete tells that there is none to join (raop_server.c:206).
NothingOutlivesContext ==
  ctx = "freed" =>
    /\ Alive \subseteq orphan \union (unopened \intersect {thread})
    /\ \A s \in Streamers \ adrift : streamer[s] \in {"unused", "ended"}

\* Commands for the sender go to the remote that belongs to the session, if the session
\* has a DACP-ID: what an earlier session searched for never lands in a later one, if
\* all before were torn down.  A session without one takes the first remote found, and
\* nothing is claimed of it.
RemoteOfSession ==
  ~untidy /\ port # Nobody /\ dacp # NoId => port = dacp

\* raopsr_delete only ever joins a search that was started and not joined, whatever was
\* sent before, for it asks the handle; TEARDOWN, which does not, if the requests came
\* in order.
JoinsLiveThread ==
  /\ deleting = "join" => Joinable(thread)
  /\ rtsp = "join" /\ ~disorder => Joinable(thread)

\* ctx->ht is the only streamer there is, but for those a SETUP overwrote: none that was
\* torn down plays on.  And none that was ended or refused is reached as long as requests
\* come in order, although raopst_metadata takes ctx->ht unchecked.
OneStreamer ==
  /\ \A s \in Streamers \ adrift : streamer[s] \in {"up", "asked"} => s = ht
  /\ ~disorder /\ phase \in {"setup", "up"} /\ rtsp = "ready"
        /\ deleting \in {"no", "thread"} =>
       ht # None /\ streamer[ht] = "up"

\* TEARDOWN and raopsr_delete come to their end, whatever was lost before; only requests
\* out of order can keep them from it.
AlwaysEnds ==
  /\ rtsp \in {"end", "close", "join"} ~>
       rtsp \in {"ready", "gone"} \/ (rtsp = "lost" /\ disorder)
  /\ deleting = "thread" ~> ctx = "freed" \/ (rtsp = "lost" /\ disorder)

\* "need to make sure no search is on-going" (raop_server.c:525): once TEARDOWN has
\* cleared active_remote, and as long as no ANNOUNCE has filled it again.
TeardownLeavesNoSearch ==
  handle = None => Alive = {}
=============================================================================
