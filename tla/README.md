# AirHass in TLA+

AirHass (`airhass/`, `common/libraop/`, `common/crosstools/`) makes every `media_player` of Home
Assistant an AirPlay target. For each one it runs an AirPlay receiver: an AirPlay sender connects
to it by RTSP and streams RTP; AirHass decodes the frames into a ring, encodes them again and
offers them by HTTP; Home Assistant is asked to play that URL. A poll thread per target reports
what the player does (pause, stop, volume) back to the sender.

This directory models the parts of that program in which several threads share state, checks them
with TLC and proves most of what they promise with TLAPS. Line numbers are those of the repository.

## 1. Inventory

| Component | Source | State | Operations | Talks to |
|---|---|---|---|---|
| Target | `airhass.c` (`raop_cb`, `HAThread`, `AddHADevice`, `RemoveHADevice`, `FlushDevices`), `airhass.h` | `struct sMR`: `Running`, `Raop`, `RaopState`, `State`, `Volume`, `VolumeStampTx`, `Mutex`, `Thread` | add, remove, flush; `raop_cb` for STREAM, PLAY, STOP, FLUSH, VOLUME; one poll every 2 s (`HA_POLL`) | called back by the receiver's RTSP and RTP threads; calls Home Assistant; `raopsr_notify` |
| Home Assistant client | `ha_api.c` | none | fetch states, fetch the hidden entities, call a service | HTTP and WebSocket, blocking, without timeouts |
| Registry | `airhass.c` (`AddHADevices`, `RefreshHADevices`, `SearchUDN`) | the array `glMRDevices` of `glMaxDevices` slots | initial fill, refresh every 30 s: remove, rename, add | Target, client |
| Lifecycle | `airhass.c` (`main`, `Start`, `Stop`, `MainThread`, `sighandler`) | `glMainRunning`, `glHost`, `glmDNSServer`, the array's memory | start, restart after a change of address, exit by command or signal | Registry, mDNS |
| RAOP sessions | `raop_server.c` | `raopsr_t`: `running`, `active_remote`, `search_thread`, `ht` | ANNOUNCE, SETUP, RECORD, FLUSH, TEARDOWN, SET_PARAMETER, notify, delete | streamer, mDNS query, target |
| RTP ring | `raop_streamer.c` (`buffer_put_packet`, `_buffer_get_frame`, `raopst_flush`, `raopst_record`, clock correction) | `audio_buffer`, `ab_read`, `ab_write`, `first_seqno`, `state`, `pause`, `skip` under `ab_mutex` | record, flush, put, get, repeat or drop a frame | RTP, RTSP and HTTP threads |
| HTTP stream | `raop_streamer.c` (`http_thread_func`, `handle_http`), `encoder.c` (`encoder_open`, `encoder_close`) | `http_cache`, `http_count`, `http_ready`, `close_socket`, `silence_count`, `icy`, `metadata` | accept, answer a request or a range, send again, take and send a frame, hang up | ring, player; the RTSP thread's record, flush, metadata and end |
| Configuration | `config_ha.c` | the XML document | load once, save | none |
| Utilities | `crosstools` | the wake-up condition | sleep, wake, sockets, lists | all |
| Codecs, crypto, sender library, vendored code | `alac.c`, `raop_client.c`, `libpupnp`, `libjansson`, ... | | | left aside |

### What is hard about it

- Four threads touch one target: the manager (`MainThread` or `Stop`), its `HAThread`, the RTSP
  thread and the RTP thread of its receiver. The target's mutex is held across calls over the
  network (play, stop, `raopsr_notify`), and `ab_mutex` is held across `raop_cb` for FLUSH and PLAY.
- Both sides may change state and volume; what was read before the mutex is used after it.
- A slot is filled again without its mutex; the receiver is freed while others hold its address.
- What a session leaves in the receiver's context is met by the next connection; connections end
  without TEARDOWN; `handle_rtsp` takes any request at any time, a second SETUP or TEARDOWN too.
- Sequence numbers wrap, packets are late, repeated or lost; the reader runs at its own speed.
- Main and `MainThread` work on the same array without a lock, and go on when a start has failed.
- What was encoded is kept in a cache that wraps, for a player that comes again; a FLUSH resets the
  counts while a frame of the old stream is being sent without the mutex; titles are put between
  bytes counted down in two places.

### What makes each component correct

- *Target*: memory outlives its users; a free slot is quiet; operations end; a PLAY is
  swallowed without cause only until the next poll tells otherwise; a level just replaced is not
  echoed; sender and player converge.
- *Registry*: one target per entity; between refreshes the targets are those of the last answer,
  named as configured; hidden platforms stay hidden.
- *Lifecycle*: every target is registered with the server that runs; nothing runs on destroyed
  mutexes or freed memory.
- *Sessions*: threads are joined once and before the context is freed; a remote belongs to its
  session; there is one streamer; TEARDOWN and delete end.
- *Ring*: the frame taken is the one its number stands for, in order, never a flushed one; the number
  a FLUSH gave neither mutes the stream for good nor keeps it paused.
- *HTTP stream*: the player hears one piece of the current stream without gap or repeat; titles come
  exactly one interval apart; silence comes before sound; the
  encoder is open when it is used; the threads end.

## 2. Modules

| Module | Models | Abstract specification / use |
|---|---|---|
| `Bridge` | what one target promises, without threads | abstract specification of `Device` |
| `Device` | one target and every thread that touches it | `Promise == INSTANCE Bridge WITH up <- running, session <- raopState, level <- volume`; `KeepsPromise == Promise!Spec` |
| `DeviceProofs` | theorems about `Device` | TLAPS |
| `Registry` | slots, refresh, main and `MainThread` | what one addition or removal does inside a slot is `Device` |
| `RegistryProofs` | theorems about `Registry` | TLAPS |
| `Session` | the receiver's sessions and delete | |
| `SessionProofs` | theorems about `Session` | TLAPS |
| `FrameQueue` | what the ring promises, without slots, flags and wrapping numbers | abstract specification of `RtpBuffer` |
| `RtpBuffer` | the frame ring | `Promise == INSTANCE FrameQueue WITH mode <- Mode, next <- NextOut, held <- HeldBack, heard <- taken, floor <- Floor, repeats <- gaps`; `KeepsPromise == Promise!Spec` |
| `RtpProofs` | theorems about `RtpBuffer`: types, pending numbers, pauses, the discard loop | TLAPS, extended by `RingProofs` |
| `RingProofs` | what the two pointers stand for and what the slots hold | TLAPS, extended by `QueueProofs` |
| `QueueProofs` | `RtpBuffer` implements `FrameQueue` | TLAPS |
| `Moduli` | `%` by a positive number, for `RtpProofs` and `HttpStreamProofs` | TLAPS |
| `Playback` | what the HTTP side promises the player | abstract specification of `HttpStream` |
| `HttpStream` | the HTTP thread, its cache and its answers | `Promise == INSTANCE Playback WITH start <- Begins, at <- Heard`; `KeepsPromise == Promise!Spec` |
| `HttpStreamProofs` | theorems about `HttpStream` | TLAPS |
| `MCDevice`, `MCRegistry`, `MCSession`, `MCRtpBuffer`, `MCHttpStream` | values for TLC | |

The modules cut the system where the code calls from one component into the next. What `Device`
takes from the receiver (its threads call `raop_cb`, FLUSH and PLAY with `ab_mutex` held, STOP
before the RTP thread is joined) is what `Session` and `RtpBuffer` model from the inside; which
frames there are is `RtpBuffer`'s matter, what becomes of them `HttpStream`'s; what
`Registry` takes as one step (`AddHADevice`, `RemoveHADevice`) is the manager's sequence of `Device`.

### Device

A critical section that calls out over the network is cut at the call: the mutex stays held
(`mutex`), other threads run. One without such a call is one action.

| Code | Action |
|---|---|
| `AddHADevice` 419-456 | `AddHADevice`, `RaopsrCreate` or `RaopsrCreateFails`, `StartHAThread`: the RTSP thread runs before `Device->Raop` is assigned |
| `RemoveHADevice` 405-416, `raopsr_delete` 190-197 | `BeginRemove`, `ClearRunning`, `RaopsrDelete`, `JoinRtsp`, `FreeContext`, `JoinHAThread` |
| `FlushDevices` 539-550 | `BeginFlush` and the same steps, the receiver deleted first |
| `raop_cb` 228-282 | `RaopCb` (the switch: `OnStream`, `OnStop`, ...), `RaopCbReturn`, `RaopCbRefused` when `Running` is false |
| `HAThread` 285-335 | `HATop`, `HARead`, `HAReply`, `HAFail`, `HADecide`, `HALeave`, `HANotified`, `HAVolume`, `HAUnlock`; the sleep is the time before `HATop` |
| RTSP thread and the RTP thread of each streamer | `Setup`, `SetupRefused`, `RtspEvent`, `RtpPlay`, `TakeAbMutex`, `TeardownJoin`, `RtspExit`, `RtpExit` |
| Home Assistant, the clock (external) | `HomeSettles`, `Tick` |

`VolumeStampTx` becomes its age in ticks, counted to `Hold + 1`; the comparison with
`VolumeStampTx + 1000` is decided when `now` is sampled and decided again by a newer stamp, which
gives the comparison's value at line 320 without a clock that grows. Metadata and artwork events
change nothing in `raop_cb` and are left out. `told`, `vague`, `adrift`, `unsettled`, `stale` and `pollAge` are
history.

SETUP is accepted whenever it comes and overwrites `ctx->ht` (`raop_server.c:464`). The streamer that was
there is `adrift`: nobody asks it to end or joins it, and its RTP thread calls `raop_cb` as before, through
a receiver that may have been freed, on a slot that may be free or the next entity's. The process may
crash there; the model goes on with the outcome in which it does not. `ContextAlive` and `FreeSlotQuiet`
except these threads and the notify of a flush, and say that nothing else is left.

A poll read before the sender's stop and taken after it (lines 305-317) makes RaopState PLAY, and the
next RAOP_PLAY is swallowed (252). `PlayJustified` does not deny that: it says that such a PLAY goes with
`State` PLAYING, so that the next poll that shows the player stopped withdraws both. Only an answer such as
"buffering", which moves `State` and stands for no event, leaves PLAY behind (`vague`).

`ha_set_volume` (272) is called after the stamp is set, with the mutex held, and takes as long as Home
Assistant likes. `unsettled` is the time from there until Home Assistant shows the new level
(`HomeSettles`); a poll read within it is `stale`, also one read before. `EchoOnlyWhenSlow` says that a stale
level goes back to the sender only if showing the new level and answering took longer than the hold
together (`pollAge`); how long either thread waits for the mutex does not matter, since `now` is sampled
before it is taken. No limit on Home Assistant's time is assumed.

### Registry

Two threads, each with its place (`pc`), loop index (`at`), list (`entities`) and the slot it has chosen
(`picked`). `Fetch` is `ha_fetch_media_players`: parse up to `MAX_RENDERERS`, then drop the hidden ones, of
which none are known when the WebSocket exchange fails (`ha_api.c:587`). The repository's `README.md` says
that native targets are always hidden; `NativeHidden` is that sentence, and `registry_hidden` violates it.
`HiddenOrBlind` proves that this failure is the only cause. `Kept` is the loop of lines 587-596 as a
recursive function: it drops the hidden entities and closes the gaps.

No lock joins the search for a free slot to its filling, so they are two steps, `PickSlot` (SearchUDN and
the scan for a free slot, which read the same array, are one) and `FillSlot`; the remove and the add of a
renamed entity are two as well (`RenameRemoves`, `FillSlot` with `force_name`). `Overlap` says whether main and
`MainThread` may be at work at the same time. With `Overlap` TRUE the program's missing lock shows:
`registry_exit` violates `MutexesValid`, and `FillSlot` may overwrite a slot filled in between, so `NoTwins` and
`AdvertisedName` are claimed for threads that take turns only. Besides, `MainThread` setting `glMainRunning`
after `Stop(false)` (line 374) may overwrite what `Stop(true)` cleared, and then line 602 waits for ever.

`Start(false)` may fail, without an interface (561) or a server (581), and nobody looks at its result
(375): `RestartFails`, and the refresh follows as if it had not. Its targets are registered with no running
server; what `raopsr_create` does with a stopped or NULL one is undefined, and modelled as "it returns, NULL or
not". `advertised` is the slots registered with the server since it was started. `Advertised` says
that a running server knows every target: what was added without one is gone when the next starts.

### Session

The handler of TEARDOWN and `raopsr_delete` wait for other threads, so each is cut at its joins
(`TeardownEnd`, `TeardownClose`, `TeardownJoin`; `DeleteJoinsRtsp` ... `DeleteFrees`). `Faults`
selects what goes wrong: `drop` (a connection ends without TEARDOWN), `mdns` (`mdnssd_init` gives no
handle), `anonymous` (no DACP-ID), `setup` (SETUP refused) and `order`. `handle_rtsp` looks at no state before it
takes a request, so with `order` any request comes at any time: RECORD without a streamer (line 495 skips
`raopst_record` and goes on), metadata without one (558 and 571 hand NULL to `raopst_metadata`, which locks a
mutex behind it), TEARDOWN without ANNOUNCE or a second time (527 joins a thread that never was or is
gone). The last two are undefined: the RTSP thread is then `lost`, or goes on where it can
(`TeardownJoinLost`, `TeardownJoin`). Without `order` senders keep to the order of `raop_client.c`. The mDNS
query itself is external: it returns once its handle is closed.

What is left behind is said by history variables, so that the properties hold with every fault and say
exactly what survives: `orphan` (the searches that ran when an ANNOUNCE overwrote them), `unopened` (those
started without a handle), `adrift` (the streamers a SETUP overwrote), `untidy` (`active_remote` may hold what a
lost sender, or an ANNOUNCE before this one, left there) and `disorder` (a request came out of order). At
the end (`NothingOutlivesContext`) `orphan` and `adrift` are left, and the last search if it has no handle:
`raopsr_delete` takes the handle for the thread (206), and frees the context under it. `RemoteOfSession` claims
nothing of a session without a DACP-ID, for which `search_remote_cb` takes the first remote it finds (628).
`JoinsLiveThread` holds for `raopsr_delete` always and for TEARDOWN if requests came in order; so does the
half of `OneStreamer` that says metadata finds a streamer.

### RtpBuffer

Frames have numbers that do not wrap, the program sees them modulo `W`. Everything is under
`ab_mutex`, so each call is one action; `buffer_put_packet` is one of `PutIgnored`, `PutFirst`,
`PutAfterFlush`, `PutNeverEnds`, `Put` by its first branches. Whether a missing frame is waited for
or replaced by silence depends on play times, which are left open; resend requests do not change
the ring. `Ahead` bounds how far silence may run ahead of the stream: filling half the sequence
space, 65536 / 2 frames, is out of the model.

The history variable `astray` marks three things after which nobody can say what is heard: an overrun
(line 846 moves the read pointer and leaves stale `ready` flags behind), the discard loop of line 453
running past the writer, and `LeftBehind`: a reader that nobody moves, or that the clock correction
moves back in state WAIT, is left nearly half of all numbers behind, and then a signed difference of
16 bits takes before for after. `Reach` is that half less the packets that may come out of order.
A FLUSH of a playing stream ends all three. `RightFrame`, `NothingBelowFlush`, `ReaderBehind` and `FrameQueue` speak of the time
before or after, and the theorems show that nothing else goes wrong.

`FrameQueue` is a set of frames held, the frame to be heard next and the last one heard. Frames arrive
in any order (`Arrive`), the queue may move on past the first ones without their being heard (`Pass`:
skipped, lost, thinned while all is silence, dropped by the clock), and otherwise it hears the next one
that is there (`Hear`) and moves on right after it. `held' = From(held, next')` in every step is what makes
it strong: no frame leaves from the middle, none comes back, none takes another's place. `Repeat` is the
clock correction. `Open` demands that the first frame is neither heard nor flushed yet; `Restart` is a
FLUSH, after which frames above its number may be heard again. The mapping (`Mode`, `NextOut`, `HeldBack`)
calls the ring "open" while it plays and holds less than a turn (`Live`), "lost" while `astray`, otherwise
"closed": a ring filled by a turn or more promises nothing, since a packet then takes the slot of a
frame still in it, until the reader has skipped back to less than a turn.

`first_seqno` has two lives. With flush on, a packet clears it soon after a FLUSH, and `ListensOn` says
that until then no packet at or above it is taken for one below. With flush off, a FLUSH of a playing
stream sets `pause` and leaves it set for good: `PauseEnds` says that the first new packet ends the
pause, and `IgnoresOnlyBelow` fails half a turn of the numbers later. `PauseEnds` leaves out a FLUSH with
flush off in state WAIT or STREAM: the first packet then sets `first_seqno` to -1, which as a 16-bit
number is 65535, and only the lower half of all numbers ends the pause (`Released`, line 491).

### HttpStream

One action per call made with `ab_mutex` held; the mutex is held from `Answer` through `Resend` (the
blocking re-send of `handle_http`) to the end of a frame, and released to send it (1034).

| Code | Action |
|---|---|
| `http_thread_func` 943-968, 1079 | `Accept`, `NoRequest`, `HttpExit` |
| `handle_http` 1092-1157, `http_thread_func` 968-989 | `Answer` (a GET, with or without Range and Icy-MetaData), `Refuse` (HEAD, unreadable, lost) |
| `handle_http` 1158-1180 | `Resend`, one `send_data` with its title block; `ResendFails` |
| `http_thread_func` 983-1076 | `Close` (`close_socket`), `NoFrame`, `Encode` (a frame, the cache, a title within it), `Sent` |
| `raopst_record`, `raopst_flush`, `raopst_metadata`, `raopst_end` | `Record`, `Flush`, `Metadata`, `End` and `EndFrees` |
| `buffer_put_packet` 434-462, 549-554 | `FirstPacket`, `FlushedPacket`, `FirstSound` |

Bytes are numbered as they are encoded, and the cache holds their numbers: that is all `Playback` needs
to tell gap, repeat and overwritten bytes apart. A title block is the step of `remain` through zero.
`last`, `whole`, `since` and `sounded` are history. `Interval >= MaxFrame` (a frame brings at most one title)
is what the encoders do: 16K and 128K between titles (`encoder.c:324`). The code sets `range` to true
whenever it creates a streamer (`raop_server.c:458`), so a Range is always honoured.

Seen on the way, as facts about the code that the model has and no property contradicts: once more
was encoded than the cache holds a plain GET is sent nothing again, only a Range is (1153), and that
from an overwritten byte (`http_range`), so the wrapped cache is never used to effect; a FLUSH while a
frame is being sent frees the encoder's buffer that is on its way (351, 1034); before the first
packet, `encoder_close` reads what `malloc` left; a `close_socket` set while nobody listens hangs up
on the next player; the refresh of line 553, meant for "FLUSH not sending metadata" (552), sets a flag that
is there already, since a title is freed once sent (1030): after such a FLUSH no title is sent again.

## 3. Runs

| Run | Checks | Instance |
|---|---|---|
| `device_safety` | `TypeOK`, `ContextAlive`, `FreeSlotQuiet`, `PlayJustified`, refinement `KeepsPromise` | every state, request and operation, two streamers at a time, flush on, one level; 1,875,875 states |
| `device_live` | `EchoOnlyWhenSlow`, refinement `KeepsPromise`, `ManagerReturns`, `LevelConverges` | FLUSH, VOLUME and PLAY, two levels, one streamer, flush off, Hold 0; 157,928 states |
| `registry_safety` | `TypeOK`, `NoTwins`, `Synced`, `AdvertisedName`, `Advertised` | 4 entities (one native, one disabled, one with a configured name), 2 names, 2 slots, 3 renderers, answers of up to 4; 246,637 states |
| `registry_hidden` | `NativeHidden`, violated | the same |
| `registry_exit` | `MutexesValid`, violated | 3 entities, answers of one, `Overlap` |
| `session_safety` | `TypeOK`, `NothingOutlivesContext`, `RemoteOfSession`, `OneStreamer`, `JoinsLiveThread`, `AlwaysEnds` | 2 senders, 3 searches, 2 streamers, every fault; 2,266,843 states |
| `session_search` | `TeardownLeavesNoSearch`, violated | lost connections |
| `rtp_safety` | `TypeOK`, `RightFrame`, `NothingBelowFlush`, `ReaderBehind`, `ListensOn`, `PauseEnds`, refinement `KeepsPromise` | W 16, ring of 4, frames 14 to 21 (across the wrap, nearly half a turn, and more than half with what may come next), late by 1, jumps of 2, 1 correction, flush on and off; 772,554 states |
| `rtp_discard` | `DiscardEnds`, violated | W 32, ring of 4, frames 30 to 36 |
| `rtp_ignored` | `IgnoresOnlyBelow`, violated | W 8, flush off, frames 6 to 12: more than half of W |
| `http_safety` | `TypeOK`, `TitleEveryInterval`, `SilenceFirst`, `EncoderOpen`, refinement `KeepsPromise`, `Ends`, `HangsUp` | cache of 4 bytes, pieces of 2, titles every 3, frames of up to 2, 6 bytes in all, 1 frame of silence; 899,268 states |
| `http_range` | `RangeFromMemory`, violated | the same, flush on |

**Why the bounds are enough.** *Device*: two levels tell an echo from news, one is enough for the rest;
two streamers at a time are one adrift and one in `ctx->ht`, and both are used again without bound, as
slots are. With Hold 0 an answer of the same tick is within the hold and one of the next is not.
*Registry*: two slots for three enabled entities make it full; answers of four exceed the three
renderers; two names give a rename and a rename back. *Session*: three searches, so a leftover may
come from the last but one, and two streamers for one that is overwritten; requests out of order repeat
without bound. *RtpBuffer*: the ring must be smaller than half of `W` for `seq_order` to be right (2048 and
65536 in the code). Eight frames turn a ring of four twice and cross the wrap. A pending number (14) comes
to be half of `W` behind what may arrive next (22, 23), so the case that tells `ListensOn` from
`IgnoresOnlyBelow` is within the bounds: with flush off `IgnoresOnlyBelow` fails on this very instance. The
theorems' `Room` asks for `8 * B <= W` besides; the run is smaller than that, and finds no need for it.

*HttpStream*: six bytes through a cache of four wrap it; an interval of three is met by a frame boundary,
within a frame of two, and by the end of a piece sent again; every byte count at which `count`
passes the cache's size occurs.

`registry_safety` leaves out `Overlap`: with it `MutexesValid` fails, and so do `NoTwins`, `AdvertisedName`, `Synced` and
`Advertised`, when both fill or flush the slots at once. `TypeOK` is proved with it as well.

CHECK_DEADLOCK is off where the system may stop: after `raopsr_delete` or `Stop(true)`, when the
frames of the bound are used up, and in a loop that never ends. `Device` never stops.

### Fairness

- `Device!FairSpec`: one strong fairness for each thread, the manager, `HAThread`, the RTSP thread and the RTP
  thread of each streamer: a thread that has begun something goes on, and one that waits for a mutex gets
  it in the end although others take it too, which pthreads do not promise by the standard but give in
  practice where each holder sleeps between two turns, as `HAThread` does for two seconds. A call to Home
  Assistant or the sender made with the mutex held returns, which is an assumption about the environment:
  `ha_http_request` has no timeout. No fairness is assumed of a sender's requests or of the manager
  starting something.
- `Answered`, the premise of `LevelConverges`: some polls are answered and time passes. Its second premise
  says that player and sender leave the level alone.
- `Session!FairSpec`: the RTSP thread goes on in its handler (`Handling`), `raopsr_delete` goes on, a query
  whose handle was closed returns and a streamer that was asked to end does (`Ending`). That a streamer ends
  is an assumption here: `rtp_discard` shows how its RTP thread may not.
- `HttpStream!FairSpec`: the HTTP thread runs, so `send` returns: a player that stops reading without closing
  would keep it. `raopst_end` frees once the threads are joined. Nothing is assumed of the sender,
  of packets, of players that connect, or that a `send` ever fails.

## 4. Theorems

Each theorem is the usual argument, `Init => IInv`, `IInv /\ [Next]_vars => IInv'` with one step per
action and one lemma per conjunct, and `IInv => Inv`. The bounds that TLC needs (`MaxMade`, `MaxSearches`,
`Last`, ...) are constants here: any number. Each `IInv` was checked with TLC first.

### `DeviceProofs`

For any set of levels and streamers, any `Hold`, any flush setting and any subsets of states and
requests, from `DeviceAssumption` alone, however long Home Assistant takes:

| Theorem | Says |
|---|---|
| `Invariant` | `Spec => []IInv` |
| `TypeCorrect` | `Spec => []TypeOK` |
| `ContextOutlivesUsers` | `Spec => []ContextAlive` |
| `FreeSlotIsQuiet` | `Spec => []FreeSlotQuiet` |
| `PlayIsJustified` | `Spec => []PlayJustified` |
| `EchoesComeLate` | `Spec => []EchoOnlyWhenSlow` |
| `DeviceKeepsPromise` | `Spec => KeepsPromise` (Bridge's specification under the refinement mapping) |

The inductive invariant is

    IInv == TypeOK /\ Locking /\ Phase /\ Owned /\ Weighed /\ Freshness /\ PlayJustified

- `Locking`: who holds `mutex` or `ab_mutex` is exactly at the places of the code between lock and
  unlock. Without it a step could release a mutex another thread holds, and `FreeSlotQuiet` says
  nothing about the holder.
- `Phase`: for each operation and step of the manager, what it has left: `Running`, the receiver's
  memory, which threads may exist. `ContextAlive` and `FreeSlotQuiet` follow from it; they are not
  inductive alone, since they say nothing of the steps of a removal in between.
- `Owned`: a streamer that runs is the receiver's own or adrift. What raopst_end joins is only the former,
  so without it `FreeContext` would not be known to leave nothing but the latter.
- `Weighed`: the event `HAThread` is notifying differs from `RaopState` as `ha_state_to_raop_event` has
  it. The mutex, held since the decision, keeps `RaopState` from moving. The refinement needs this:
  `Bridge` lets Home Assistant report only what is news.
- `Freshness`: relates the age of the stamp, the age of the poll and `due`. A stale answer is no older
  than the change that made it stale, as long as it is on its way; once it is there it is not `due`, or
  Home Assistant was slower than the hold.

`DeviceKeepsPromise` shows that every action is a step of `Bridge` or changes nothing it sees.

### `SessionProofs`

From `SessionAssumption`: any senders, any numbers of searches and streamers, any set of faults.
`Invariant`, `TypeCorrect`, `NothingIsLeft` (`NothingOutlivesContext`), `RemoteIsOfSession` (`RemoteOfSession`),
`JoinsOnce` (`JoinsLiveThread`), `OneStreamerOnly` (`OneStreamer`).

    IInv == TypeOK /\ Stopping /\ SearchOwned /\ StreamerOwned /\ InOrder /\ Tidy /\ RemoteOfSession

- `Stopping`: how far TEARDOWN and delete have got and what each step leaves behind; `ctx` is freed
  only by its last one.
- `SearchOwned`, `StreamerOwned`: every search (streamer) that runs is the one `search_thread` (`ht`) names or was
  overwritten there. `NothingOutlivesContext` says so only at the end, which no step could keep.
- `InOrder`: as long as requests come in order, each finds what the ones before it left: TEARDOWN a search
  that is not joined yet, RECORD and metadata a streamer.
- `Tidy`: between two sessions no search is left that could still fill in a remote, unless one
  was left behind (`untidy`). `RemoteOfSession` alone would be broken by a search of the session before.

`TeardownEndsTheSearch` and `NothingIsLeftAtAll` assume that no connection is lost, every search has a handle
and requests come in order (`"drop"`, `"mdns"` and `"order"` not in `Faults`), and then say what the comment of
`raop_server.c:525` says: TEARDOWN leaves no search (`TeardownLeavesNoSearch`), and `raopsr_delete` frees a context
that no thread uses. `Orderly` is the additional invariant: `orphan`, `unopened` and `adrift` stay empty. Together
with `session_search` this says which faults the leftovers come from, and that they come from nothing else.

### `HttpStreamProofs`

From `HttpAssumption`: any cache that is a multiple of the piece sent again, any frame no larger than
the cache, any interval no smaller than a frame. `Invariant`, `TypeCorrect`, `TitlesEveryInterval`,
`SilenceComesFirst`, `EncoderOpenWhilePlaying`, and `HttpKeepsPromise`:
`Spec => KeepsPromise`.

    IInv == TypeOK /\ Sending /\ Memory /\ Starting
            /\ TitleEveryInterval /\ SilenceFirst /\ EncoderOpen

- `Sending`: what was sent again ends where the answer goes on, and an answer that begins at zero was
  begun while everything fitted. The refinement maps `last`; without this a piece sent again
  could be any step.
- `Memory`: the cache holds the last `Cache` bytes since the last flush, each in its place, however often
  it has wrapped. This is where the arithmetic of the wrapping index is (`Places`, `StoredBehind`). It is a
  theorem of its own (`CacheHoldsTheLatest`).
- `Starting`: before the stream plays nothing is encoded, so no silence is owed after sound.

`RangesBeginTooEarly` is the other side of `http_range`: what is sent again is in the cache exactly when the
answer begins at zero. The memory is right, the place to begin is wrong by one or more for every other
Range. That is why a Range answered from elsewhere is taken out of the promise.

### `RegistryProofs`

From `RegistryAssumption`: any entities, names, slots and renderers, answers of any length.
Whatever main and `MainThread` do at the same time: `Invariant`, `TypeCorrect`. With `~Overlap`, that is while
they take turns and no Stop(true) begins during a refresh: `Serialised` (`Spec => []SInv`), `NoTwinsEver`
(`NoTwins`), `NamesAreRight` (`AdvertisedName`), `TargetsAreSynced` (`Synced`), `TargetsAreAdvertised` (`Advertised`),
`HiddenOrBlind` (`HiddenUnlessBlind`), `MutexesStayValid` (`MutexesValid`). The assumption is needed: `registry_exit`
shows what happens without it, and `MutexesStayValid` that nothing else destroys a mutex in use.
`HiddenOrBlind` also assumes that there are at most `MAX_RENDERERS` hidden entities, as the list of
them is cut there. It is the other side of `registry_hidden`: a native target is left only by a refresh whose
WebSocket exchange failed.

    IInv == TypeOK /\ Lists /\ Picks
    SInv == IInv /\ Turns /\ Chosen /\ NoTwins /\ AdvertisedName /\ Cleared /\ Advertised /\ Progress

- `Lists`: no answer names an entity twice; else a pass could find one missing that it has added.
- `Picks`: a slot is chosen inside the loop, for the entity at its index.
- `Turns`: whose turn it is, place by place, so that no other thread moves the slots of a pass.
- `Chosen`: the slot chosen is still free and the entity still without one when it is filled, and a forced
  name goes to an entity that is shown under Home Assistant's. This is what overlapping threads break.
- `Cleared`: what `FlushDevices` has passed is empty and stays so until the refresh.
- `Progress`: what the passes that remove and add have achieved for the slots and entities before
  their index; at the end of the pass this is `Synced`.

What the loop of `Kept` leaves of a list, for every list, is proved too (`KeptIsRight`). The library's
induction theorems cannot be instantiated by the installed provers, so the induction goes by the
least counterexample: `<` on `Nat` is well-founded (`NatLessThanWellFounded`, `WFMin`), neither of
which takes an operator (`Least`).

### `RtpProofs`

From `BufferAssumption`: `TypeCorrect`. With `8 * B <= W` (2048 slots and 65536 numbers in the code), for
streams of any length: `Invariant`, `AlwaysListens` (`ListensOn`), `PauseIsReleased` (`PauseEnds`, an action
property).

    IInv == TypeOK /\ skip <= gaps /\ Recorded /\ Told /\ Cleared /\ Near

- `Told`: a pending `first_seqno` is the number the last FLUSH gave, modulo `W`.
- `Near`: while the number is pending (not playing yet, or paused) the newest packet is at most `Late`
  beyond it. This is what keeps `seq_order` right however long the stream gets: the lemma `Order`
  says that it tells which of two frames is first as long as they are less than half a turn apart.
  With flush off and the pause over nothing bounds the distance, and `IgnoresOnlyBelow` fails
  (`rtp_ignored`).

`DiscardEndsWhenTold` needs no hypothesis on the sizes: if RECORD gave the first number, the loop of
line 453 ends (`record # "untold" => DiscardEnds`), because then no packet is put in before the FLUSH that
the loop looks for (`Waiting`). `rtp_discard` needs a RECORD without it.

### `RingProofs`

From `BufferAssumption` and

    Room == 8 * B <= W /\ Late + Jump + Ahead + 2 <= W \div 2

for streams of any length. The program has 65536 numbers and 2048 slots; the second part says that packets
out of order and silence ahead take less than half of all numbers.

| Theorem | Says |
|---|---|
| `RingInvariant` | `Spec => []RInv` |
| `TakesTheRightFrame` | `Spec => []RightFrame` |
| `FlushedStaysSilent` | `Spec => []NothingBelowFlush` |
| `ReaderStaysBehind` | `Spec => []ReaderBehind` |
| `HeardInOrder` | `Spec => InOrder`: what is heard is above what was, short of the frames repeated |

    RInv == IInv /\ Begun /\ InPlace
    InPlace == ~astray => \E R, T \in Int : Placement(R, T) /\ Contents(R, T) /\ Heard(R)

The properties are about sequence numbers and cannot be kept step by step: a step knows `read` and `write`
modulo `W` only. `InPlace` finds the frames `R` and `T` they stand for.

- `Placement`: `R <= T + 1`, `T` at most `Ahead` beyond the newest packet, and the newest packet at most
  `Reach` beyond `R`. With it the signed 16-bit differences are the true ones (`SignedIs`, `Fill`, `Behind`,
  `Before`), and one step cannot carry them past half a turn without `LeftBehind` noticing.
- `Contents`: every ready slot holds a frame from `R` to `T`, in the slot of its number, or what a clock
  correction repeats. One lemma per way to change the ring: `FramesDrop`, `FramesTake`, `FramesPass`,
  `FramesPut`, `FramesMore`, `FramesRepeat`; `PlacedAt` and `StoredAt` put `buffer_put_packet` together.
- `Heard`: what was heard and what was flushed is below `R`, short of the corrections so far.
- `Begun`: before the first packet the slots hold nothing of the stream, and what was heard is below the
  number waited for. Without it the first packet after a FLUSH could be an old one.

### `QueueProofs`

`RingKeepsPromise`: `Room => (Spec => KeepsPromise)`, that is, `RtpBuffer` implements `FrameQueue`. Under
`RInv` every action is a step of the queue or changes nothing it sees:

| Action | Step of `FrameQueue` |
|---|---|
| `Put` | `Arrive`; `Pass` if the frame stored was thinned out at once, or was not stored; `Close` if the ring is then full |
| `PutFirst`, `PutAfterFlush`, a full ring that is read again | `Open` |
| `PutIgnored`, `GetNothing`, `GetFill`, `GetMissing`, `DropFrame`, a repeated slot taken out | `Pass` |
| `GetReady` | `Hear`; `Open` with the frame heard, if the reader has skipped back from a full ring |
| `RepeatFrame` | `Repeat` |
| `Flush` | `Restart`; nothing with flush off |
| any step that leaves the ring `astray` | `Lose` |

`InRing` is the set of frames in the ring. `RingDrop`, `RingTake`, `RingPass`, `RingPut` and `RingRepeat` say what
each way to change slots and flags does to that set; each needs the ring to hold less than a turn, as
two frames then have different slots (`SameSlot`). `StoredQueue` does it for `buffer_put_packet` as a whole.

### `Moduli`

What a 16-bit number and a slot index need of `%`. `Division` and `Remainder` say that quotient and remainder exist
and are unique, `Multiple` that no multiple but zero is nearer than a turn, `Turns` that full turns do
not change the remainder, `SameRemainder` that two numbers less than a turn apart with the same
remainder are equal, `DistUp` and `DistDown` what the difference of two remainders says of the distance.

### What is only model-checked

`ManagerReturns`, `LevelConverges`, `AlwaysEnds`, `Ends` and `HangsUp`: liveness under fairness and ENABLED are out
of the prover's reach. Every invariant and action property of a passing run, and every refinement, is a theorem.
Of the properties that a run violates, five are theorems under the condition that the run leaves out:
`TeardownLeavesNoSearch`, `MutexesValid`, `DiscardEnds`, `IgnoresOnlyBelow` as `ListensOn`, and `NativeHidden` as
`HiddenUnlessBlind`; of the sixth, `RangeFromMemory`, `RangesBeginTooEarly` says exactly when it fails. No module here declares a
RECURSIVE operator.

## 5. Findings

- `session_search`: ANNOUNCE overwrites the handle and thread of a search still running
  (`raop_server.c:447`), TEARDOWN then ends only the newest.
- `rtp_discard`: the loop of `raop_streamer.c:453` does not end when no slot holds a ready frame at or
  above `first_seqno`; it keeps `ab_mutex`.
- `rtp_ignored`: with flush off, `first_seqno` is never cleared in state PLAY (`raop_streamer.c:429`).
- `http_range`: a Range is answered from at most `http_count - CACHE_SIZE - 1`, a byte that is overwritten
  already (`raop_streamer.c:1113`).
- `registry_hidden`: one failed WebSocket exchange (`ha_api.c:587`) adds native targets, which the repository's
  `README.md` says are always hidden.
- `registry_exit`: `Stop(true)` destroys the mutexes of targets that a refresh has added behind
  `FlushDevices` (`airhass.c:603`).

The models also reach behaviour that looks wrong but that no line of the repository denies, so no run states
it; `PROJECT.json` lists each as a hazard with a note: a PLAY swallowed after a stale poll (`airhass.c:252`), a
streamer overwritten by a second SETUP that acts on a freed or refilled slot (`raop_server.c:464`), a context
freed under a search without a handle (207), an anonymous session given anybody's remote (628), a join of
no thread (527), a NULL streamer under metadata (558), targets added without a server (`airhass.c:375`), and two
threads filling the same slot (471).

## 6. Not modelled

- Configuration and command line: one thread, file and text handling. Their results are constants.
- Codecs, encryption, the challenge, metadata: data the properties do not tell apart.
- JSON, HTTP and WebSocket of the client: wording; its failures are choices (`HAFail`, `RefreshFetchFails`).
- 32-bit wrap of `gettime_ms`; a signal that interrupts the signal handler; partial failures of file I/O.
- `raopst_record`, which writes `first_seqno` without `ab_mutex`: one action here. A sender sends no packet
  before RECORD is answered, so the unlocked writes meet no reader.
- The resend requests of the RTP thread and the play times of the ring: they decide when a frame is
  given up, which `RtpBuffer` leaves open.
- 32-bit `size_t`: `http_count` would wrap after 4 GB of one stream.
- Vendored code (openssl headers for a dozen targets, libupnp, jansson, mDNS, codecs) is nearly all of
  the repository's lines; of AirHass's own C, the threads and their shared state are here, and what is
  left is the text handling, sequential set-up and numeric code listed above.

## 7. Plan

1. *(done)* `Bridge`, `Device`, its two runs, `DeviceProofs`.
2. *(done)* `Session`, `RtpBuffer`, `Registry` with their runs.
3. *(done)* `Playback`, `HttpStream`, their runs, `HttpStreamProofs`.
4. *(done)* `SessionProofs` with every fault, `RegistryProofs`, `RtpProofs`; pauses in `RtpBuffer`.
5. *(done)* The arithmetic of the ring for streams of any length: `RingProofs`.
6. *(done)* An abstract queue of frames that `RtpBuffer` implements, clock corrections included:
   `FrameQueue`, `QueueProofs`. The findings' other sides: `TeardownEndsTheSearch`, `MutexesStayValid`,
   `DiscardEndsWhenTold`, `RangesBeginTooEarly`.
7. The ring and the HTTP side composed.
