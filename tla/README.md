# Zuradio: a TLA+ development

Zuradio is a personal radio: a Rust daemon owns the library, the player and every
decision; a browser page on the same laptop (the *host*) is its audio output; remote
companions listen, command and upload through a peer-to-peer transport that the host
page bridges to the daemon. This directory holds TLA+ models of its core, the TLC
configurations that check them, and proofs checked by TLAPS.

Paths such as `service.rs` are short for the files listed under "Components".

## 1. Inventory

### 1.1 Components

| Component | Code | State | Operations |
|---|---|---|---|
| Player and queue | `crates/zuradio-core/src/service.rs`, `model.rs` | `PlayerState`: status, track, position, queue, cursor, saved order, history | play, pause, stop, play_track, seek, next, previous, report_playback, set_repeat, set_shuffle, queue_add / remove / move / clear |
| Command authority | `service.rs` 100-250, 430-480 | revision, cache of command ids, state blob in SQLite | execute, scan, catalog_file, set_track_recognition, persist, open |
| Collections | `service.rs` 290-420, 590-620 | playlists, favorites, chat, volume | create, rename, delete, add, remove, toggle, chat_send, chat_delete, chat_clear, set_volume |
| Catalog and scanner | `catalog.rs`, `service.rs` 70-125 | SQLite tables of tracks, overrides, state | scan, catalog one file, edit metadata, store a recognition result |
| Recognition queue | `server.rs` 496-575, `recognition.rs` | pending ids, channel of 256, two permits | enqueue, run the helper, store the result |
| Broadcast sessions and grants | `server.rs` 720-975, 1235-1275 | active session, table of grants | start, stop, status, verify, authorize, action, upload |
| Upload manager | `upload.rs` | open batches, staging directories, published files | begin, chunk, finish_file, commit, abort, revoke_all, remove_abandoned_staging |
| Snapshot feed | `server.rs` 434-494, 586-613, 1227-1233; `api.ts` 118-153 | broadcast channel of 64, revision the page shows | publish, subscribe, accept |
| Host playback | `host.ts` 40-160, `audio-engine.ts` | the `<audio>` element, chain of tasks | sync, ended, error, report |
| Host broadcast recovery | `host.ts` 161-256, 324-354, 434-510, 599-614 | session this window shows, its bridge, tasks, retry timer | open, click, poll, recover, activate, retry, stop if owned |
| Host bridge, companion bridge | `vdo.ts` | grants per transport, pending requests, snapshot assembly | hello, verify, control, upload, disconnect |
| Upload batching | `upload-batches.ts` | none (pure) | partitionUploadBatches |
| User interface, CLI, desktop shell, packaging | `host.ts`, `companion.ts`, `client.rs`, `src-tauri`, scripts | rendering, process management | - |

### 1.2 How they interact

* Every player or collection command reaches `ZuradioCore::execute` as a
  `ActionRequest` with a command id, an optional expected revision and the role of its
  sender. The daemon holds the core in one `Mutex`, so commands are serial; what is
  *not* serial is everything around it: the client that made the request from an older
  snapshot, the answer that is lost, the second lock taken to publish, the crash.
* The daemon's remote handlers use three more mutexes (broadcast, grants, uploads) one
  after the other. Two handlers interleave between any two of these sections.
* The host page applies snapshots to the audio element, and turns the element's events
  into commands. It closes a loop: ended -> `next` -> snapshot -> `play()` -> ended.
* An uploaded file passes from the upload manager's lock to the core's lock.
* A scan or an upload reads its recognition candidates under the core's lock and queues
  them after it; the jobs come back to the core one by one, minutes later.
* Several host windows may be open. Each starts, stops and polls the one broadcast session
  of the daemon, which knows nothing of windows: a start replaces, a stop ends whatever there is.

### 1.3 What is hard, and what makes each component correct

* **Player**: the queue, the cursor, the current track, the saved order of a shuffled
  queue and the history are five fields that fourteen commands keep together. Long
  sequences over queues with duplicates are where they could part.
* **Authority**: a command takes effect once and in the order of the revisions, also
  when it is delivered twice, raced by another role, or when the process dies between
  the catalog write and the save. Nothing acknowledged is lost.
* **Grants**: after a stop, nothing is authorized under the ended session, although a
  stop, a verify and a request interleave section by section. A sequence number is used
  once, in order.
* **Uploads**: only bytes with the sender's digest are published; what was acknowledged
  stays; what failed can be retried; nothing stale blocks a transfer id.
* **Host playback**: no sound after a stop; an unattended radio keeps playing; a file
  that fails is reported.
* **Snapshot feed**: a change reaches the page and from there every controller, although
  it is read and sent under no common lock, overtaken by answers, dropped as old, and
  carried by a socket that may come late or end.
* **Host and companion bridge**: grants of an earlier session or connection do not
  survive it; both ends agree on the next number, although the chunks of an upload overtake
  the other requests or are overtaken by them; and what is confirmed was done.
* **Library and recognition**: the user's corrections survive every rescan; a label is about
  the bytes it was made from; every track that waits has exactly one job, and every job ends.
* **Broadcast ownership**: a window serves the session it shows and no other; two windows
  stop replacing each other; an automatic window ends on the air, or for a reason.

`PROJECT.json` lists under "hazards" the source line at which each of these bites.

## 2. Modules

| Module | Models | Extends |
|---|---|---|
| `PlayerQueue` | the player reducer | - |
| `HostPlayback` | the host page driving and driven by `PlayerQueue` | `PlayerQueue` |
| `CommandLog` | abstract: a durable list in which no command is taken again within a window | - |
| `CommandAuthority` | execute, cache, revisions, roles, persistence, crashes | instance of `CommandLog` |
| `BroadcastGrants` | sessions, grants and remote requests, by critical section | - |
| `UploadTransfer` | the upload manager, the disk, the catalog step | - |
| `SnapshotFeed` | the way of a revision from the authority to page and controllers | - |
| `RemoteHandshake` | companion, host bridge and daemon: hello, grant, requests, stop | - |
| `Library` | the tracks table, scans and corrections, and the recognition queue | - |
| `BroadcastOwnership` | several host windows over one broadcast session | - |
| `PlayerProofs` | theorems and proofs about the player and the host page | `HostPlayback`, `TLAPS` |
| `CommandAuthorityProofs`, `BroadcastGrantsProofs`, `UploadTransferProofs`, `SnapshotFeedProofs`, `RemoteHandshakeProofs`, `LibraryProofs`, `BroadcastOwnershipProofs` | theorems and proofs | their component, `TLAPS` |
| `MC...` | constants for TLC | their component |

The definitions called "Mutant" in the modules are plausible bugs, one for each property
of a passing run: with the mutant in place of the definition it stands before, TLC finds
the property violated. They are used nowhere else.

### 2.1 PlayerQueue

One action per accepted command of `apply_player_action` and its helpers; a command that
returns an error changes nothing and is no action. The variables are the fields of
`PlayerState`. `queue_cursor` is 1-based with 0 for `None`. `Advance` is
`next(natural_end)`, `Select` is `select_queue_index`. `sort_by_key` of the shuffle
orders entries by a salted hash of the track id: `ShuffleOrders` is every order such a
sort can give (equal tracks stay adjacent, in their old order).

Two variables are observations that no action reads. `rank` remembers which entry of the
saved order each entry of the play queue is, so that `SavedOrderMatchesQueue` can say
*the same entries*, and not just the same tracks. `drifted` is true from a `queue_move` (which
leaves the cursor where it is), or a shuffle that no longer contains the current track,
until the next selection; the code relies on cursor and track agreeing only outside of it.

### 2.2 HostPlayback

`Ask` (any player command of any client) is interleaved with the page: `Sync` is
`AudioEngine.sync`, `TrackEnds` and `MediaFails` are the events of the element and the
command their callbacks append to the chain of tasks, `RunTask` is the head of the chain reaching the
authority. The host sends these commands without a revision, so they are accepted
whatever happened since. `Leave` is the moment from which nobody sends commands: the
liveness properties are about the unattended radio.

The element is "playing", "paused" (or ended), or "failed": a failed source stays failed
until another track is loaded, because the engine assigns `src` only when the track changes.

### 2.3 CommandAuthority and CommandLog

The content of the state is the list `changes` of the commands applied to it, so that
"applied to the content the client saw" can be stated. `memory` and `disk` are the state
in the process and the blob in SQLite. `Execute` is the whole of `execute` for an
accepted request: apply, bump, push onto the cache, drain it, persist, answer (heard or
lost). `Replay` and `Refuse` are its early returns. `UpdateCatalog` is every other path
that bumps the revision and persists. The handler holds one mutex, so a call is one
step, with one exception: `CrashInEdit` dies between the commit of the catalog row and the save.
`sent` never forgets a request: each may be delivered any number of times, late, before
and after restarts. `faulty`, chosen at the start, says whether SQLite may refuse a save;
the properties that need a storage that saves say so. Bound: with a faulty storage there
are fewer commands and revisions (`FaultyCommand`, `FaultyRevision`).

`CommandLog` is what a client may rely on: a list to which no command is appended while it
is among the last `Window` of it, and acknowledgements only for commands in that window.
`ImplementsCommandLog` maps the list to the *saved* changes, the window to the size of the cache
and the acknowledgements to the answers clients heard. The window is what the promise is worth: the code
drains its cache to 256 ids, and a command that arrives again after as many others, without an
expected revision, takes effect again. `AtMostOnce` says so as well: two occurrences of an id in the changes are
more than `MaxCache` apart.

### 2.4 BroadcastGrants

Each handler of the daemon is in `job`, at the critical section it takes next:
start and stop take broadcast, grants and uploads one after the other; verify reads the
session, checks the proof, inserts the grant; a request reads the session, checks the
grant (dropping expired ones and moving the sequence number), and runs. `issued`,
`revoked`, `granted` and `performed` are observations. A grant id is a fresh secret, so a
request names one that was handed out; the proof is accept or refuse. An operation that was
authorized before a stop may run after the stop has returned (`Perform` after `RevokeUploads`); what it does to
the player or the batches is the other modules'.

### 2.5 UploadTransfer

The operations of `UploadManager` under its mutex, plus the catalog step of
`remote_upload` under the core's, as a step of its own: other operations, a revocation or
a crash come between them. A file is a sequence of chunks, each "good", "bad" or "torn"
(the bytes a failed `write_all` left behind). Equal songs share a destination, as
the code names a file by its digest. `faults`, chosen at the start, says which of the disk
and the catalog step may fail. `Scan` finds the whole library with the configured roots, and any part
of it with the roots of a request (`zuradio scan FOLDER`), which take their place: every row it
does not find is unavailable, and not listed. `missed`, an observation, holds the songs the last
scan left out, until they are catalogued again. Bounds: with faults, or while a song is missed,
one transfer is open at a time, which is enough for another one to meet what it left; with a disk that
fails or two open transfers no scan leaves a song out; `MaxFlaw` bounds the wrong chunks and torn
writes in the staged files of a transfer. A refused request changes nothing and is no
action. What it takes to be published is told by counting: `Whole` content has as many good chunks as
the song is long and no bad one; files of the same song have the same length (`UploadAssumption`). `left`, the directories that a failing disk has left behind, is an observation.

### 2.6 SnapshotFeed

A snapshot is its revision. The daemon is called by three callers, one call at a time
each: the page's chain of tasks, the bridge's queue of controller messages, and anybody
else. `Change` is the critical section of the core; `ReadToPublish` is the second lock
that `publish_snapshot` takes, `Publish` the send, which takes none, `Fetch` and `Accept`
the page's own read and its revision filter (`>=`, where an event is filtered with `>`),
`Show` the publication after `audio.sync`. `Greet` and `Subscribe` are the two halves of
the socket's start; a socket that falls `Capacity` behind ends and is never opened again.

Three things move the page's revision without a publication: a scan, an upload whose
compact answer is stripped of its snapshot (as the companion's client asks for), and a
seek refused with a conflict (`Conflict`). A controller keeps two revisions: the one it names in its next
command, which an acknowledgement moves first, and the one it shows. The chunks of one
snapshot are one message, because the bridge sends them without a pause on an ordered channel.
Requests do not time out here; `RemoteHandshake` has that.
`since`, the revision when the socket subscribed, is an observation.

`FeedInOrder` is the safety side: what a controller shows, the revision it names, the messages on
their way to it and the page's revision are in this order, so nobody is taken back. The page compares what it
takes with what it has; a controller that takes over an acknowledgement's revision does not, and relies
on the order of the rest.

### 2.7 RemoteHandshake

One companion, which makes connections one after the other, each on a transport of its
own; the bridge, which handles one message at a time and waits for the daemon in the
middle of a hello or a request (`Handle`, then `Verify` or `Execute` at the daemon, then
`Welcome`, `Acknowledge` or `Refuse`); and the daemon, whose handlers are single steps here
(`BroadcastGrants` has their critical sections). A stop of the bridge clears its tables, waits for the
message it is handling, and closes (`BeginStop`, `EndStop`). `NewSession` is this
window's start or another's, and takes the place of a stop at the daemon, too.

`wire` and `back` are the two directions of each transport, in order; what is on its way
is lost when the host closes it, and a goodbye may be lost when the companion leaves. `frames` is
the second channel from an uploader to the bridge: chunks take their numbers from the same count as the
other requests, but reach the bridge on a connection of their own, which may close by itself. An upload awaits every
request but its chunks, and chunks only follow an answered request (`chunking`). `sendRequest`
moves the number after it sent the message; `sendUploadChunk` moves it first, and leaves it moved when the channel
is closed (`SendChunk`). The observation `slipped` says that this happened, or that a chunk was lost or timed out.

A controller is ready when it has the library ("loading" before), an uploader with the answer to its hello,
a listener when the audio plays ("audio" before); the listener has forgotten its proof by then, and a second
ready in that time ends the connection.

`executed` and `confirmed` are observations. Expiry of a grant, the framing of long chat
messages and what a chunk holds are left out. Every connection opens the private route anew and has a
transport of its own here; the model does not ask what would happen if an identifier came again. `MaxGrant` bounds
the grants the daemon makes; the run has as many as its hellos can ask for, so the bound is never met there.
`MaxAction` bounds the actions of a controller, and `MayAsk` lets an uploader ask less after a second hello and on
a second connection.

### 2.8 Library

A file is its version, which stands for its bytes, its size and its modification time
together (the code compares the last two), and may be gone; a track is its path, of which
its id is the hash. `rows` is the tracks table. `Scan` is `scan_music`, `replace_scan` and
the reading of the candidates, under one hold of the core's lock; the candidates then wait in
`calls` for `queue_recognitions` (`Queue`), or for nothing when the client has gone and the
server drops the request at its next await (`DropRequest`: the blocking part runs to its end).
`CatalogFile` is the same for an upload. `Edit` is the correction of a title, which stands for
all seven fields. What a scan reads from a file, tags or path, is data: `Title` says
which of the three sources is shown.

Of the queue, `unsent` are the sender tasks that wait for a place in the channel, `held` the
job for which `run_recognition_queue` waits for a permit, and `workers` the jobs that have
one, in three steps: the helper listens to the file (`Listen`), the core stores the answer (`Store`),
the id is released (`Release`). `Attempt` classifies what a run of the helper may give, `Recognitions`
adds the fallback to the Flatpak helper. A text that the core refuses is `bounded = FALSE`.

Three variables are observations: `edits`, the last correction of each title; `stale`, the
tracks that got another version while a job held an answer on the old one; `excuse`, why a
track that waits may have nobody who attends to it.

### 2.9 BroadcastOwnership

Each window is one thread whose steps end at its awaits: `page`, `auto` (the address of the
page), `session` (`broadcastSession`, which it shows), `bridge` (the session its bridge serves,
and whether it is connected), the task that runs, the tasks behind it, the retry timer, and
the ownership poll, which runs beside the tasks. `authority` is the session of the daemon. A
task is one of five: the automatic start, the recovery of a failed transport, and the three
buttons. Its steps are those of `activateBroadcast`: stop the bridge, forget the session,
request a new one, connect, and, when that failed, ask whether the session is still
one's own (`Check`) and stop it (`Revoke`), two calls with other windows in between.

One step reads the daemon's answer and receives it. Delays and counts are left out: a timer fires
at any time, a start gives up after any failed attempt (the code tries five times). A bridge that
was stopped while it connects may notice or not (`ConnectFails`, `Connected`): both are
possible in the SDK. A closed window leaves its session at the daemon. The daemon does not restart here,
and a request to start does not fail. `Session` needs only as many members as anybody
remembers at a time: two for each window (what it or its task has, and what its poll asks about), one
at the daemon, and one more (`OwnershipAssumption`). `TypeOK` says there is always a fresh one.

`excuse` is an observation: an automatic window may rest off the air because another one has
replaced it ("replaced", the message the user sees), because its user's restart gave up
("gave up"), or because the answer to an old poll stopped a bridge it was not about ("cut off").

## 3. Runs

| Run | Question | Bounds |
|---|---|---|
| `MCPlayerQueue` | Do queue, cursor, saved order and current track stay together? | 2 tracks, queue of 3, history of 1 |
| `MCHostPlayback` | Sound only while playing; the unattended radio goes round, stops at the end, reports a failure | 2 tracks, queue of 2, 1 waiting task |
| `MCRepeatOne` (violation) | Does repeat one repeat? | as above |
| `MCCommandAuthority` | At most once, durable, on the content seen, laptop first; implements `CommandLog` | 3 commands, cache of 2, revision 5, crashes; 2 commands, revision 4 when saves may fail |
| `MCBroadcastGrants` | Ended sessions authorize nothing; sequence numbers once and in order | 3 handlers, 2 grants, 2 sessions, 2 numbers |
| `MCUploadTransfer` | Published files whole, staging and batches agree, failures retryable, finished files kept, and catalogued but for scans of other folders | 2 transfers, 2 songs, one of 2 chunks; disk and catalog that may fail; scans of the library and of parts of it |
| `MCTornChunk` (violation) | Is a file published intact after a failed write? | as `MCUploadTransfer`, failing disk |
| `MCSnapshotFeed` | Is nobody taken back to an older state? Does every change reach the page, and every command the controllers? | 1 controller, channel of 1, revision 3 |
| `MCStaleWrite` (violation) | Does a controller whose stale command is refused get a fresh snapshot? | channel of 2, revision 3 |
| `MCRemoteHandshake` | Grants of this session and transport only, both ends in step, what is confirmed was done | 2 connections, 2 hellos each, 3 modes, 1 action of a controller, 3 requests of an uploader, 2 of them chunks, 2 sessions |
| `MCLibrary` | Every waiting track has one job, labels are about the file, corrections stay, jobs end | 2 files, one of which changes, 2 versions, channel of 1, 1 permit |
| `MCBroadcastOwnership` | A window serves what it shows; windows come to rest, on the air or for a reason | 2 windows, 4 events, 6 sessions |

Why these bounds are enough to make the interesting cases happen:

* A queue of three over two tracks always holds a duplicate when it is full, and has an
  entry before, at and after a removed one. The cursor, saved-order and duplicate cases of
  `queue_remove` need no more. Positions 0..2 around a restart threshold of 1 give `previous` both of
  its cases; one track has a known duration, the other none. The history bound of 1
  is reached at once, so its truncation is always exercised.
* Three commands (laptop player, controller, laptop edit) are the three ways a
  command passes the revision check and the role check; the revision bound leaves room for catalog updates,
  which move the revision without a command, and for all three commands after a restart.
  The cache holds two of them, so it is drained, and a command whose id has left it may take effect
  again after both of the others. When saves may fail there are two commands, enough for a change that is saved
  late, together with the next one.
* Three handlers are a stop with two requests or a verify, or two stops with a request:
  the races of the grants table are between two or three. Two sessions are an ended one and
  its successor.
* Two transfers of two songs meet at one destination, one song needs two chunks (a
  first and a last one); crashes and restarts are unbounded; one wrong chunk or torn write at a time in
  each transfer is enough to make a file differ from its digest (the theorems are for any number of them). With a failing disk the same
  transfer id begins again over what it left behind, and another one beside it.
* Revision 3 is two changes, one overtaking the other on any of the ways to the page; with a channel of 1 the
  second finds it full. Controllers do not interact, so one is enough. A
  channel of 2 in `MCStaleWrite` shows that the refusal, and not a full channel, is to blame.
* Two connections are an old one and its successor, two hellos a first one and its
  repetition (a session's second hello is verified while the answer to the first is on its
  way), two sessions an ended one and the next. One action is enough to confuse the numbers of two connections,
  which both start with 1. An uploader's three requests are a begin and two chunks, or a begin, a chunk and an abort
  over the other channel; it has them on its first connection, two after a second hello, and one on its
  second connection.
* In `MCLibrary` two tracks compete for one place in the channel and one permit, so that a sender, the
  receiver and a job all have to wait; two versions are a file before and after its change;
  two requests that are about to queue overlap. One file changes, vanishes and is corrected, the other
  is uploaded. The helper gives an answer, one the core refuses, or is not installed: one
  of each fate that an answer has in the queue; what `Attempt` makes of the other outputs is a status like these.
* Two windows are one and the other that replaces it. Four events are, for instance, two windows
  opened, one connection that fails and one transport that breaks, or a restart and a close: a
  recovery, a retry and a poll then overlap in one window while the other starts.

Symmetry: handlers and grant ids in `MCBroadcastGrants`, transfer ids in `MCUploadTransfer`;
these sets have no order, no constant function distinguishes their members, and those
runs check no liveness. `CHECK_DEADLOCK FALSE` is stated for the `HostPlayback` runs (a
radio that was left and has stopped has nothing more to do) and for `MCRemoteHandshake`: a
companion that left a host that stopped has nothing more to do, either; and for
`MCBroadcastOwnership`, whose windows may all be closed. Every other system can always
take a step.

### Fairness

Four modules have liveness properties. In `HostPlayback`, `WF(Proceed)` says that as long as the page
can apply a snapshot, run a queued command, or its element can end or fail, one of these happens. That
is what the browser's event loop and a playing element do; nothing is assumed about
clients, about which of the steps comes first, or about a track that is paused.

In `SnapshotFeed` each call that was taken up is carried through (a request handler and
an `await` that returns), each message that was sent is handled, the bridge's queue is
worked off, and the socket is opened (`initialize` does so). Nobody has to send a command, scan or
upload anything, and no step has strong fairness.

In `Library` the receiver and each permit's job get on (`WF`; the helper has a deadline of 30
seconds, so it always gives something), and each sender task gets a place in the channel if places
become free again and again (`SF(Send)`: tokio's channel serves its waiting senders in the order in which
they came). Nobody has to scan, upload or restart.

In `BroadcastOwnership` each window's event loop runs its tasks and timers (`WF(TaskStep)`) and
its poll every 750 ms (`WF(PollStep)`). Users, companions and failures are bounded by
`MaxEvents`: that windows come to rest is a claim about what follows the last of these events. A
companion that asks for the beacon of a session that is over, while its bridge still connects, makes that connection fail,
and counts as such an event; two windows that start at the same time, each interrupted by such a question
at every attempt, would otherwise go on for ever.

### What the violations show

Three runs show where the code differs from what its documentation or its own comments
say; PROJECT.json quotes both sides.

* `MCRepeatOne`: the host answers the end of a track with a plain `next`, which does not
  know repeat one; the natural end that would repeat is reported by no client.
* `MCTornChunk`: a chunk written in part is accepted again at the same offset and lands
  behind its torn half, while the running hash, which is all that is compared, sees it once.
* `MCStaleWrite`: a controller command refused with a conflict is answered without a
  snapshot. When the revision it misses came from a scan or an upload, the page has
  taken that revision from the answer and drops the event, so nothing is published: the controller stays
  stale, and is refused, until something else changes.

Limits that are visible in the models and are not runs of their own:

* A `queue_move` in a shuffled queue stores the shuffled, moved order as the one to restore.
* A scan reads a failed track as a candidate while the job of its last attempt has stored
  that failure and not yet released its id: `queue_recognitions` skips the id, and the retry
  of the scan is lost until the next one ("overtaken" in `NoTrackIsForgotten`). `README.md:181`
  of the repository says that a manual scan retries helper and network errors.
* A scan or upload whose client goes away before it ends has no candidates queued; its new
  tracks wait for the next scan, upload or restart ("given up").
* A track whose helper gives a text that `clean_text` bounds in characters and
  `validate_recognition` in bytes (service.rs:685) is refused, and stays pending until a
  restart or scan listens to it again, with the same end ("given up").
* A job that has its answer when a scan finds other bytes stores it as the new bytes' label
  (`stale` in `LabelIsOfTheFile`).
* "Restart secure beacon" in an automatic window cancels the retry timer (host.ts:346) and
  schedules nothing when its own attempts fail: the window shows "Starting..." without a
  button, and stays so until it is opened again ("gave up"). `README.md:34` of the repository says the
  beacon is kept active for as long as the app runs.
* `verifyBroadcastOwnership` stops the bridge (host.ts:172) before it looks whether the session it asked
  about is still the window's (host.ts:173): an old answer can cut off a newer bridge, which is
  shown as discoverable and serves nobody ("cut off").
* `stopBroadcastIfOwned` can stop another window's newer session, between its two calls; that window's
  poll then finds no session and starts again.
* After a failed save the caller gets an error, its retry gets "applied" from the cache,
  and a restart loses the change (`AppliedMeansSaved` needs a storage that saves).
* An id that was drained from the command cache is unknown when it arrives again.
* An upload that was authorized before a stop can open its transfer after `revoke_all`.
* A file can be published and counted as finished without a catalog row when the catalog
  fails (the second part of `UploadsAreKept`, `FinishedIsCatalogued`, needs a catalog that takes the file).
* A scan of other folders (`zuradio scan FOLDER`) hides every uploaded song, acknowledged ones
  included, until the configured folders are scanned or the song is catalogued again (`missed` in
  `UploadsAreKept`).
* A companion whose second hello crosses the answer to its first keeps the first grant,
  which the bridge has replaced (`OneHelloOneGrant`, a part of `GrantsAgree`, says what holds for one hello). A
  listener that gets the second answer while it connects to the audio disconnects (`vdo.ts:1300`).
* A chunk that is not sent, is lost or times out leaves the companion's number ahead of the daemon's: every
  later request of that grant is refused, the abort of the transfer (`vdo.ts:1121`) included, until the companion
  connects again (`slipped` in `InStep`).
* A change between the first read of the event socket and its subscription is seen with
  the next change only, unless the page made it (`PageHears` starts at `since`).

## 4. Proofs

TLAPS checks the theorems below for every value of the constants that satisfies the
`ASSUME`s of the module: any number of tracks, handlers, grants, commands, transfers, files, controllers,
connections, permits, windows and failures, any bound on the queue, the history, the chain of tasks, the
revision, the cache, the channel, the sessions and the sequence numbers. Every invariant and every
action property that a run checks is proved; only liveness is left to TLC. An `Inv` below is inductive
together with the ones before it, and was found by strengthening the property until it was.

### PlayerProofs

* `CursorInvariant`, `CursorIsCurrent` (`CursorMarksCurrent`): inductive together with the types of the
  fields. The lemmas `RemoveAtFacts` and `InsertAtFacts` say what the two list operations do to each index,
  and most commands are an instance of one of them.
* `OrderInvariant`, `SavedOrderIsQueue` (`SavedOrderMatchesQueue`). `queue_remove` takes out of the saved order the
  entry with the same track that has as many equal ones before it. That this is the same entry, and not
  another one of the track, needs `EqualsInOrder`: equal entries are in the same order in queue and saved
  order. The sort of a shuffle keeps it because it is stable. A `queue_move` within a shuffled queue could break
  it, and does not, because it stores the moved order as the saved one.
* `TypeCorrect`: types, and the bounds of queue and history.
* `HostImplementsPlayer`: `HostPlayback` implements `PlayerQueue`; every step of the page is a command or leaves
  the player alone. The player's theorems hold under the host, therefore (`HostCursorIsCurrent`).
* `HostTypeCorrect` (`HostTypeOK`), `HeardIsCurrent` (`HeardIsPlaying`): inductive as they stand.

### BroadcastGrantsProofs

* `TypeCorrect`: `TypeOK` is inductive as it stands; one step per action.
* `NoWayBackInvariant`, `RevocationIsFinal` (`RevokedStaysRevoked`). That a check does not
  authorize an ended session is not inductive: a verify in flight may insert a grant of an
  ended session *after* its stop returned, and a request may hold a session it read before.
  `NoWayBack` says what saves the code: the active session is never one that is revoked or
  being ended, and a handler about to check its grant never holds a session that is gone
  together with a grant *of that session* in the table. The table was cleared after the
  request named its grant, and grants inserted later have other ids, so either the lookup or
  the comparison of the session ids fails.
* `NumberedInvariant`, `OperationsRunOnce`, `SequencesAreInOrder`. `Numbered` ties the
  observations to the table: the requests granted under a live grant are exactly those
  below its `next`, a number above was never granted, and each authorization that is held
  was granted and not yet performed.

### CommandAuthorityProofs

* `WellTypedInvariant`, `TypeCorrect`: types, and that the drain keeps the cache within its
  bound (`DropOldest`, `RememberFacts`).
* `OrderedInvariant`, then `RevisionsProtectContent` (`AppliedToSeenContent`) and
  `LaptopWinsTheRace` (`LocalCommandWins`), for a storage that saves. The strengthening,
  `RevisionsNameContent`, ties a revision number to a content: no request on its way names a
  later revision than the current one, one that names the current revision has seen the
  current content, and every change that named a revision named an earlier one. A restart
  cannot break it, because memory and disk are equal whenever no save has failed.
* `AnswersAreChangesInvariant`, `AnswersAreDurable` (`AppliedMeansSaved`): every id in the cache and every positive
  answer is a change, and the changes are on the disk.
* `CacheIsWindowInvariant`, `CommandsTakeEffectOnce` (`AtMostOnce`), also when saves fail: the cache holds the ids of the last
  changes, as many as it has places for or all, in memory and on the disk. A command that is accepted
  is not among them, so its last occurrence is further away.
* `PlacesInOrderInvariant`, `StorageIsInOrder` (`StorageKeepsOrder`), also when saves fail: what is on the disk is a prefix
  of what is in memory, and each applied edit, also a saved one, has its row: that is what a restart brings back.
* `AuthorityImplementsLog` (`ImplementsCommandLog`). An accepted command whose save succeeds is a `Take`, a replay
  an `Acknowledge` (its id is in the cache, which is the window on the saved changes), and every other step, among
  them crash and restart, a stutter. With a faulty storage the mapping is to the empty log.

`AppliedToSeenContent`, `LocalCommandWins`, `AppliedMeansSaved` and the refinement say `~faulty`, and are false
without it: after a failed save the
memory is ahead of the disk, its revision can be counted up again over other content
after a restart, and a retry is answered from the cache. That a storage stays as it was chosen
(`SteadyStorage`) is a lemma of its own.

### UploadTransferProofs

* `TypeCorrect`: inductive as it stands. `PutFacts`, `WithoutFacts` and `Shrinks` say what the operators on batches
  leave alone; the other proofs rest on them.
* `StagingInvariant`, `StagingIsExact` (`StagingMatchesBatches`): the directories that were left behind are none of open
  transfers, and a daemon that is down has neither transfers nor catalog work.
* `BytesInvariant`, `PublishedFilesAreWhole` (`PublishedIsWhole`), `FailuresAreRetryable` (`FailedFileIsRetryable`).
  `Copied` ties the staged file to the running digest, chunk by chunk: as many good ones, bad ones only if the
  digest has seen bad ones, and the very same content on a disk that does not fail. Torn pieces are where the two differ.
* `ArrivedInvariant`, `FinishedUploadsAreKept` (`UploadsAreKept`): what is finished, or waits for its row, is in the
  library; nothing takes a file out of it. It is listed, too, unless a scan of other folders has left
  it out since.

### SnapshotFeedProofs

* `TypedInvariant`, `FeedIsInOrder` (`FeedInOrder`): inductive with the types of the calls. A page publishes what it shows, so
  whatever a step appends to a controller's messages is not older than the messages before it.
* `NobodyGoesBack`: no step decreases the page's revision, the one a controller shows, or the one it names. For the
  one it names that needs `FeedInOrder`, because it is assigned without a comparison.

### RemoteHandshakeProofs

* `BaseInvariant`, `TypeCorrect`: types, and that whatever is on its way or being handled is of the session the bridge has.
* `ConfirmedRequestsWereExecuted` (`ConfirmedWereExecuted`): an answer "applied" that is on its way, or about to be given,
  is to a request that was executed on this connection. Answers that were lost or come late are covered by the same statement.
* `OwnerInvariant`: a grant has to do with one connection only, at whichever of the places it is named (`Names`,
  `Given`); a new one is named nowhere; connections to come have left no trace.
* `GrantInvariant`, `HelloInvariant`, `BridgeAndCompanionAgree` (`GrantsAgree`). The grants the bridge knows, and *the
  one it is about to know* from the message it handles, are of the session of its transports. That is why `EndStop` has to wait
  for that message: a bridge that is opened has nothing being handled. A single hello is on its way, being handled, or
  answered (`Hello`), and only another hello could replace its grant.
* `OrderInvariant`, `NumbersStayInStep` (`InStep`), as long as every chunk was sent, handled and answered in time. The requests on
  their way, of both channels, are numbered one after the other up to the companion's next number, and the first of them is the one
  the daemon expects, plus one if it is just being asked (`InLine`, `Waits`). Two channels keep no order between
  them; what does is that `uploadBatch` awaits its requests: it sends on one only when it has the answers to all that went over
  the other (`Waits`), and an answered request is no longer on its way (`Counts`). `OrderSlip` is the case that a
  chunk is not sent, lost or given up, from which the invariant asks nothing. Before it is ready a companion's grants
  are unused, also those of hellos repeated.

### LibraryProofs

* `TypedInvariant`, `TypeCorrect`: `Typed` makes explicit what `TypeOK` needs along the way: every id in
  the queue has a row, whatever is before, in or behind the channel, and a job that listens or has heard holds
  what belongs to its step. A candidate has a row because rows are never deleted.
* `CorrectionsAreKept` (`CorrectionsAreShown`), from `TypedInvariant` and one invariant: the
  override of a row is the last correction of its title. Every writer of a row has to leave it alone,
  also the one that builds the row again (`RefreshedFacts`).
* `LabelsAreAboutFiles` (`LabelIsOfTheFile`). A label is not all that can be wrong: the invariant speaks
  about the rows and about the answers that jobs hold, which are about the version of
  their row, or of the file if that has changed since, or are listed in `stale`; and a row
  never is of a later version than its file.
* `NobodyIsForgotten` (`NoTrackIsForgotten`). The jobs of a path are counted at each place on their own (`InTask`, `InChannel`,
  `AtWork`, `AtDoor`); a step moves a job from one place to the next, and the lemmas `PlacesAppend`, `PlacesTail` and `WorkMoves`
  say what each end of the move does to the count. What makes it inductive is `StoredIsSeen`: between the storing of an answer and
  the release of its id a scan may make the track wait again, and queueing it does nothing then; whoever
  releases such a track has been seen by that scan, which will queue it, or was overtaken.

### BroadcastOwnershipProofs

* `ServedSessionIsShown` (`ServedIsShown`). Five facts about each window, which no other window can disturb
  (`OneWindow`): a closed window has nothing; a bridge that is up serves the session that is
  shown; a task that works has stopped the bridge, and shows no session from its request
  on; a start waits behind nothing, in a window without a session; and an old question never is about the session
  of a task that connects, and has stopped the bridge if it is about the session shown and was answered. The
  last one is where a poll and a task meet: the daemon's new session is none that anybody remembers.
* `ReadyInvariant`, `IdleWindowsHaveAReason` (`ReadyOrExcused`). The poll is left out of `Calm`, which makes it stronger than
  the property. It needs three facts about tasks: an automatic window has no "stop" among them (`AutoRuns`), a recovery that was
  announced runs or waits (`Recovers`), and a start that connects serves its own session, unless that is over
  already or a poll has cut it off (`Connects`).
* `TypeCorrect`: that at most two tasks wait, and that there always is a fresh session. `Room` bounds the tasks
  that wait *together with* what may still become one (timer, opening page, shown session, running task), so that
  a step turns one into the other; `OneSession` says which sessions a window can remember: never more than two.

### Only model-checked

Liveness under fairness: `RadioPlaysOn`, `FailureIsReported`, `ChangesAreHeard`, `AcknowledgedIsShown`, `EveryJobEnds`,
`ComesToRest` and `OnAirOrExcused`. A proof would have to reason about `ENABLED`, which the installed proof
system does not do. The safety parts of these arguments are proved (`HeardIsPlaying`, `FeedInOrder`, `NoTrackIsForgotten`,
`ReadyOrExcused`): nothing is lost on the way; that it goes on is for TLC. Neither does any proof use induction over
data; the modules with theorems have no recursion. The three violations are counterexamples and need no proof.

## 5. Abstractions to keep in mind

* Numbers: positions, revisions and sequence numbers are small ranges. The code's counters
  saturate at 2^64 - 1, which no run of the program reaches.
* A command's *content* is opaque in `CommandAuthority`; its effect on the player is
  `PlayerQueue`. The two share the fact that `execute` is one critical section.
* `HostPlayback` has the page's view of one authority without its storage: a command that
  the page sends is accepted.
* In `Library` a file's version stands for size and modification time: a change that keeps both is a
  change that no scan sees, in the code as well. A scan sees all files at one moment; the code walks the
  disk for a while, and a file that changes meanwhile is a file that changed just before or after.
* `BroadcastOwnership` has no grants and no companions but those that ask for a beacon, and
  `RemoteHandshake` has one window: the bridge of one window is the whole bridge there.
* The cryptography of the broadcast proof is accept or refuse. The upload digest is
  perfect: bytes agree or they do not.

## 6. Not modelled

* HTTP filters, media ranges, artwork: stateless.
* Rendering, forms, icons, visualizer: nothing outlives a render.
* Collections (playlists, favorites, chat, volume): each command is a bounds check and an
  assignment under the authority's mutex, which unit tests reach; `CommandAuthority` has them as opaque changes.
* `partitionUploadBatches`: a pure, greedy loop; what it yields is any sequence of transfers.
* Tag reading, path inference and artwork in `catalog.rs`: data.
* The migration of a legacy library (`upload.rs` 408-516): once, before anything else runs.
* A restart of the daemon under open windows, in `BroadcastOwnership`: it takes the session away as a
  stop does.
* CLI, desktop shell, packaging, scripts, vendored SDK, benchmarks: tooling around the program.
* The audio graph, volume ramps and the seek intent of `AudioEngine`: positions are
  reported values in the model.
* Expiry by wall clock is a step that may come at any time in `BroadcastGrants`, and left out elsewhere.

## 7. Plan

Done, in this order: the player, the authority, grants, uploads, host playback, the snapshot
feed, the handshake, the library with its recognition queue, the broadcast windows; and the eight
proof modules, which cover every safety property of the runs.

What is left, in the order of what it would add:

1. Proofs of what no run states yet: that `RemoteHandshake` implements an abstract session in which
   requests are executed in order, and the same grant table as `BroadcastGrants`; that the saved order of
   `PlayerQueue` restores the queue of an unshuffled player.
2. The composition of `BroadcastOwnership` with the daemon's restart, and of `RemoteHandshake` with several windows.
3. `Collections` and `partitionUploadBatches` against reference definitions.
