# VoxTree: formal models, checks and proofs

VoxTree is a hierarchical voice chat: a control plane decides who may speak to
whom and for how long, LiveKit carries the audio, and clients with push-to-talk
sit between a key and a microphone. What must never go wrong is small: nobody
speaks without a current authorization, nobody keeps the channel, no microphone
stays open. What makes it hard is that each of these facts is spread over
several state machines, threads and processes that do not share a lock.

This directory holds TLA+ models of those parts, translated from the source
under `src/`, TLC configurations that check them on small instances, and
theorems that TLAPS proves for instances of any size. `PROJECT.json` lists the
components, the runs, the lines each definition models (`map`), the plausible
mistakes each property catches (`mutants`), the hazards of the code, the
disagreements found between code and documentation (`findings`) and the theorems.

    tlc -workers 2 -config ControlPlane.cfg MCControlPlane    # one run
    tlapm ControlPlaneProofs.tla                              # one proof module

## 1. Inventory

| Component | Source | State | Operations | Module |
|---|---|---|---|---|
| Voice-session state machines | `libs/domain/src/state_machine.cpp` | connection state, membership version, transmission state and context | connect, refresh, restore, membership change, request, accept, reject, end, interrupt | `VoiceSession` |
| Transmission service and store | `libs/application/src/control_plane.cpp`, `in_memory_control_plane.cpp` | sessions, memberships, active transmissions, audit log | start, end, moderate, replace and remove a membership, remove a session, expire | `ControlPlane` |
| Maintenance thread | `apps/control-plane/src/main.cpp` | none of its own | time limit, session sweep, audit retention | `ControlPlane`, `Persistence` |
| LiveKit publication control, tokens | `libs/livekit/src/livekit_token.cpp`, `apps/control-plane/src/livekit_room_service_client.cpp` | rights held by LiveKit, failure counter | grant, revoke; issue | `ControlPlane`, `Routing` |
| HTTP server | `apps/control-plane/src/linux_http_server.cpp` | bounded queue, stop flags, workers | accept, enqueue, refuse, take, process, shut down | `HttpServer`; reading a request in `ServerApi` |
| HTTP API and HTTP client | `libs/network/src/control_plane_http.cpp`, `libs/client/src/control_plane_client.cpp`, `win_http_transport.cpp` | sessions, memberships and transmissions behind the routes; the client's session | every route, every call of the client, what it makes of the answer | `ServerApi` |
| Routing and hierarchy | `libs/domain/src/routing.cpp`, `model.cpp` | none | validate a snapshot, resolve recipients, derive a grant, name the rooms | `Routing` |
| Rate limiter | `in_memory_control_plane.cpp` | request times per player | allow | `RateLimiter` |
| Directory and presence | `libs/application/src/directory.cpp` | versions and contents per group, bounded history | snapshot, delta, profile, roles | `Directory` |
| Persistence | `libs/persistence/src/sqlite_session_repository.cpp` | the database file | open and migrate, replace a context, sessions, record, page and erase audit events | `Persistence` |
| Authorized push-to-talk client | `libs/client/src/authorized_voice_client.cpp` | publication state and generation, held transmission, membership | connect, disconnect, refresh, press, release | `PttClient` |
| Voice client | `libs/client/src/voice_client.cpp` | connection, publication; remote streams, mutes, volumes | press, release, connect, disconnect, callbacks; admission and ducking | `PttClient`, `RemoteAudio`, `VoicePanel` |
| LiveKit transport | `libs/livekit/src/livekit_voice_transport.cpp` | room state, microphone publication; remote publications and playouts | connect, disconnect, microphone; subscribe, play, change the device | `PttClient`, `RemoteAudio` |
| Audio playout | `libs/livekit/src/pipewire_audio_playout.cpp`, `xaudio2_audio_playout.cpp` | sample ring; buffers, gain | push, pop; submit, free, destroy | `SampleQueue`, `AudioPlayout` |
| Push-to-talk bindings and input | `libs/client/src/ptt_input.cpp` | bindings, pressed controls and actions, the active action | bind, suppress, press, release, deliver | `PttInput` |
| Input devices | `libs/client/src/linux_evdev_input.cpp`, `win_raw_input.cpp` | open nodes, reports, reader thread | start, stop, plug, unplug, report | `InputDevices` |
| Client core C interface | `libs/client/src/client_core.cpp` | the handle, three observers, membership, event numbers | create, destroy, connect, membership, callbacks | `ClientCore` |
| Desktop model | `libs/presentation/src/desktop_model.cpp` | view state, versions, sequences | reduce an event | `VoicePanel`, `DirectorySync`, `Desktop` |
| Windows client | `apps/windows-client/src/client_session.cpp`, `main_window.cpp`, `settings_window.cpp` | session, its generation, pending updates, refresh thread | log in and out, mute, settings, poll, close | `Desktop`, `DirectorySync` |
| Start-up, quality gates, load driver, foundation | see `PROJECT.json` | | | not modelled |

How they interact. A client asks the control plane over HTTP to start a
transmission. A worker of `HttpServer` runs `TransmissionApplicationService`,
which authorizes under one lock acquisition and activates under another; inside
the second it grants the right to publish at LiveKit by a remote call. Only then
does the client publish its microphone through the LiveKit transport. Ends come
from the key, the time limit, moderation, a membership change, an expired
session, a lost connection; each of them has its own path and most of them tell
LiveKit after the lock is released. Within the client three objects are stacked,
each with a mutex and a condition variable, and none of the mutexes is held
during a call into the next layer. Callbacks travel the other way: from LiveKit's
thread through transport, voice client and client core to the window, each layer
deciding under its lock and telling the next one after it. Beside that the window
polls the directory and presence of its group by version.

What is hard, and the properties that go with it:

* **control plane**: what was authorized is stale when it is activated
  (`ActiveOnCurrentMembership`); two starts see the same free slot
  (`SpeakerLimitRespected`) or the same silent sender
  (`IsFloor`, which the first two follow from as well); five ways of ending race for
  one transmission (`EndedExactlyOnce`); remote rights and local registry drift
  apart through races, failures and restarts (`RightsAreAccountedFor`,
  `RightsAreWithdrawn`, `SenderMayPublish`); a client disappears
  (`TransmissionsEnd`); requests reach the rate limiter out of time order
  (`RateIsBounded`);
* **HTTP**: wakeups after the unlock (`NoLostWakeup`, `ConnectionsAnswered`), the
  queue at its limit (`EachConnectionOnce`), shutdown with work pending
  (`ShutdownStops`); answers lost after the effect (`AnswersAreTrue`);
* **routing**: the recipients that are listed and the rooms that carry the audio
  are computed apart (`RoomsReachRecipients`);
* **persistence**: exceptions and crashes inside a transaction, times cut to
  milliseconds, cursors over a table that shrinks
  (`RepositoryIsReliable`);
* **state machines**: answers to requests that are over (`HoldsOwnGrant`,
  `ReleaseConfirmedByServer`), a membership that changes under a transmission
  (`InFlightOnCurrentMembership`);
* **push-to-talk**: cancellation while another layer is starting
  (`NoOrphanedTransmission`, `EndpointCalledOnce`,
  `MicrophoneFollowsTransmission`), threads that wait for each other over two
  condition variables (`CallsReturn`), connections that drop in between
  (`DropDiscardsPublication`); bindings that overlap
  (`AcceptedAreDistinguishable`), devices that vanish with a key held and reports that are
  lost (`NoGhostInput`), presses that block the thread of the release or meet another
  active action (`ChangesDelivered`, `ReleasedMeansInactive`);
* **remote audio**: limits, mutes and priorities over streams that come and go
  (`AdmissionByPriority`), decisions told to the transport outside the lock, and a
  transport that fails to carry them out (`PlaybackSettles`, `MutedIsSilent`), a ring without a lock (`RingIsSafe`,
  `IsFifo`), buffers freed by a callback, an error path and a destructor
  (`BuffersFreedOnce`, `DestructionEnds`);
* **desktop**: events out of order (`ShownIsNewest`), deltas on another base
  (`ViewMatchesServer`, `ClientConverges`), continuations that return to another
  session (`SessionsAreOwned`), lists that drop a muted participant
  (`ShownIsInUse`), callbacks into a core that is
  being destroyed (`CoreTellsTheHost`).

## 2. Modules

Operators whose names begin with `Slip` are plausible mistakes in the code; they
are used by no specification, only to show that a property notices them.

### VoiceSession

`ConnectionStateMachine`, `TransmissionStateMachine` and the
`VoiceSessionStateMachine` that drives both. One action per handler; a handler
whose guard fails returns false and changes nothing, so it is a stuttering step.
`conn`, `version`, `scope`, `tx`, `ctx` and `lastStop` are the fields of the
code. The server's decisions (`grant`, `refused`, `ended`) are never withdrawn,
so an answer can be delivered late, repeatedly or not at all.

### ControlPlane and Floor

Threads of the server (`Workers`, `Maintenance`) with a program counter each.
One call into `InMemoryControlPlaneStore` is one step, because the store's mutex
is held throughout; what a request does between two such calls is visible to
everybody else. `activate` and `end` call LiveKit while they hold the lock;
membership changes, session removal and the time limit leave the lock owing
revocations (`revoking`) and audit records (`recording`), which follow as
`NotifyEnded` and `RecordEnded`. A RoomService call may fail with or without
effect. `Restart` clears what lives in memory and keeps the repositories and
LiveKit's rights. The history variable `strayRights` holds the participants whose last
RoomService call failed, or was not made because the process died; a later call about
the same participant that succeeds takes it out again. `Floor` is what the registry promises to the rest of the system:
who may speak, in which room, and that a transmission that is over does not return.
`IsFloor` is the refinement, with `floor` mapped to the active transmissions and
`spent` to all ids that are in the registry, owed to the audit log, recorded there or
lost with a process (`SpentIds`).

| Code | Actions |
|---|---|
| `TransmissionApplicationService::start` | `StartCheck`, `AuthorizeStart`, `Activate`, `ActivateRejected`, `RecordStarted` |
| `...::end`, `interruptForModeration` | `EndCheck`, `End`, `ModerateCheck`, `Interrupt`, `RecordEnded`, `Answer` |
| `PUT` and `DELETE` of a membership | `ReplaceRead`, `UpdateMembership`, `RemoveMembership`, `NotifyEnded` |
| maintenance loop of `main.cpp` | `ExpireTimedOut`, `BeginSweep`, `RemoveSession`, `EraseSession`, `EndRound` |

Abstractions: one voice scope (the scopes are told apart in `Routing`); a
hierarchy node stands for what it addresses, so `<<player, node>>` is a participant of a room; recipients are left out; the
routing decision is "may fail", besides the membership and the mute flag; a
session is a device; the rate limiter only rejects
(its window is `RateLimiter`).

### HttpServer

`runLinuxHttpServer`: the accepting thread, the queue, the workers. The
condition variable is a wait set; a notification is a step after the unlock and
wakes any sleeper; spurious wakeups happen. Requests are opaque
here; what a worker does with one is in `ServerApi`.

### PttClient

`AuthorizedVoiceClient` over `VoiceClient` over `LiveKitVoiceTransport`, with
input threads (press, release), a control thread (connect, refresh, disconnect;
`ClientSession` serialises these with `services_mutex_`) and the callback thread
of the room. A step is one critical section or one call to the server or to
LiveKit. Program counters starting with `p_`, `r_`, `d_`, `f_` are in
`AuthorizedVoiceClient`, with `v_`, `vr_` in `VoiceClient`.

Assumptions about what is outside: leaving a room waits for its callbacks; the
server starts, refuses, loses an answer (with or without effect) or ends a
transmission on its own; an id is the generation that asked for it. `connect` is
one step because it holds the mutex to its end and nothing else can run before
it has succeeded. `disconnect` of the transport is three steps (`TransportUnpublish`,
`TransportStore`, `TransportLeave`): it stores its state before it leaves the room, so
a callback of the room can run in between and store its own.

### ServerApi and Routing

`ServerApi` follows a call from `ControlPlaneClient` through the request framing
of the Linux server and the routes of `control_plane_http.cpp` to the
repositories, and back through the checks the client makes of the answer. A call
that reads first and writes later (`PUT` and `DELETE` of a membership) is two steps, so
other calls come in between; a transport failure may come before or after the server
acted; sessions expire and are swept at any point. Raw callers, which hold the
wrong token or send a malformed body, take part. Answers carry what the client
tells apart: a status, an error code, a body of the right or the wrong shape.

`Routing` has no state. `HierarchyValid`, `SnapshotValid` and `FormsPath` are the
constructors that throw; `RoutingError` and `Recipients` are
`RecipientResolver::resolve`; `GrantError`, `DerivedTransmit`, `DerivedReceive`
are `VoiceGrantAuthorizationService::derive`; `RoomFor`, `Issue`,
`PublicationRoom` name LiveKit rooms. `RoomsReach` is the reference: those who
join a room are exactly the recipients the resolver lists.

### RateLimiter

One history. `TakeRequest` reads the clock as the worker takes the request;
`Allow` and `Refuse` are the locked part, in any order of the workers.

### Persistence

One call at a time uses the connection, so the steps of a call are separated only
by failure or by the end of the process (`KillProcess`). A transaction works on a
copy (`txn`) of the committed file (`disk`). `OpenDatabase`, `ApplyMigration`,
`CommitMigration`, `MigrationFails`, `Opened` are the constructor;
`UpsertIfNewer`, `PersistTable` (one per table, foreign keys checked per
statement), `CommitContext`, `UpsertFails`, `UpsertReturns` the replacement of a
context. Rows are abstracted to the version of the context they belong to. A
behaviour begins with any database an older program can have left. A process that
ends after `COMMIT` and before the call returned leaves what the caller was not told of, which
`AcknowledgedIsKept` allows.

### Directory and DirectorySync

`Directory` is the service: visibility by membership context, contents compared
by fingerprint, versions per group, a bounded list of revisions. `DirectorySync`
adds the client: the refresh thread with the versions it knows, the checks of the
client library, the queue of the window and the versions of the desktop model.
Each HTTP call is a step and the server changes between any two. A player is not
moved back to a group it left (`MovesOn`), see the observations.

### PttInput and InputDevices

`PttInput` is `PushToTalkBindingEngine` and `AuthorizedPushToTalkInput`: changes
are computed under one mutex, carried by the thread that computed them
(`pending`) and delivered under another that is held while the target works
(`inTarget`). A press that arrives while another action is active, and a release of an
action that is not, do not reach the target (`SkipTarget`). `InputDevices` drives it
with the evdev or the raw-input source (`platform`): nodes that are plugged and
unplugged, reports, messages queued by the system, calls of the sink one by one
(`todo`). An input may be lost although its device is known: the kernel drops it
(`SYN_DROPPED`, which evdev's reader skips), or `processRawInput`, `processHid` and
`processHidReport` return early. `lostReleases` remembers the releases lost that way
until a later input tells of the same control.

### RemoteAudio, SampleQueue, SampleFifo, AudioPlayout

`RemoteAudio` joins the room and its callback thread, the transport
(`publications`, `tracks`) and `VoiceClient` (`streams`, `silenced`, `volumes`).
`Decided` is `recomputePlaybackLocked`; what it changed is told to the transport
stream by stream (`Apply`, `Subscribe`) after the unlock. The transport may have no
playout backend (`backend`), `createPlayout` and `setSubscribed` may throw: the error
is reported and nothing tries again, which `failed` remembers of the track.

`SampleQueue` copies sample by sample and publishes positions afterwards;
`SampleFifo` is what it promises, a bounded queue; `IsFifo` is the refinement,
with `waiting` mapped to the samples that are published and not released and
`taken` to what the last pop copied. `AudioPlayout` is one playout of either
backend from construction to destruction; in XAudio2's reader a buffer is registered
under one lock (`RegisterBuffer`) and submitted under another (`SubmitBuffer`), and
whatever throws in a reader ends it (`ReaderFails`).

### VoicePanel, Desktop, ClientCore

`VoicePanel`: events are numbered under the lock of `VoiceClient`, fly in any
order and are reduced by `DesktopModel`, which keeps a sequence per participant
and facet. `Desktop`: the commands of the window as continuations that leave the
user-interface thread (`work`) and come back through its queue (`ui`), to a
window whose `session_generation_` may have moved on. One participant is followed
through the list: directories and memberships drop it and name it again, a voice event
adds a placeholder (`ListChanges`), and `forgotten` remembers that a mute was dropped
with it. `ClientCore`: the handle behind the C interface; a callback reads the
wrapper's, the table's and the client's observer each at its own moment, and
`connect` leaves the client connecting until the transport returns (`ConnectReturns`).
That the host's transport waits for its callbacks before it takes a new observer is the
contract of `VoiceTransport`; a host whose `set_observer(NULL)` fails
(`client_core.cpp:167`), which the destructor can only ignore, is left out.

## 3. Runs

`MCComponents`, `MCClient` and `MCProgress` hold components that share no state: a variable
`part` chooses the one that runs, all others stay as they are, so the instance is
the union of the components' own state spaces. The first two collect those whose
properties are about safety, the third those with liveness properties, each under its
own fairness.

| Run | Instance | States | Shows |
|---|---|---|---|
| `control_plane` | 2 players, one with 2 devices; 2 workers and maintenance; 2 slots; 2 ids; 2 versions | 1.2 million | each transmission ends once and the registry implements `Floor` (so a sender has one), under all interleavings of two requests |
| `control_plane_speakers` | 2 players, 2 nodes, 1 slot; 2 workers; 2 ids; 2 versions | 1.4 million | no start uses a stale membership, the slot is not given twice |
| `control_plane_faults` | 1 player, 1 worker and maintenance; time 0..2; 1 failing RoomService call; 1 restart | 142 thousand | every transmission ends; unused rights are withdrawn; the rights left behind are exactly those whose revocation failed or died with the process |
| `ptt_client` | 2 input threads, 1 control thread, 2 presses, 1 drop, 1 lost answer, forced ends | 1.8 million | no transmission is forgotten, none is ended twice, no microphone stays open |
| `ptt_live` | 2 input threads, 1 control thread, 1 press, 1 drop | 129 thousand | every call returns |
| `components` | seven components, see below | 1.0 million | safety of each, and the ring refines the queue |
| `client` | remote audio and desktop, see below | 1.1 million | the limits hold, and at rest the loudspeaker plays what was decided; no session is lost, and the policy shown is the one in use |
| `progress` | five components, see below | 271 thousand | liveness of each, and the database survives |
| `late_revoke`, `ptt_hot_microphone`, `input_stuck`, `remote_muted` | smallest that shows it | violation | see findings |

| Component (run) | Bounds | Why they are enough |
|---|---|---|
| session (components) | 2 versions, 3 requests, 2 scopes | an answer to the first request arrives while the third is open |
| remote audio (client) | 2 speakers in scopes of different priority, 1 stream in total and per scope, 2 publications, 1 setting or resumed room | the limit is reached, the stronger stream displaces the other, a stream is replaced, each way of failing meets each order; two settings (9.8 million states) hold as well |
| queue (components) | capacity 2, batches up to 3, 4 samples | a batch does not fit, positions wrap twice |
| panel (components) | 1 participant, 2 scopes, 3 events, 2 in flight | an event overtakes the one before it, across a reconnect |
| desktop (client) | 3 logins and logouts, 2 events or commands | a login, a logout and a second login overlap with a report; a mute meets a directory that drops its participant |
| core (components) | 2 callback threads, 2 calls, 2 callbacks | a callback meets another and the destruction |
| rate (components) | limit 2, window 2, 2 workers, 5 passed, time 0..5 | the window fills, expires and fills again with reordered times |
| API (components) | 2 calls, 3 sessions (1 expires), 2 versions, 2 players and a raw caller | a read-modify-write meets another call; a session is lost under a call |
| directory (components) | 2 clients, 3 members of whom 2 fit, 2 groups, 1 revision, 2 changes, 2 foreign polls | the history is too short for a delta; another client advances the version |
| HTTP (progress) | 2 workers, queue of 2, 5 connections | both workers are busy, the queue is full and a connection is refused |
| directory (progress) | as above with a failing call, without foreign polls | the client converges through an error |
| input (progress) | 2 nodes, 3 controls, 2 messages, 2 threads, either platform | a device with a held control vanishes while bindings are replaced; a release is lost; accepted lists have chords of one and of two buttons for different actions |
| playout (progress) | 2 buffers, 4 frames, 2 gains, either backend | the queue of buffers is full; a buffer ends during destruction |
| database (progress) | 2 starts, 1 session, 2 versions, 2 events, page of 1, 2 ticks a millisecond, time 0..3 | every older schema; a crash, a restart and a second replacement; a cutoff inside a millisecond |

Control plane and push-to-talk. Two workers are enough for every race of two
requests, and the maintenance thread is a third actor; two ids let a second
transmission begin while the first is being cleaned up; three players or sessions
add no new comparison, as the code compares one transmission with the set of the
others. Two versions are the one that was authorized and the one that replaced
it. The two runs differ in the limit because a limit of one would hide a sender's
second transmission, and only a limit of one is reached with two players. In
`control_plane` and `control_plane_speakers` time stands still, since expiry adds
only a further way of ending, which `control_plane_faults` explores together with
sessions that expire during a request. Two presses let the cleanup of one
generation meet the next.

Fairness. Threads that can run do run (weak fairness of the steps of workers,
acceptor, maintenance, refresh thread, input threads, reader, platform and
owner): the operating system schedules them, and each remote call in the code has
a time limit. Time passes. A directory poll that is tried again and again succeeds
in the end (strong fairness of `FetchDirectory`), as errors are bounded. Nobody
has to send a request, press a key, lose a connection or reconnect.

Deadlock is checked in the runs of the control plane and of the push-to-talk
client. In `components`, `client` and `progress` it is not: a server that was shut down, a playout that
was destroyed, a window that was closed really stop, and the counted inputs of
the others come to an end.

### Findings

1. `late_revoke`: `updateMembership` revokes the right to publish after it has
   released the lock. If the same player starts again in between, the grant of
   the new transmission comes first and the old revocation second: the server has
   an active transmission whose sender may not publish, although the observer's
   contract says the permission must match the active lifecycle.
2. `ptt_hot_microphone`: the room drops its connection when the publication is
   not yet confirmed; it is confirmed, `VoiceClient` takes the press as active,
   and then forgets it without stopping the transport. After the reconnect the
   microphone is published and the client idle.
3. `input_stuck`: `setBindings` runs on a background thread of the settings
   window. It releases a pressed action while the input thread still carries the
   press: the release is delivered first and ignored, the press second. The
   action is active although all actions are released.
4. `remote_muted`: after a reconnect in which the room keeps its tracks, the
   transport still plays a publication whose stream `VoiceClient` has forgotten.
   Muting its sender then tells the transport nothing.

Further disagreements with a document, which the models contain and the properties
except by name:

* **A transmission that cannot be ended.** When the server has ended the transmission on
  its own (time limit, membership, moderation), the end endpoint answers 404, which the
  client takes as a failure and keeps the transmission (`authorized_voice_client.cpp:462`).
  From then on press, refresh and disconnect of this `AuthorizedVoiceClient` fail, although
  `endInterruptedTransmission` is documented to clean up on the server
  (`voice-client.md:123`) and the transmission to be ended before the client is idle
  (`state-machines.md:75`). `ClientSession::disconnect` destroys the object anyway, so the
  state lasts as long as the object. `CallsReturn` holds: the calls come back, with an error.
* **A new action does not replace the active one.** The header of
  `AuthorizedPushToTalkInput` says: "When a new action is pressed while another is
  active, the old action is released before the new one starts" (`ptt_input.hpp:351`).
  The code answers the new press with `ptt_input_already_active`
  (`ptt_input.cpp:351`) and leaves the old action active. `ChangesDelivered` therefore
  counts such a press as refused and does not say that it ever starts.
* **Bindings that conflict can be accepted.** Chords are compared position by position
  after sorting, with a wildcard for the device (`ptt_input.cpp:39`). [button 1 of any
  device, button 1 of device 1] and [button 1 of device 1, button 1 of device 2] are
  accepted for different actions, and the same two buttons press both; the error is
  documented as "Different actions use a chord that cannot be distinguished safely"
  (`ptt_input.hpp:157`). `AcceptedAreDistinguishable` is the part that holds: there is
  no such list among chords that do not name one button of several devices.
* **Decisions told in the wrong order.** `applyPlaybackChanges` tells the transport
  after the unlock (`voice_client.cpp:568`). If the callback thread decides to admit a
  stream, the application mutes its sender and tells the transport, and the callback
  thread tells its older decision last, the muted sender is heard until the next
  change, against `spec.md:293`. `PlaybackSettles` excepts behaviours in which two
  threads told at once (`raced`), and besides them tracks that outlived a reconnect
  (`kept`, finding 4) and tracks of which an error was reported (`failed`), against
  which no document speaks.
* **A mute that the window forgets.** A directory drops the participants it does not
  list and a change of group drops all of them (`desktop_model.cpp:267`, `:564`); one that
  is named again starts with `muted = false`, while `VoiceClient` keeps mutes for the
  whole session (`voice_client.cpp:582`). A
  muted participant that one directory leaves out and a later one names again is shown
  as audible and stays muted, although the field is documented as "Whether local playout
  is muted" (`desktop_model.hpp:144`). `ShownIsInUse` says that this is the only way the
  two differ at rest without an error (`forgotten`).
* **A mute that is never sent.** A batch of participant updates that comes back to a
  window with a newer session does not start the timer for what was queued in between
  (`main_window.cpp:1517`), and the timer was not started while the batch was running. The
  mute asked for is sent with the next change of a control, or never. `ShownIsInUse`
  excepts it by name (`stranded`).
* **Audit sequences can be reused.** Migration 4 copies the audit events to a new table
  and drops the old one, with its row of `sqlite_sequence`
  (`sqlite_session_repository.cpp:500`). If retention had erased the newest events,
  numbering goes back, although `control-plane.md:83` calls the sequence never reused,
  and a reader with a cursor misses the new events. `RepositoryIsReliable` excepts
  those databases (`renumbered`) and holds of every other.
* **Rights left behind.** `onEnded` ignores that the call which withdraws the right
  failed, and nothing is withdrawn at start-up (`livekit_token.cpp:320`): the participant
  may publish although no transmission of its is active, until a later one in the same
  room ends. The decisions say the right is withdrawn at every terminal event
  (`architecture-decisions.md:228`). `RightsAreAccountedFor` and `RightsAreWithdrawn` say
  that a failure or a restart leaves no other right behind than those whose call it hit
  (`strayRights`).

Observed while modelling, without a run of their own:

* A grant that LiveKit carries out and whose answer is lost is not revoked either
  (`in_memory_control_plane.cpp:304`); `strayRights` holds it too.
* Between `removeSession` and `erase` in the sweep (`main.cpp:648`) a start that
  read the clock before the expiry can still activate. The transmission outlives
  its session until the time limit, which `TransmissionsEnd` covers.
* After a membership is removed, `upsertIfNewer` accepts any version, so a `PUT`
  that read the membership before the removal can bring a version back that an
  authorization in flight has seen; `activate` compares versions only
  (`in_memory_control_plane.cpp:233`) and takes the recipients of the earlier
  membership. `ActiveOnCurrentMembership` speaks of the version and the room,
  for which it holds.
* A release that decided to cancel one start and is then delayed
  (`authorized_voice_client.cpp:405`) stops the microphone of the next
  generation, while the client says it transmits: the converse of
  `MicrophoneFollowsTransmission` does not hold.
* A refresh or a disconnect that fails leaves `push_to_talk_enabled_` false.
* `disconnect` of the transport stores `disconnected` and then leaves the room. A
  callback that had passed its guard before can store `connected` or `reconnecting`
  over it (`livekit_voice_transport.cpp:1017`); the transport then refuses every later
  connect as already active, while `VoiceClient` is disconnected.
* Directory and presence versions are counted per group but compared without
  naming the group. A player moved to another group and back between two polls
  can get a delta on the wrong base. `MovesOn` rules it out in the model.
* A release that never reaches an input source, because the kernel dropped it or its
  report could not be read, leaves its control held until the next input about it or
  the end of the device (`linux_evdev_input.cpp:399`, `win_raw_input.cpp:397`);
  `NoGhostInput` excepts exactly these (`lostReleases`).

## 4. Proofs

TLAPS proves the following for every value of the constants that satisfies the
`ASSUME`s of the modules (which TLC evaluates in every run). The assumptions say
no more than the code does: bounds are natural numbers, sets that the code keeps in
containers are finite, a control has the fields and kinds of `InputControl`, a
voice scope is none of the marks the code uses for "no scope". There are eight
proof modules; each theorem named with a property in parentheses states that
property of the runs.

**ControlPlaneProofs.** `ControlPlaneTypeCorrect` needs, besides `TypeOK`, what
a thread carries at each point (`ThreadOK`): a thread between authorization and
activation holds a well-formed transmission whose id was generated.
`OnePerSender` (`OneTransmissionPerSender`, which is proved only),
`ActiveIsCurrent` (`ActiveOnCurrentMembership`) and
`SpeakerLimitHolds` (`SpeakerLimitRespected`) rest on one lemma,
`RegistrySteps`: every step of the whole system shrinks the registry and leaves
memberships alone, or takes all transmissions of one player out together with a
change of that player's membership, or adds one transmission that passed
`CanActivate`. Restarts, failures, moderation, expiry and sweeps are all of the
first kind. The speaker limit needs the other two invariants: `activate` counts
speakers by their memberships, and this equals the count by room only because
active transmissions are on current memberships.

`EachEndsOnce` (`EndedExactlyOnce`) follows every id through a ledger. Beside the
statement itself `LedgerInv` says that the places of the ledger exclude each
other (`LedgerDisjoint`), that an id which was not generated is in none of them
(`FreshIds`), that a thread owes nothing outside the points where the code still
has to record an end (`NothingOwed`), and that whatever was announced, or is
about to be, is in one of them (`StartedInLedger`). Without `FreshIds` a new
transmission could take the id of one that is still being recorded.
`RightsAccounted` (`RightsAreAccountedFor`) then needs nothing more: a locked
section that takes transmissions out revokes before it unlocks or leaves the
revocations in the thread's hands, and what a failure or a restart leaves behind is in
`strayRights` until a call about it succeeds.

`ControlPlaneIsFloor` (`IsFloor`) is the refinement: under the mapping that takes
the registry for the floor and all ids in the ledger for the spent ones, every step
of every thread is a step of `Floor` or none. It needs no further invariant. The two
ways in which the other proofs sort the steps, by what they do to the registry
(`RegistrySteps`) and to the ledger (`LedgerSteps`), fit together: the step that adds
a transmission is the one that spends its id, which `FreshIds` says is new.

**ServerProofs.** Four components of the server.

* `BurstsAreLimited` (`RateIsBounded`), for every limit, window and number of
  workers. The invariant relates the limiter's history to the log of all passed
  requests: it is the tail of the log (`HistoryIsTail`), and what fell out of it
  had expired by the latest time any passed request carried (`DepartedExpired`).
* `RepositoryTypeCorrect` and `RepositoryAlwaysReliable` (`RepositoryIsReliable`),
  for every page, resolution of the clock and bound of starts, versions, sessions
  and events. `TransactionOK` says how far an open transaction is from the file,
  table by table, which is what a crash or a failing statement throws away;
  `ReaderOK` that a reader is never ahead of the last sequence. The assumption
  `MaxDbVersion \in Nat \ {0}` says that versions start at one, as in the code.
* `AnswersAlwaysTrue` (`AnswersAreTrue`) and `RoomsAlwaysReach`
  (`RoomsReachRecipients`), for any number of calls and sessions. `Phases` says
  of each call what is known at each phase, in particular that an answer under way
  is true (`Truthful`) and meets what the library demands of it, and that the
  snapshot of a PUT between its two steps is valid. That the server never answers
  with version zero or without a grant, which the library would reject, rests on
  `RecordsOK` and on the checks of the handlers. The routing part is a lemma about
  operators, `ValidSnapshotReaches`: in every hierarchy, under every role policy,
  a snapshot of whole paths sends the audio exactly to the recipients. Its core is
  `NodesNamePaths`: two paths of one hierarchy that share a node share all above it.
* `ServerTypeCorrect`, `ServerNoLostWakeup`, `ServerStoppedIsDrained` and
  `ServerEachConnectionOnce`, for any number of workers, any capacity and any
  number of connections. `HandsAgree` says what the accepting thread and the
  workers hold at each point, `ShutdownAgrees` how the phases of the shutdown
  relate to the stop flag and the workers, `NoneForgotten` that each accepted
  connection is somewhere, and `NoneTwice` that it is in one place only: the
  places are disjoint and hold only what was accepted, so that the next
  connection is new to all of them. The theorem counts places; the count is
  derived from these facts at the end.

**PttClientProofs.** `ClientTypeCorrect`, `ClientForgetsNoTransmission`
(`NoOrphanedTransmission`), `ClientEndsOnce` (`EndpointCalledOnce`) and
`MicrophoneIsAuthorized` (`MicrophoneFollowsTransmission`), for any number of input
threads, presses, drops and lost answers. `ClientInv` has a part for each thing
two threads could disagree about: one thread owns the publication while it starts
or stops, in its own generation (`OwnerOK`), and likewise the voice client's
(`VoiceOwnerOK`); the voice client starts once in a generation (`StartOK`) and
publishes only for the publication above it (`CoveredOK`); the owner works for
the transmission the client holds, and no id is ahead of the generation
(`LedgerOK`); a control thread that cleans up has disabled presses first, so what
it found idle stays idle (`ControlOK`). `SerialControlAssumption` is that there
is one control thread: `ClientSession` calls connect, refresh and disconnect with
`services_mutex_` held. Two of them would each clean up after the same
interrupted transmission.

**ClientProofs.** Four parts of the client library.

* `PlayoutTypeCorrect` and `PlayoutFreesBuffersOnce` (`BuffersFreedOnce`), for any
  number of frames and both backends. A frame that was not read is in no buffer
  (`FreshFrames`), a buffer XAudio2 holds is registered and held once
  (`HeldOnce`), and after the voice is destroyed nobody holds any
  (`AfterDestruction`).
* `CoreTypeCorrect` and `CoreAlwaysTellsTheHost` (`CoreTellsTheHost`), for any set of
  callback threads and host versions. `CalledBack` says that the transport
  calls back only while it has an observer, and has none once the core is gone;
  `ToldLast` what holds between the change
  of a membership and the event that tells it, where the property itself is silent.
* `RingAlwaysSafe` and `RingIsFifo`, for every capacity, batch and set of
  samples. The invariant (`QueueInv`) relates three things: how far each thread
  has got to the two positions (`Positions`: what is being written stays within
  one capacity of what may be read), the slots to the samples accepted
  (`Contents`), and the types. Its arithmetic rests on `SlotsDiffer`: two
  positions less than a capacity apart are in different slots. The refinement
  then needs no further invariant: storing the write position is the abstract
  push of the batch, storing the read position the abstract pop, and every other
  step a stutter.
* Voice session: `SessionTypeCorrect`, `SessionInFlight`,
  `SessionHoldsOwnGrant`, `SessionOnlyNewest`, `SessionReleaseConfirmed`,
  `SessionVersionMonotone`: for any number of requests and versions.
  `OnlyNewestRequestGoesLive` and `VersionNeverGoesBack` are action properties
  that are proved only. The inductive invariant `IndInv` adds two facts to the
  invariants: the request in flight is the last one issued (`NewestInFlight`),
  without which a late acceptance could not be told from the right one, and a
  version is known exactly while subscriptions are being restored or the
  connection is ready (`VersionKnown`), without which a reconnect could find the
  version of the previous connection.

**DesktopProofs.** `DesktopTypeCorrect`, `SessionsAlwaysOwned` (`SessionsAreOwned`)
and `ShownAlwaysInUse` (`ShownIsInUse`), for any number of logins and commands.
`WindowInv` says of the background work and of the queue of results what they
refer to: whoever holds a session holds it alone, be it the login that opens it,
the answer of that login, the window or the thread that ends it (`HandOK`), and an
open window that signs out has one logout under way and no session (`PhaseOK`). `ShownInv` adds, for the
participants' mute, where the requested value is, in the timer's batch, the
running task, its answer or the session (`BatchOK`, `UnsentOK`, `MuteShown`), that a
participant shown as muted is listed and muted, and one that is muted is shown so
unless a list forgot it (`MuteTold`, `UnlistedOK`), and
for the audio settings that the answers under way agree with the session unless
their dialog is gone (`AudioShown`).

`PanelTypeCorrect` and `PanelShowsNewest` (`ShownIsNewest`), for any number of
participants, events and events in flight. The property speaks of what was heard
last; the code keeps numbers. `PanelInv` says that each number kept per participant,
facet and scope, and that of the connection, is the number of the newest event heard
(`NewestOf`), that no two events have one number (`NumberedOnce`), and that what is
shown of a listed participant is what the newest event said, a participant who was
not listed at the time (`missed`) excepted.

**InputProofs.** Devices and bindings.

* `DevicesTypeCorrect` and `NoGhostIsHeld` (`NoGhostInput`), for any nodes, controls,
  reports and restarts, on both platforms. The property is about a source that has
  worked off its queue. `DeviceInv` says what holds before: whatever a waiting message
  says is still so or a later one ends it (`MessagesTrue`), an open node that is gone
  has its removal waiting (`RemovalComes`), the reports kept are true in the same
  sense (`ReportsTrue`), and each control the engine holds has a node it is down on,
  a message that will end it, a release that was lost on its way, or a call of the sink
  that releases it (`HeldForAReason`).
* `AcceptedAlwaysDistinguishable` (`AcceptedAreDistinguishable`), for any lists and
  chords of any length. The invariant is only that the list in force was accepted.
  The rest is about the operators of `validateBindings`. On chords that name no button
  twice the comparison of controls is a strict total order of buttons (`ButtonOrder`,
  `ControlOrder`), so each control has a place and the sorted chord exists
  (`PlaceGrows`, `OrderExists`). As many held controls as the chord has are each one
  it asks for (`AllHeldAreAsked`, by counting), so two chords that the same controls
  satisfy overlap control by control, and being sorted they overlap place by place
  (`SortedOverlap`, by the least place where they do not): what `chordsOverlap`
  rejects.

**DirectoryProofs.** `ViewAlwaysMatches` (`ViewMatchesServer`), for any groups, members,
number of changes and length of the history. Between the server and the window lie the
refresh thread, which knows versions only, and its events in the window's queue.
`SyncInv` follows the view that the events on their way lead to (`Comes`): its versions
are those the thread knows (`Follows`), its directory is the server's whenever the
versions agree, and a participant's state in it is the server's, or a revision still
kept tells it, or the revisions have been dropped and the next answer is a snapshot
(`Covers`). `PresenceOK` says of the history that versions are consecutive and the
last revision of a participant has the participant's state, without which a delta could
bring an old state back.

**RemoteProofs.** `RemoteTypeCorrect`, `AdmissionIsByPriority` (`AdmissionByPriority`)
and `PlaybackAlwaysSettles` (`PlaybackSettles`), for any number of talkers, tracks,
limits and settings.

* Admission. `Before` is a strict total order of the streams a client keeps, as no two
  have the same order number (`BeforeIsOrder`). A stream's rank is the number of streams
  before it, plus one; that ranks grow shows that `Ordered` exists (`OrderExists`). What
  the recursive function `Admissions` decides is shown by the first stream at which it
  would differ from the rule, which stands in for an induction.
* Playback. The property is about the state in which nothing is under way. `PlaybackInv`
  says what is under way otherwise, over `Pending`, the event in hand and the callbacks
  behind it: tracks have ids of their own and a participant's events come in the order
  of its tracks (`Ids`, `InOrder`), so an older publication with the same key is gone
  when a track is handled; what left the room will be removed and what is in it is or
  will be registered (`Leaves`, `Registered`); the last event of a track says whether
  it is subscribed (`Says`); the transport has each decision or is about to be told
  (`Told`), the room has each subscription or is about to be asked (`Asked`), and a
  track without an event to come plays as it is subscribed (`PlaysAsTold`), the last
  three unless the transport reported an error about the track. They
  except behaviours in which two threads told at once (`raced`), as the property
  does; `Outlives` accounts for the tracks of `remote_muted`.

Every theorem that states a property was checked by TLC first; the inductive invariants of
`ControlPlaneProofs`, `PttClientProofs`, `ServerProofs`, `ClientProofs` and the desktop
were invariants of TLC runs before they were proved.

Only model-checked:

* liveness (`TransmissionsEnd`, `RightsAreWithdrawn`, `ConnectionsAnswered`,
  `ShutdownStops`, `CallsReturn`, `ChangesDelivered`, `ClientConverges`,
  `DestructionEnds`), which is beyond the prover;
* `ComponentsTypeOK` and `ProgressTypeOK`, which join the type invariants of the
  components that share a run (those of `RemoteAudio` and `Desktop` are proved:
  `RemoteTypeCorrect`, `DesktopTypeCorrect`). Most of the parts are proved, alone or inside an
  inductive invariant; those of `PttInput` (a change list is built by `SelectSeq`, which
  the prover does not know), `DirectorySync` and `ServerApi` are not.

What a definition computes for inputs of any size is not proved by the library's
induction theorems, which take an operator as a parameter and cannot be instantiated
here. Where a proof needs an induction (`RemoteProofs`, `InputProofs`,
`DirectoryProofs`) it argues by the least element of a set of numbers at which the claim
fails (`LeastExists`, `LeastPlace`).

## 5. Not modelled

* Text: JSON, HTTP header fields, token signatures, SQL beyond what it does to
  rows, logging, localisation, layout. Where a conversion decides something (times cut to
  milliseconds, an answer of the wrong shape, a chord that is sorted) it is in
  the model.
* The answer 500 to an exception in a route, and a server configured without
  voice grants.
* The identity file, options and bootstrap data: read once at the start.
* Capture devices, format negotiation, HID descriptors, udev properties: platform
  input and output of which a small model says nothing.
* Quality gates and the load driver: programs that test the others.

## 6. Plan

1. Larger instances of `RemoteAudio` (two streams per scope) and `Desktop`.
2. Versions that repeat after a removal, and `MovesOn`: models of both observations
   with a run of their own, once the code decides what should happen.
