----------------------------- MODULE RemoteAudio -----------------------------
(***************************************************************************)
(* What other participants say, from the LiveKit room to the loudspeaker.  *)
(* Three parts with a lock each: the room and its callback thread (the     *)
(* SDK), the LiveKit transport, which keeps one publication and at most    *)
(* one playout per scope and participant, and the VoiceClient, which       *)
(* decides which streams are admitted and how loud they are.  The          *)
(* VoiceClient decides under its lock and tells the transport afterwards,  *)
(* stream by stream, so the callback thread and the application's thread   *)
(* can tell it in an order other than the one in which they decided.       *)
(***************************************************************************)
EXTENDS Integers, Sequences, FiniteSets

CONSTANTS
    Speakers,         \* pairs of a scope and a participant who may publish in its room
    MaxStreams,       \* AudioEngineConfig::maximum_streams
    MaxPerScope,      \* AudioEngineConfig::maximum_streams_per_scope
    MaxPublications,  \* bound on publications in a behaviour
    MaxSettings       \* bound on the application's calls and on resumed connections

Talkers == {s[2] : s \in Speakers}
RemoteScopes == {s[1] : s \in Speakers}

ASSUME RemoteAssumption ==
    /\ RemoteScopes \subseteq {"team", "specialization", "group"}
    /\ MaxStreams \in Nat \ {0} /\ MaxPerScope \in Nat \ {0}
    /\ MaxPublications \in Nat /\ MaxSettings \in Nat

FullVolume == 4     \* 1.0F; gains are quarters
Duck(from, under) == IF from = "team" /\ under = "group" THEN 1 ELSE 2

VARIABLES
    room,         \* SDK: the tracks published in the rooms
    subscribed,   \* SDK: the tracks that are subscribed
    callbacks,    \* SDK: events not yet delivered, in order
    handling,     \* the event the callback thread is in, and how far it is
    rooms,        \* LiveKitVoiceTransport: state_
    publications, \* remote_publications_, by scope and participant
    tracks,       \* remote_audio_tracks_
    streams,      \* VoiceClient: available_remote_audio_
    silenced,     \* muted_participants_ and blocked_participants_
    volumes,      \* participant_volumes_
    orders,       \* next_admission_order_
    telling,      \* per thread, the PlaybackChanges it still has to apply
    subscribing,  \* per thread, the setSubscribed call it is about to make
    settings,     \* application calls and resumed connections so far
    published,    \* publications so far
    backend,      \* playout_backend_ could be created
    kept,         \* history: tracks that outlived a reconnect
    failed,       \* history: tracks of which the transport reported an error
    raced         \* history: a decision was made while another was being told

remoteVars == <<room, subscribed, callbacks, handling, rooms, publications, tracks, streams,
                silenced, volumes, orders, telling, subscribing, settings, published, backend,
                kept, failed, raced>>
sdkVars == <<room, published, backend>>
clientVars == <<streams, silenced, volumes, orders>>
tellVars == <<telling, raced>>

Threads == {"sdk", "app"}
Tracks == [id : 1..MaxPublications, scope : RemoteScopes, who : Talkers]
Idle == [kind |-> "none"]
NoTrack == [id |-> 0]

\* Type invariant.
RemoteTypeOK ==
    /\ room \in SUBSET Tracks
    /\ subscribed \in SUBSET (1..MaxPublications)
    /\ rooms \in {"disconnected", "connected", "reconnecting"}
    /\ DOMAIN publications \subseteq RemoteScopes \X Talkers
    /\ tracks \in SUBSET Tracks
    /\ \A s \in streams : s.scope \in RemoteScopes /\ s.who \in Talkers /\ s.gain \in 0..FullVolume
    /\ silenced \in SUBSET Talkers
    /\ volumes \in [Talkers -> 0..FullVolume]
    /\ failed \subseteq 1..MaxPublications
    /\ backend \in BOOLEAN /\ raced \in BOOLEAN

RemoteInit ==
    /\ room = {}
    /\ subscribed = {}
    /\ callbacks = <<>>
    /\ handling = Idle
    /\ rooms = "connected"
    /\ publications = <<>>
    /\ tracks = {}
    /\ streams = {}
    /\ silenced = {}
    /\ volumes = [t \in Talkers |-> FullVolume]
    /\ orders = 0
    /\ telling = [t \in Threads |-> <<>>]
    /\ subscribing = [t \in Threads |-> NoTrack]
    /\ settings = 0
    /\ published = 0
    /\ backend \in BOOLEAN
    /\ kept = {}
    /\ failed = {}
    /\ raced = FALSE

-----------------------------------------------------------------------------
(* VoiceClient: which streams are admitted, and their gains. *)

Priority(scope) == CASE scope = "group" -> 3 [] scope = "specialization" -> 2 [] OTHER -> 1

Before(s, t) ==
    \/ Priority(s.scope) > Priority(t.scope)
    \/ s.scope = t.scope /\ s.order < t.order

InScope(set, scope) == {s \in set : s.scope = scope}

(* Admission ignores the limit of the engine. *)
SlipFits(in, s) == Cardinality(InScope(in, s.scope)) < MaxPerScope

(* There is room for one more stream of the scope. *)
Fits(in, s) ==
    /\ Cardinality(InScope(in, s.scope)) < MaxPerScope
    /\ Cardinality(in) < MaxStreams

(* The streams in order of priority: the order is total. *)
Ordered(set) ==
    CHOOSE s \in [1..Cardinality(set) -> set] : \A i, j \in DOMAIN s : i < j => Before(s[i], s[j])

(* recomputePlaybackLocked: what is admitted of the first streams, one after the
   other, until the limits. *)
Admissions(ordered, quiet) ==
    LET in[i \in 0..Len(ordered)] ==
          IF i = 0 THEN {}
          ELSE IF ordered[i].who \notin quiet /\ Fits(in[i - 1], ordered[i])
          THEN in[i - 1] \cup {ordered[i]}
          ELSE in[i - 1]
    IN  in

AdmittedOf(avail, quiet) == Admissions(Ordered(avail), quiet)[Cardinality(avail)]

(* The loudest scope that is being heard ducks the ones below it. *)
GainOf(s, in, vol) ==
    LET ducking == {u \in {"group", "specialization"} :
                      InScope(in, u) # {} /\ Priority(u) > Priority(s.scope)}
        over == IF "group" \in ducking THEN "group" ELSE "specialization"
    IN  IF s \notin in THEN 0
        ELSE IF ducking = {} THEN vol[s.who]
        ELSE (vol[s.who] * Duck(s.scope, over)) \div FullVolume

(* What the client tells the transport of every available stream. *)
Decided(avail, quiet, vol) ==
    LET plain == {[s EXCEPT !.admitted = FALSE, !.gain = 0] : s \in avail}
        in == AdmittedOf(plain, quiet)
    IN  {[s EXCEPT !.admitted = s \in in, !.gain = GainOf(s, in, vol)] : s \in plain}

Resting(t) == telling[t] = <<>> /\ subscribing[t] = NoTrack

(* A decision: the new playback under the lock, and the thread begins to apply
   it.  Another thread may still be applying an older one. *)
Recompute(t, avail, quiet, vol) ==
    /\ streams' = Decided(avail, quiet, vol)
    /\ telling' = [telling EXCEPT ![t] = Ordered(streams')]
    /\ raced' = (raced \/ \E u \in Threads \ {t} : ~Resting(u))

(* setParticipantMuted and setParticipantBlocked *)
SetSilenced(p, on) ==
    /\ Resting("app")
    /\ settings < MaxSettings
    /\ settings' = settings + 1
    /\ silenced' = IF on THEN silenced \cup {p} ELSE silenced \ {p}
    /\ Recompute("app", streams, silenced', volumes)
    /\ UNCHANGED <<subscribed, callbacks, handling, rooms, publications, tracks, volumes, orders,
                   subscribing, kept, failed>>
    /\ UNCHANGED sdkVars

(* setParticipantVolume *)
SetVolume(p, v) ==
    /\ Resting("app")
    /\ settings < MaxSettings
    /\ settings' = settings + 1
    /\ volumes' = [volumes EXCEPT ![p] = v]
    /\ Recompute("app", streams, silenced, volumes')
    /\ UNCHANGED <<subscribed, callbacks, handling, rooms, publications, tracks, silenced, orders,
                   subscribing, kept, failed>>
    /\ UNCHANGED sdkVars

-----------------------------------------------------------------------------
(* LiveKitVoiceTransport: configureRemoteAudio. *)

(* A stream that is not admitted keeps the gain it had. *)
SlipConfigured(rec, change) ==
    [rec EXCEPT !.admitted = change.admitted,
                !.gain = IF change.admitted THEN change.gain ELSE @]

(* The policy is stored, and a playout that exists is told its gain at once. *)
Configured(rec, change) ==
    [rec EXCEPT !.admitted = change.admitted,
                !.gain = IF change.admitted THEN change.gain ELSE 0]

(* An error of the transport about these tracks: reported and not retried. *)
Fails(ids) == failed' = failed \cup ids

(* applyPlaybackChanges: one change.  A stream whose publication is gone is an
   error that is reported and skipped, and so is one to be admitted when there is
   nothing to play it on. *)
Apply(t) ==
    /\ telling[t] # <<>>
    /\ subscribing[t] = NoTrack
    /\ LET change == Head(telling[t])
           key == <<change.scope, change.who>>
       IN  IF key \in DOMAIN publications /\ (change.admitted => backend)
           THEN /\ publications' = [publications EXCEPT ![key] = Configured(@, change)]
                /\ subscribing' = [subscribing EXCEPT ![t] =
                                     [id |-> publications[key].track.id, on |-> change.admitted]]
                /\ UNCHANGED failed
           ELSE /\ Fails({publications[k].track.id : k \in DOMAIN publications \cap {key}})
                /\ UNCHANGED <<publications, subscribing>>
    /\ telling' = [telling EXCEPT ![t] = Tail(@)]
    /\ UNCHANGED <<subscribed, callbacks, handling, rooms, tracks, settings, kept, raced>>
    /\ UNCHANGED sdkVars
    /\ UNCHANGED clientVars

TrackOf(id) == CHOOSE x \in room : x.id = id

(* setSubscribed, outside the lock, when the publication is not already as it
   should be.  The room reports the change by a callback, or the call throws. *)
Subscribe(t) ==
    /\ subscribing[t] # NoTrack
    /\ LET id == subscribing[t].id
           on == subscribing[t].on
           asks == (\E x \in room : x.id = id) /\ (id \in subscribed) # on
       IN  \/ /\ asks
              /\ subscribed' = IF on THEN subscribed \cup {id} ELSE subscribed \ {id}
              /\ callbacks' = Append(callbacks,
                                [kind |-> IF on THEN "subscribed" ELSE "unsubscribed",
                                 track |-> TrackOf(id)])
              /\ UNCHANGED failed
           \/ /\ IF asks THEN Fails({id}) ELSE UNCHANGED failed
              /\ UNCHANGED <<subscribed, callbacks>>
    /\ subscribing' = [subscribing EXCEPT ![t] = NoTrack]
    /\ UNCHANGED <<handling, rooms, publications, tracks, settings, kept>>
    /\ UNCHANGED sdkVars
    /\ UNCHANGED clientVars
    /\ UNCHANGED tellVars

-----------------------------------------------------------------------------
(* The room: participants speak and leave.  External; the order of the two
   callbacks of a new track is not fixed, as onTrackSubscribed notes. *)

Event(kind, x) == [kind |-> kind, track |-> x]

Publish(scope, who) ==
    /\ rooms # "disconnected"
    /\ published < MaxPublications
    /\ \A x \in room : x.who # who
    /\ published' = published + 1
    /\ LET x == [id |-> published', scope |-> scope, who |-> who]
       IN  /\ room' = room \cup {x}
           /\ subscribed' = subscribed \cup {x.id}
           /\ \/ callbacks' = callbacks \o <<Event("published", x), Event("subscribed", x)>>
              \/ callbacks' = callbacks \o <<Event("subscribed", x), Event("published", x)>>
    /\ UNCHANGED <<handling, rooms, publications, tracks, subscribing, settings, kept, failed,
                   backend>>
    /\ UNCHANGED clientVars
    /\ UNCHANGED tellVars

(* The track ends, or its participant leaves. *)
Withdraw(x) ==
    /\ x \in room
    /\ room' = room \ {x}
    /\ subscribed' = subscribed \ {x.id}
    /\ \/ callbacks' = callbacks \o (IF x.id \in subscribed
                                     THEN <<Event("unsubscribed", x)>> ELSE <<>>)
                                 \o <<Event("unpublished", x)>>
       \/ callbacks' = Append(callbacks, Event("left", x))
    /\ UNCHANGED <<handling, rooms, publications, tracks, subscribing, settings, published,
                   backend, kept, failed>>
    /\ UNCHANGED clientVars
    /\ UNCHANGED tellVars

(* The connection is resumed with the tracks it had: the SDK reports the two
   connection events and no track. *)
Resume ==
    /\ rooms = "connected"
    /\ settings < MaxSettings
    /\ settings' = settings + 1
    /\ room # {}
    /\ kept' = kept \cup {x.id : x \in room}
    /\ callbacks' = callbacks \o <<Event("reconnecting", NoTrack), Event("reconnected", NoTrack)>>
    /\ UNCHANGED <<subscribed, handling, rooms, publications, tracks, subscribing, failed>>
    /\ UNCHANGED sdkVars
    /\ UNCHANGED clientVars
    /\ UNCHANGED tellVars

-----------------------------------------------------------------------------
(* The callback thread. *)

Key(x) == <<x.scope, x.who>>
Known(x) == Key(x) \in DOMAIN publications /\ publications[Key(x)].track.id = x.id
Without(f, k) == [i \in DOMAIN f \ {k} |-> f[i]]

Done == handling' = Idle
Next1(kind) == handling' = [handling EXCEPT !.kind = kind]

Deliver ==
    /\ handling = Idle
    /\ callbacks # <<>>
    /\ handling' = Head(callbacks)
    /\ callbacks' = Tail(callbacks)
    /\ UNCHANGED <<subscribed, rooms, publications, tracks, subscribing, settings, kept, failed>>
    /\ UNCHANGED sdkVars
    /\ UNCHANGED clientVars
    /\ UNCHANGED tellVars

(* remoteAudioAvailable: registers the publication, by its ID, and tells the
   client of one it did not have; then onRemoteAudioAvailable of the client,
   which ignores a stream it already has. *)
RemoteAudioAvailable ==
    /\ handling.kind \in {"published", "subscribed"}
    /\ LET x == handling.track
           fresh == [scope |-> x.scope, who |-> x.who, order |-> orders,
                     admitted |-> FALSE, gain |-> 0]
           notify == ~Known(x) /\ ~\E s \in streams : s.scope = x.scope /\ s.who = x.who
       IN  /\ publications' =
                IF Known(x) THEN publications
                ELSE [k \in DOMAIN publications \cup {Key(x)} |->
                        IF k = Key(x)
                        THEN [track |-> x, admitted |-> FALSE, gain |-> 0, playing |-> FALSE]
                        ELSE publications[k]]
           /\ IF notify
              THEN /\ Recompute("sdk", streams \cup {fresh}, silenced, volumes)
                   /\ orders' = orders + 1
              ELSE UNCHANGED <<streams, telling, raced, orders>>
    /\ IF handling.kind = "published" THEN Next1("settle") ELSE Next1("start")
    /\ UNCHANGED <<subscribed, callbacks, rooms, tracks, silenced, volumes, subscribing, settings,
                   kept, failed>>
    /\ UNCHANGED sdkVars

(* The handler returns once the decision has been applied. *)
Settle ==
    /\ handling.kind = "settle"
    /\ Resting("sdk")
    /\ Done
    /\ UNCHANGED <<subscribed, callbacks, rooms, publications, tracks, subscribing, settings, kept,
                   failed>>
    /\ UNCHANGED sdkVars
    /\ UNCHANGED clientVars
    /\ UNCHANGED tellVars

(* Only the registered and admitted publication of the participant is played. *)
MayPlay(x) == Known(x) /\ publications[Key(x)].admitted

(* remoteAudioStarted: createPlayout may throw, and there may be nothing to play on. *)
RemoteAudioStarted ==
    /\ handling.kind = "start"
    /\ Resting("sdk")
    /\ LET x == handling.track
       IN  \/ /\ MayPlay(x) /\ backend
              /\ publications' = [publications EXCEPT ![Key(x)].playing = TRUE]
              /\ tracks' = tracks \cup {x}
              /\ UNCHANGED failed
           \/ /\ IF MayPlay(x) THEN Fails({x.id}) ELSE UNCHANGED failed
              /\ UNCHANGED <<publications, tracks>>
    /\ Done
    /\ UNCHANGED <<subscribed, callbacks, rooms, subscribing, settings, kept>>
    /\ UNCHANGED sdkVars
    /\ UNCHANGED clientVars
    /\ UNCHANGED tellVars

(* remoteAudioStopped: the playout of this very publication ends. *)
Stopped(x) ==
    /\ tracks' = tracks \ {x}
    /\ publications' = IF x \in tracks /\ Known(x)
                       THEN [publications EXCEPT ![Key(x)].playing = FALSE]
                       ELSE publications

RemoteAudioStopped ==
    /\ handling.kind \in {"unsubscribed", "unpublished"}
    /\ Stopped(handling.track)
    /\ IF handling.kind = "unsubscribed" THEN Done ELSE Next1("withdraw")
    /\ UNCHANGED <<subscribed, callbacks, rooms, subscribing, settings, kept, failed>>
    /\ UNCHANGED sdkVars
    /\ UNCHANGED clientVars
    /\ UNCHANGED tellVars

(* onRemoteAudioUnavailable of the client: decides again without the stream. *)
ForgetStream(k) ==
    Recompute("sdk", {s \in streams : <<s.scope, s.who>> # k}, silenced, volumes)

(* remoteAudioUnavailable: the publication is forgotten, if it is this one. *)
RemoteAudioUnavailable ==
    /\ handling.kind = "withdraw"
    /\ LET x == handling.track
       IN  IF Known(x)
           THEN /\ publications' = Without(publications, Key(x))
                /\ ForgetStream(Key(x))
           ELSE UNCHANGED <<publications, streams, telling, raced>>
    /\ Next1("settle")
    /\ UNCHANGED <<subscribed, callbacks, rooms, tracks, silenced, volumes, orders, subscribing,
                   settings, kept, failed>>
    /\ UNCHANGED sdkVars

(* participantDisconnected: clearParticipantAudio, then the publication is
   forgotten, whichever it is. *)
ParticipantDisconnected ==
    /\ handling.kind = "left"
    /\ LET k == Key(handling.track)
       IN  /\ tracks' = {y \in tracks : Key(y) # k}
           /\ publications' = Without(publications, k)
           /\ IF k \in DOMAIN publications THEN ForgetStream(k)
              ELSE UNCHANGED <<streams, telling, raced>>
    /\ Next1("settle")
    /\ UNCHANGED <<subscribed, callbacks, rooms, silenced, volumes, orders, subscribing, settings,
                   kept, failed>>
    /\ UNCHANGED sdkVars

(* reconnecting, reconnected: the client forgets its streams, the transport keeps
   its publications. *)
ConnectionChanged ==
    /\ handling.kind \in {"reconnecting", "reconnected"}
    /\ rooms' = IF handling.kind = "reconnecting" THEN "reconnecting" ELSE "connected"
    /\ streams' = IF handling.kind = "reconnecting" THEN {} ELSE streams
    /\ Done
    /\ UNCHANGED <<subscribed, callbacks, publications, tracks, subscribing, settings, kept, failed,
                   silenced, volumes, orders>>
    /\ UNCHANGED sdkVars
    /\ UNCHANGED tellVars

(* The tracks in the order in which a room reports them. *)
AnyOrder(set) ==
    {s \in [1..Cardinality(set) -> set] : \A x \in set : \E i \in DOMAIN s : s[i] = x}

(* reconnectForPlayoutDevice: the rooms are left, everything is cleared, and the
   rooms are joined again; or the device is refused and the transport stays
   disconnected.  Leaving a room waits for its callbacks. *)
ReconnectForPlayoutDevice ==
    /\ publications' = <<>>
    /\ tracks' = {}
    /\ streams' = {}
    /\ kept' = {}
    /\ failed' = {}
    /\ UNCHANGED backend
    /\ \/ /\ backend
          /\ rooms' = "connected"
          /\ subscribed' = {x.id : x \in room}
          /\ \E order \in AnyOrder(room) :
               callbacks' = [i \in DOMAIN order |-> Event("subscribed", order[i])]
          /\ UNCHANGED <<room, published>>
       \/ /\ rooms' = "disconnected"
          /\ subscribed' = {}
          /\ callbacks' = <<>>
          /\ room' = {}
          /\ UNCHANGED published

(* selectPlayoutDevice while connected. *)
SelectPlayoutDevice ==
    /\ Resting("app")
    /\ handling = Idle
    /\ rooms = "connected"
    /\ settings < MaxSettings
    /\ settings' = settings + 1
    /\ ReconnectForPlayoutDevice
    /\ UNCHANGED <<handling, subscribing, silenced, volumes, orders>>
    /\ UNCHANGED tellVars

CallbackStep ==
    \/ Deliver \/ RemoteAudioAvailable \/ Settle \/ RemoteAudioStarted
    \/ RemoteAudioStopped \/ RemoteAudioUnavailable \/ ParticipantDisconnected
    \/ ConnectionChanged

RemoteNext ==
    \/ \E s \in Speakers : Publish(s[1], s[2])
    \/ \E x \in room : Withdraw(x)
    \/ Resume
    \/ CallbackStep
    \/ \E t \in Threads : Apply(t) \/ Subscribe(t)
    \/ \E p \in Talkers, on \in BOOLEAN : SetSilenced(p, on)
    \/ \E p \in Talkers, v \in {2, FullVolume} : SetVolume(p, v)
    \/ SelectPlayoutDevice

RemoteSpec == RemoteInit /\ [][RemoteNext]_remoteVars

-----------------------------------------------------------------------------
(* Properties. *)

\* Admission is by priority: no silenced participant is admitted, the limits of
\* the scope and of the engine hold, and a stream is refused only when streams
\* that come before it fill one of the two.
AdmissionByPriority ==
    LET in == {s \in streams : s.admitted}
    IN  /\ \A s \in in : s.who \notin silenced
        /\ Cardinality(in) <= MaxStreams
        /\ \A scope \in RemoteScopes : Cardinality(InScope(in, scope)) <= MaxPerScope
        /\ \A s \in streams \ in :
             \/ s.who \in silenced
             \/ Cardinality({u \in InScope(in, s.scope) : Before(u, s)}) = MaxPerScope
             \/ Cardinality({u \in in : Before(u, s)}) = MaxStreams

Quiet ==
    /\ callbacks = <<>>
    /\ handling = Idle
    /\ \A t \in Threads : Resting(t)

Plays(x) == Known(x) /\ publications[Key(x)].playing /\ publications[Key(x)].gain > 0

\* When nothing is in progress, the loudspeaker plays what the client decided: of
\* every track in the rooms the transport has the client's decision and its gain,
\* silence if there is nothing to play on, and it plays exactly the admitted ones,
\* except those of which it reported an error.  Left out are tracks that outlived a
\* reconnect (see MutedIsSilent), and behaviours in which two decisions were told at
\* once, where the older one can be told last.
PlaybackSettles ==
    Quiet /\ rooms = "connected" /\ ~raced =>
        \A x \in room : x.id \notin kept =>
            \E s \in streams :
               /\ <<s.scope, s.who>> = Key(x)
               /\ Known(x)
               /\ publications[Key(x)].admitted = (s.admitted /\ backend)
               /\ publications[Key(x)].gain = IF backend THEN s.gain ELSE 0
               /\ x.id \notin failed =>
                    /\ publications[Key(x)].playing = s.admitted
                    /\ (x.id \in subscribed) = s.admitted

Silent == \A x \in room : x.who \in silenced /\ x.id \notin failed => ~Plays(x)

\* "A locally muted sender's audio must not be played on that recipient's client"
\* (spec.md): when nothing is in progress, decisions were told one at a time, and
\* the transport reported no error.
MutedIsSilent == Quiet /\ ~raced => Silent
=============================================================================
