---------------------------- MODULE ControlPlane ----------------------------
(***************************************************************************)
(* The transmission lifecycle of the control plane: HTTP worker threads    *)
(* run TransmissionApplicationService (start, end, moderation) and the     *)
(* administrative membership routes, the maintenance thread of             *)
(* apps/control-plane/src/main.cpp expires transmissions and sweeps        *)
(* sessions, and all of them share InMemoryControlPlaneStore, whose mutex  *)
(* makes one store call one atomic step.  What the code does between two   *)
(* store calls, or after it has released the mutex (telling LiveKit that a *)
(* transmission ended, writing the audit record), is a step of its own.    *)
(*                                                                         *)
(* One voice scope is modelled; a node is the team, specialization or      *)
(* group the scope addresses, so <<player, node>> names a participant of a *)
(* LiveKit room.  A session stands for one device, and a request whose     *)
(* device does not match its session is rejected before it changes         *)
(* anything.  A rejected request leaves no state behind: where it is       *)
(* rejected by its first check it is a stuttering step.                    *)
(*                                                                         *)
(* Operators whose names begin with Slip are plausible mistakes in the     *)
(* definition that follows them; no specification uses them.               *)
(***************************************************************************)
EXTENDS Integers, FiniteSets

CONSTANTS
    Players,
    Sessions,         \* session ids, each usable once
    Owner,            \* the player a session authenticates
    Nodes,            \* hierarchy nodes the scope can address
    Moderators,       \* players with the moderator or administrator role
    Workers,          \* HTTP worker threads
    Maintenance,      \* the maintenance thread
    SpeakerLimit,     \* ScopeDefinition::max_concurrent_speakers
    SessionLifetime,  \* ticks until a new session expires
    MaxDuration,      \* TransmissionLifecyclePolicy::maximum_transmission_duration
    MaxVersion,       \* bound on membership versions
    MaxIds,           \* bound on the transmission ids that are generated
    MaxClock,         \* bound on time
    MaxFailures,      \* bound on failed RoomService calls
    MaxRestarts       \* bound on restarts of the server process

ASSUME OwnerAssumption == Owner \in [Sessions -> Players]
ASSUME ThreadAssumption == Maintenance \notin Workers
ASSUME BoundAssumption ==
    /\ SpeakerLimit \in Nat \ {0}
    /\ SessionLifetime \in Nat \ {0}
    /\ MaxDuration \in Nat \ {0}
    /\ MaxVersion \in Nat \ {0}
    /\ MaxIds \in Nat
    /\ MaxClock \in Nat
    /\ MaxFailures \in Nat
    /\ MaxRestarts \in Nat

Threads == Workers \cup {Maintenance}
Ids == 1..MaxIds
Times == 0..MaxClock

VARIABLES
    clock,       \* Clock::now()
    sessions,    \* the session repository: expires_at, or NotCreated, or Erased
    memberships, \* the membership contexts, NoMembership where there is none
    active,      \* active_transmissions_
    nextId,      \* ITransmissionIdGenerator
    canPublish,  \* LiveKit: the <<player, node>> pairs that may publish
    failures,    \* LiveKitPublicationController::failure_count_
    strayRights, \* history: the pairs whose last call failed, or was not made because
                 \* the process died
    started,     \* audit: ids with a "started" event
    ended,       \* audit: ids with an "ended" or "forcibly_interrupted" event
    pc,          \* where each thread is
    now,         \* the time each thread read when it took its request
    sess,        \* the session each thread works for
    held,        \* the authorized transmission a start carries
    target,      \* the transmission id an end or a moderation names
    subject,     \* the player whose membership a PUT replaces
    revoking,    \* ended transmissions a thread has yet to tell LiveKit about
    recording,   \* ended ids a thread has yet to write to the audit log
    sweep,       \* the expired sessions the maintenance thread is removing
    restarts,    \* how often the process has been restarted
    lost         \* ids that were live, or not yet recorded, when a process died

vars == <<clock, sessions, memberships, active, nextId, canPublish, failures, strayRights,
          started, ended, pc, now, sess, held, target, subject, revoking, recording, sweep,
          restarts, lost>>
storeVars == <<sessions, memberships, active>>
livekitVars == <<canPublish, failures, strayRights>>
auditVars == <<started, ended>>
requestVars == <<now, sess, held, target, subject>>
outcomeVars == <<revoking, recording>>
crashVars == <<restarts, lost>>

NoMembership == [version |-> 0, node |-> "none", muted |-> FALSE]
Memberships == [version : 1..MaxVersion, node : Nodes, muted : BOOLEAN]
NotCreated == 0
Erased == -1
NoSession == "none"
NoPlayer == "nobody"
NoId == 0
NoTransmission == [id |-> NoId]

(* ActiveTransmission; node is scope_node_id, which names the LiveKit room. *)
Transmissions ==
    [id : Ids, player : Players, session : Sessions, version : 1..MaxVersion,
     node : Nodes, startedAt : Times]

PCs == {"idle", "start_checked", "authorized", "started", "end_checked", "moderate_checked",
        "replace_read", "unlocked", "expired", "sweeping", "removed"}

\* Type invariant of the store, the threads and the external state; every active
\* id has been generated.
TypeOK ==
    /\ clock \in Times
    /\ sessions \in [Sessions -> Erased..(MaxClock + SessionLifetime)]
    /\ memberships \in [Players -> Memberships \cup {NoMembership}]
    /\ active \in SUBSET Transmissions
    /\ nextId \in 1..(MaxIds + 1)
    /\ canPublish \in SUBSET (Players \X Nodes)
    /\ failures \in 0..MaxFailures
    /\ strayRights \in SUBSET (Players \X Nodes)
    /\ started \in SUBSET Ids
    /\ ended \in SUBSET Ids
    /\ pc \in [Threads -> PCs]
    /\ now \in [Threads -> Times]
    /\ sess \in [Threads -> Sessions \cup {NoSession}]
    /\ held \in [Threads -> Transmissions \cup {NoTransmission}]
    /\ target \in [Threads -> Ids \cup {NoId}]
    /\ subject \in [Threads -> Players \cup {NoPlayer}]
    /\ revoking \in [Threads -> SUBSET Transmissions]
    /\ recording \in [Threads -> SUBSET Ids]
    /\ sweep \in SUBSET Sessions
    /\ restarts \in 0..MaxRestarts
    /\ lost \in SUBSET Ids
    /\ \A t \in active : t.id < nextId

Init ==
    /\ clock = 0
    /\ sessions = [s \in Sessions |-> NotCreated]
    /\ memberships \in [Players -> {[version |-> 1, node |-> n, muted |-> FALSE] : n \in Nodes}]
    /\ active = {}
    /\ nextId = 1
    /\ canPublish = {}
    /\ failures = 0
    /\ strayRights = {}
    /\ started = {}
    /\ ended = {}
    /\ pc = [w \in Threads |-> "idle"]
    /\ now = [w \in Threads |-> 0]
    /\ sess = [w \in Threads |-> NoSession]
    /\ held = [w \in Threads |-> NoTransmission]
    /\ target = [w \in Threads |-> NoId]
    /\ subject = [w \in Threads |-> NoPlayer]
    /\ revoking = [w \in Threads |-> {}]
    /\ recording = [w \in Threads |-> {}]
    /\ sweep = {}
    /\ restarts = 0
    /\ lost = {}

-----------------------------------------------------------------------------
(* AuthenticatedSession::activeAt, for a session the repository still holds
   (NotCreated and Erased are before every time). *)
SessionActive(s, t) == t < sessions[s]

HasMembership(p) == memberships[p] # NoMembership

(* A thread answers its request and waits for the next one. *)
Done(w) ==
    /\ pc' = [pc EXCEPT ![w] = "idle"]
    /\ now' = [now EXCEPT ![w] = 0]
    /\ sess' = [sess EXCEPT ![w] = NoSession]
    /\ held' = [held EXCEPT ![w] = NoTransmission]
    /\ target' = [target EXCEPT ![w] = NoId]
    /\ subject' = [subject EXCEPT ![w] = NoPlayer]

SlipTakeOutSkipsRecord(w, gone, later) ==
    /\ active' = active \ gone
    /\ revoking' = [revoking EXCEPT ![w] = later]
    /\ recording' = [recording EXCEPT ![w] = {t.id : t \in later}]

SlipTakeOutSkipsLiveKit(w, gone, later) ==
    /\ active' = active \ gone
    /\ recording' = [recording EXCEPT ![w] = {t.id : t \in gone}]
    /\ UNCHANGED revoking

(* What a locked section does with the transmissions it ends: they leave the
   registry, and the thread leaves the lock owing LiveKit the revocations in
   later and the audit log one record per transmission. *)
TakeOut(w, gone, later) ==
    /\ active' = active \ gone
    /\ revoking' = [revoking EXCEPT ![w] = later]
    /\ recording' = [recording EXCEPT ![w] = {t.id : t \in gone}]

Room(t) == <<t.player, t.node>>

(* updateParticipant(room, player, can_publish): an external call that may
   fail with or without having been carried out.  rights is what canPublish
   becomes if it is carried out. *)
RoomServiceAnswers(t, rights) ==
    /\ canPublish' = rights
    /\ strayRights' = strayRights \ {Room(t)}
    /\ UNCHANGED failures

RoomServiceFails(t, rights) ==
    /\ failures < MaxFailures
    /\ failures' = failures + 1
    /\ canPublish' \in {canPublish, rights}
    /\ strayRights' = strayRights \cup {Room(t)}

SlipOnEndedGrants(t) == RoomServiceAnswers(t, canPublish \cup {Room(t)})

(* LiveKitPublicationController::onEnded: a failure is counted, not retried. *)
OnEnded(t) ==
    \/ RoomServiceAnswers(t, canPublish \ {Room(t)})
    \/ RoomServiceFails(t, canPublish \ {Room(t)})

-----------------------------------------------------------------------------
(* POST /sessions: a fresh session id with a fixed expiry. *)
CreateSession(s) ==
    /\ sessions[s] = NotCreated
    /\ sessions' = [sessions EXCEPT ![s] = clock + SessionLifetime]
    /\ UNCHANGED <<clock, memberships, active, nextId, livekitVars, auditVars, pc,
                   requestVars, outcomeVars, sweep, crashVars>>

(* A request passes the session checks that open start, end and
   interruptForModeration.  The time is read once, here. *)
OpenRequest(w, s) ==
    /\ pc[w] = "idle"
    /\ SessionActive(s, clock)
    /\ now' = [now EXCEPT ![w] = clock]
    /\ sess' = [sess EXCEPT ![w] = s]
    /\ UNCHANGED <<clock, storeVars, nextId, livekitVars, auditVars, subject, outcomeVars,
                   sweep, crashVars>>

(* start: the checks before authorizeStart.  A request the rate limiter
   refuses ends here. *)
StartCheck(w, s) ==
    /\ OpenRequest(w, s)
    /\ pc' = [pc EXCEPT ![w] = "start_checked"]
    /\ UNCHANGED <<held, target>>

SlipGenerateRepeats == UNCHANGED nextId

(* ITransmissionIdGenerator::next never repeats an id. *)
Generate == nextId <= MaxIds /\ nextId' = nextId + 1

(* authorizeStart: the session again, the membership, RecipientResolver.  The
   resolver also rejects a command that names another version than the current
   one, so every authorization may fail. *)
AuthorizeStart(w) ==
    LET s == sess[w]
        m == memberships[Owner[s]]
    IN /\ pc[w] = "start_checked"
       /\ \/ /\ SessionActive(s, now[w])
             /\ HasMembership(Owner[s])
             /\ ~m.muted
             /\ Generate
             /\ held' = [held EXCEPT ![w] =
                            [id |-> nextId, player |-> Owner[s], session |-> s,
                             version |-> m.version, node |-> m.node,
                             startedAt |-> now[w]]]
             /\ pc' = [pc EXCEPT ![w] = "authorized"]
             /\ UNCHANGED <<now, sess, target, subject>>
          \/ Done(w) /\ UNCHANGED nextId
       /\ UNCHANGED <<clock, storeVars, livekitVars, auditVars, outcomeVars, sweep, crashVars>>

(* The checks InMemoryControlPlaneStore::activate repeats under the lock. *)
SessionUnchanged(w, t) == SessionActive(t.session, now[w])

SlipMembershipPresent(t) == HasMembership(t.player)

MembershipUnchanged(t) ==
    HasMembership(t.player) /\ memberships[t.player].version = t.version

MatchingSpeakers(n) ==
    {t \in active : HasMembership(t.player) /\ memberships[t.player].node = n}

SlipSpeakerSlotOffByOne(t) ==
    Cardinality(MatchingSpeakers(memberships[t.player].node)) <= SpeakerLimit

SpeakerSlotFree(t) == Cardinality(MatchingSpeakers(memberships[t.player].node)) < SpeakerLimit

SlipSessionSilent(t) == \A u \in active : u.session # t.session

SenderSilent(t) == \A u \in active : u.player # t.player

CanActivate(w, t) ==
    /\ SessionUnchanged(w, t)
    /\ MembershipUnchanged(t)
    /\ SpeakerSlotFree(t)
    /\ SenderSilent(t)

(* activate, including the RoomService call of onStarted that it makes while
   it holds the lock: if that call fails the transmission is taken out again. *)
Activate(w) ==
    LET t == [held[w] EXCEPT !.node = memberships[held[w].player].node]
    IN /\ pc[w] = "authorized"
       /\ CanActivate(w, held[w])
       /\ \/ /\ RoomServiceAnswers(t, canPublish \cup {Room(t)})
             /\ active' = active \cup {t}
             /\ held' = [held EXCEPT ![w] = t]
             /\ pc' = [pc EXCEPT ![w] = "started"]
             /\ UNCHANGED <<now, sess, target, subject>>
          \/ /\ RoomServiceFails(t, canPublish \cup {Room(t)})
             /\ Done(w)
             /\ UNCHANGED active
       /\ UNCHANGED <<clock, sessions, memberships, nextId, auditVars, outcomeVars, sweep,
                      crashVars>>

ActivateRejected(w) ==
    /\ pc[w] = "authorized"
    /\ ~CanActivate(w, held[w])
    /\ Done(w)
    /\ UNCHANGED <<clock, storeVars, nextId, livekitVars, auditVars, outcomeVars, sweep,
                   crashVars>>

RecordStarted(w) ==
    /\ pc[w] = "started"
    /\ started' = started \cup {held[w].id}
    /\ Done(w)
    /\ UNCHANGED <<clock, storeVars, nextId, livekitVars, ended, outcomeVars, sweep, crashVars>>

-----------------------------------------------------------------------------
(* end: only the owning session may end a transmission; LiveKit is told while
   the lock is held. *)
EndCheck(w, s, i) ==
    /\ OpenRequest(w, s)
    /\ i < nextId
    /\ pc' = [pc EXCEPT ![w] = "end_checked"]
    /\ target' = [target EXCEPT ![w] = i]
    /\ UNCHANGED held

MayEnd(w, t) == t.id = target[w] /\ t.session = sess[w]

(* interruptForModeration: any session of a moderator. *)
ModerateCheck(w, s, i) ==
    /\ OpenRequest(w, s)
    /\ i < nextId
    /\ Owner[s] \in Moderators
    /\ HasMembership(Owner[s])
    /\ pc' = [pc EXCEPT ![w] = "moderate_checked"]
    /\ target' = [target EXCEPT ![w] = i]
    /\ UNCHANGED held

MayInterrupt(w, t) == t.id = target[w]

EndLocked(w, t) ==
    /\ TakeOut(w, {t}, {})
    /\ OnEnded(t)
    /\ pc' = [pc EXCEPT ![w] = "unlocked"]
    /\ UNCHANGED <<clock, sessions, memberships, nextId, auditVars, requestVars, sweep, crashVars>>

End(w) ==
    /\ pc[w] = "end_checked"
    /\ \/ \E t \in active : MayEnd(w, t) /\ EndLocked(w, t)
       \/ /\ \A t \in active : ~MayEnd(w, t)
          /\ Done(w)
          /\ UNCHANGED <<clock, storeVars, nextId, livekitVars, auditVars, outcomeVars, sweep,
                         crashVars>>

Interrupt(w) ==
    /\ pc[w] = "moderate_checked"
    /\ \/ \E t \in active : MayInterrupt(w, t) /\ EndLocked(w, t)
       \/ /\ \A t \in active : ~MayInterrupt(w, t)
          /\ Done(w)
          /\ UNCHANGED <<clock, storeVars, nextId, livekitVars, auditVars, outcomeVars, sweep,
                         crashVars>>

-----------------------------------------------------------------------------
(* PUT on a membership: the route reads the current context, builds the
   replacement from it, and only then takes the lock to write it.  The
   administrator who asks is not one of Players. *)
OfPlayer(p) == {t \in active : t.player = p}

ReplaceRead(w, p) ==
    /\ pc[w] = "idle"
    /\ HasMembership(p)
    /\ pc' = [pc EXCEPT ![w] = "replace_read"]
    /\ subject' = [subject EXCEPT ![w] = p]
    /\ UNCHANGED <<clock, storeVars, nextId, livekitVars, auditVars, now, sess, held,
                   target, outcomeVars, sweep, crashVars>>

(* upsertIfNewer: a missing row accepts every version. *)
Newer(p, m) == HasMembership(p) => m.version > memberships[p].version

UpdateMembership(w, m) ==
    LET p == subject[w]
    IN /\ pc[w] = "replace_read"
       /\ \/ /\ Newer(p, m)
             /\ memberships' = [memberships EXCEPT ![p] = m]
             /\ TakeOut(w, OfPlayer(p), OfPlayer(p))
             /\ pc' = [pc EXCEPT ![w] = "unlocked"]
             /\ UNCHANGED requestVars
          \/ /\ ~Newer(p, m)
             /\ Done(w)
             /\ UNCHANGED <<memberships, active, outcomeVars>>
       /\ UNCHANGED <<clock, sessions, nextId, livekitVars, auditVars, sweep, crashVars>>

(* DELETE on a membership. *)
RemoveMembership(w, p) ==
    /\ pc[w] = "idle"
    /\ HasMembership(p)
    /\ memberships' = [memberships EXCEPT ![p] = NoMembership]
    /\ TakeOut(w, OfPlayer(p), OfPlayer(p))
    /\ pc' = [pc EXCEPT ![w] = "unlocked"]
    /\ UNCHANGED <<clock, sessions, nextId, livekitVars, auditVars, requestVars, sweep,
                   crashVars>>

-----------------------------------------------------------------------------
(* After the lock: notifyEnded for every ended transmission, then one audit
   record for each. *)
AfterLock == {"unlocked", "expired", "removed"}

NotifyEnded(w, t) ==
    /\ pc[w] \in AfterLock
    /\ t \in revoking[w]
    /\ OnEnded(t)
    /\ revoking' = [revoking EXCEPT ![w] = @ \ {t}]
    /\ UNCHANGED <<clock, storeVars, nextId, auditVars, pc, requestVars, recording, sweep,
                   crashVars>>

RecordEnded(w, i) ==
    /\ pc[w] \in AfterLock
    /\ revoking[w] = {}
    /\ i \in recording[w]
    /\ ended' = ended \cup {i}
    /\ recording' = [recording EXCEPT ![w] = @ \ {i}]
    /\ UNCHANGED <<clock, storeVars, nextId, livekitVars, started, pc, requestVars, revoking,
                   sweep, crashVars>>

Settled(w) == revoking[w] = {} /\ recording[w] = {}

Answer(w) ==
    /\ pc[w] = "unlocked"
    /\ Settled(w)
    /\ Done(w)
    /\ UNCHANGED <<clock, storeVars, nextId, livekitVars, auditVars, outcomeVars, sweep,
                   crashVars>>

-----------------------------------------------------------------------------
(* The maintenance thread: expireTimedOut, then, when it is due, the sweep of
   the sessions that expired by the time the round began. *)
SlipTimedOutLate(t, at) == at - t.startedAt > MaxDuration

TimedOut(t, at) == at - t.startedAt >= MaxDuration

ExpireTimedOut ==
    LET overdue == {t \in active : TimedOut(t, clock)}
    IN /\ pc[Maintenance] = "idle"
       /\ TakeOut(Maintenance, overdue, overdue)
       /\ now' = [now EXCEPT ![Maintenance] = clock]
       /\ pc' = [pc EXCEPT ![Maintenance] = "expired"]
       /\ UNCHANGED <<clock, sessions, memberships, nextId, livekitVars, auditVars, sess, held,
                      target, subject, sweep, crashVars>>

ExpiredSessionIds(at) == {s \in Sessions : sessions[s] > 0 /\ sessions[s] <= at}

BeginSweep ==
    /\ pc[Maintenance] = "expired"
    /\ Settled(Maintenance)
    /\ sweep' = ExpiredSessionIds(now[Maintenance])
    /\ pc' = [pc EXCEPT ![Maintenance] = "sweeping"]
    /\ UNCHANGED <<clock, storeVars, nextId, livekitVars, auditVars, requestVars, outcomeVars,
                   crashVars>>

OfSession(s) == {t \in active : t.session = s}

RemoveSession(s) ==
    /\ pc[Maintenance] = "sweeping"
    /\ s \in sweep
    /\ TakeOut(Maintenance, OfSession(s), OfSession(s))
    /\ sess' = [sess EXCEPT ![Maintenance] = s]
    /\ pc' = [pc EXCEPT ![Maintenance] = "removed"]
    /\ UNCHANGED <<clock, sessions, memberships, nextId, livekitVars, auditVars, now, held,
                   target, subject, sweep, crashVars>>

EraseSession ==
    /\ pc[Maintenance] = "removed"
    /\ Settled(Maintenance)
    /\ sessions' = [sessions EXCEPT ![sess[Maintenance]] = Erased]
    /\ sweep' = sweep \ {sess[Maintenance]}
    /\ pc' = [pc EXCEPT ![Maintenance] = "sweeping"]
    /\ UNCHANGED <<clock, memberships, active, nextId, livekitVars, auditVars, requestVars,
                   outcomeVars, crashVars>>

(* The end of a round, with or without a sweep. *)
EndRound ==
    /\ \/ pc[Maintenance] = "sweeping" /\ sweep = {}
       \/ pc[Maintenance] = "expired" /\ Settled(Maintenance)
    /\ Done(Maintenance)
    /\ UNCHANGED <<clock, storeVars, nextId, livekitVars, auditVars, outcomeVars, sweep,
                   crashVars>>

Tick ==
    /\ clock < MaxClock
    /\ clock' = clock + 1
    /\ UNCHANGED <<storeVars, nextId, livekitVars, auditVars, pc, requestVars, outcomeVars,
                   sweep, crashVars>>

(* The process dies and starts again: the registry, the failure counter and
   what the threads were doing are gone, the repositories and the rights
   LiveKit has handed out are not. *)
Restart ==
    /\ restarts < MaxRestarts
    /\ restarts' = restarts + 1
    /\ lost' = lost \cup {t.id : t \in active} \cup UNION {recording[w] : w \in Threads}
    /\ active' = {}
    /\ failures' = 0
    /\ strayRights' =
        strayRights \cup {Room(t) : t \in active \cup UNION {revoking[w] : w \in Threads}}
    /\ pc' = [w \in Threads |-> "idle"]
    /\ now' = [w \in Threads |-> 0]
    /\ sess' = [w \in Threads |-> NoSession]
    /\ held' = [w \in Threads |-> NoTransmission]
    /\ target' = [w \in Threads |-> NoId]
    /\ subject' = [w \in Threads |-> NoPlayer]
    /\ revoking' = [w \in Threads |-> {}]
    /\ recording' = [w \in Threads |-> {}]
    /\ sweep' = {}
    /\ UNCHANGED <<clock, sessions, memberships, nextId, canPublish, auditVars>>

-----------------------------------------------------------------------------
WorkerStep(w) ==
    \/ AuthorizeStart(w)
    \/ Activate(w)
    \/ ActivateRejected(w)
    \/ RecordStarted(w)
    \/ End(w)
    \/ Interrupt(w)
    \/ \E m \in Memberships : UpdateMembership(w, m)
    \/ Answer(w)

AfterLockStep(w) ==
    \/ \E t \in revoking[w] : NotifyEnded(w, t)
    \/ \E i \in recording[w] : RecordEnded(w, i)

MaintenanceStep ==
    \/ ExpireTimedOut
    \/ BeginSweep
    \/ \E s \in Sessions : RemoveSession(s)
    \/ EraseSession
    \/ EndRound

Request(w) ==
    \/ \E s \in Sessions : StartCheck(w, s)
    \/ \E s \in Sessions, i \in Ids : EndCheck(w, s, i)
    \/ \E s \in Sessions, i \in Ids : ModerateCheck(w, s, i)
    \/ \E p \in Players : ReplaceRead(w, p)
    \/ \E p \in Players : RemoveMembership(w, p)

Next ==
    \/ \E s \in Sessions : CreateSession(s)
    \/ \E w \in Workers : Request(w) \/ WorkerStep(w)
    \/ \E w \in Threads : AfterLockStep(w)
    \/ MaintenanceStep
    \/ Tick
    \/ Restart

Spec == Init /\ [][Next]_vars

(* A thread that has started on a request finishes it, the maintenance thread
   keeps making rounds (main.cpp loops until the process stops) and time
   passes.  Nobody has to send a request. *)
Fairness ==
    /\ \A w \in Workers : WF_vars(WorkerStep(w))
    /\ \A w \in Threads : WF_vars(AfterLockStep(w))
    /\ WF_vars(MaintenanceStep)
    /\ WF_vars(Tick)

FairSpec == Spec /\ Fairness

-----------------------------------------------------------------------------
(* Safety. *)

\* A player has at most one active transmission, however many of the player's
\* devices press push-to-talk at once (activate checks under the same lock that
\* inserts).
OneTransmissionPerSender ==
    \A t, u \in active : t.player = u.player => t = u

\* Every active transmission was authorized under the membership version its
\* sender has now and is routed to the node its sender is in now, although the
\* authorization, the activation and the update are separate requests
\* (updateMembership, removeMembership and activate).
ActiveOnCurrentMembership ==
    \A t \in active :
        /\ memberships[t.player].version = t.version
        /\ memberships[t.player].node = t.node

\* No node ever has more speakers than its scope allows (activate counts by the
\* speakers' current memberships, which may change while they speak).
SpeakerLimitRespected ==
    \A n \in Nodes : Cardinality({t \in active : t.node = n}) <= SpeakerLimit

\* A participant that LiveKit lets publish is transmitting, or a thread still owes
\* the revocation, or the last RoomService call about this participant and room failed
\* or was never made because the process died: no interleaving of store calls leaks a
\* right, and a failure or a restart leaks only the rights it hits, until the next call
\* about them succeeds (TakeOut, notifyEnded, LiveKitPublicationController).
RightsAreAccountedFor ==
    \A r \in canPublish :
        \/ \E t \in active : Room(t) = r
        \/ \E w \in Threads : \E t \in revoking[w] : Room(t) = r
        \/ r \in strayRights

Owed(i) == {w \in Threads : i \in recording[w]}

\* Every transmission that was announced as started is at any time in exactly
\* one place: in the registry, in the hands of the one thread that ended it and
\* will record that, in the audit log, or lost with a process.  So a
\* transmission is ended once, whatever races to end it, and none is forgotten.
EndedExactlyOnce ==
    \A i \in Ids :
        LET isActive == \E t \in active : t.id = i
        IN /\ isActive => Owed(i) = {} /\ i \notin ended \cup lost
           /\ Cardinality(Owed(i)) <= 1
           /\ Owed(i) # {} => i \notin ended \cup lost
           /\ i \in started => isActive \/ Owed(i) # {} \/ i \in ended \cup lost

(* The ids that are, or were, in the registry. *)
SpentIds ==
    {t.id : t \in active} \cup (UNION {recording[w] : w \in Threads}) \cup ended \cup lost

RegistryFloor == INSTANCE Floor WITH membership <- memberships, floor <- active, spent <- SpentIds

\* The registry implements the floor: a transmission enters it once, on the membership
\* that is then current and into a free slot, and leaves it at the latest in the step
\* that changes the membership, although threads, moderation, expiry, sweeps and
\* restarts interleave between authorization, activation and the audit record.
IsFloor == RegistryFloor!FloorSpec

-----------------------------------------------------------------------------
(* Liveness. *)

IsActive(i) == \E t \in active : t.id = i

\* A transmission whose client disappears does not hold the channel for ever: it
\* ends, if its maximum duration is over before time stops at the model's bound.
TransmissionsEnd ==
    \A i \in Ids :
        (\E t \in active : t.id = i /\ t.startedAt + MaxDuration <= MaxClock)
        ~> ~IsActive(i)

\* A publication right without a transmission is withdrawn or used again, unless the
\* call that was to withdraw it failed or died with the process; a failure or a restart
\* at any other time does not keep it (notifyEnded, LiveKitPublicationController::onEnded).
RightsAreWithdrawn ==
    \A p \in Players, n \in Nodes :
        (/\ <<p, n>> \in canPublish
         /\ \A t \in active : Room(t) # <<p, n>>)
        ~> (\/ <<p, n>> \notin canPublish
            \/ \E t \in active : Room(t) = <<p, n>>
            \/ <<p, n>> \in strayRights)

-----------------------------------------------------------------------------
(* What the documentation says and the code does not do. *)

AllIdle == \A w \in Threads : pc[w] = "idle"

\* "Implementations must make publication permission match the active
\* server-side lifecycle" (control_plane.hpp): the sender of an active
\* transmission may publish, at least when no thread is in a request.
SenderMayPublish ==
    AllIdle => \A t \in active : Room(t) \in canPublish
=============================================================================
