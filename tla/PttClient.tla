------------------------------ MODULE PttClient ------------------------------
(***************************************************************************)
(* Push-to-talk in the client: AuthorizedVoiceClient on top of VoiceClient *)
(* on top of LiveKitVoiceTransport.  Each of the three has a mutex of its  *)
(* own, none is held across a call into the layer below or to the server   *)
(* (endInterruptedTransmission excepted), and every layer keeps its own    *)
(* idle, starting, active, stopping.  One critical section or one external *)
(* effect is one step.  The two condition variables are modelled by their  *)
(* wait sets.                                                              *)
(*                                                                         *)
(* The threads are those of the client: input threads press and release,   *)
(* control threads connect, refresh the authorization and disconnect       *)
(* (ClientSession serialises these with services_mutex_), and the callback *)
(* thread of the LiveKit room reports lost and restored connections.  A    *)
(* transmission id is the number of the generation that asked for it.      *)
(* External: the control plane, which may also end a transmission on its   *)
(* own, and the LiveKit room; leaving the room waits for its callbacks.    *)
(*                                                                         *)
(* Operators whose names begin with Slip are plausible mistakes in the     *)
(* definition that follows them; no specification uses them.               *)
(***************************************************************************)
EXTENDS Integers, FiniteSets

CONSTANTS
    InputThreads,
    ControlThreads,
    MaxPresses,    \* bound on accepted presses, so on both generations
    MaxDrops,      \* bound on lost room connections
    MaxFailures,   \* bound on lost answers of the control plane
    ForcedEnds     \* whether the server ends transmissions on its own

ASSUME ThreadAssumption == InputThreads \cap ControlThreads = {}
\* ClientSession connects, refreshes and disconnects under services_mutex_, so there is
\* at most one such call at a time.
ASSUME SerialControlAssumption == \A c, d \in ControlThreads : c = d
ASSUME BoundAssumption ==
    /\ MaxPresses \in Nat
    /\ MaxDrops \in Nat
    /\ MaxFailures \in Nat
    /\ ForcedEnds \in BOOLEAN

Threads == InputThreads \cup ControlThreads
Ids == 1..MaxPresses
NoId == 0

VARIABLES
    pub,          \* AuthorizedVoiceClient::publication_state_
    gen,          \* publication_generation_
    voiceStart,   \* voice_start_in_progress_
    txn,          \* active_transmission_
    lastOk,       \* last_release_result_
    enabled,      \* push_to_talk_enabled_
    member,       \* membership_.has_value()
    asleep,       \* threads waiting for publication_changed_
    vstate,       \* VoiceClient::state_
    vpub,         \* VoiceClient::publication_state_
    vgen,         \* VoiceClient::publication_generation_
    vlast,        \* VoiceClient::last_stop_result_
    vasleep,      \* threads waiting for VoiceClient's publication_changed_
    tstate,       \* LiveKitVoiceTransport: state_
    joined,       \* LiveKitVoiceTransport: a room generation is current, see ConnectionDrops
    mic,          \* LiveKitVoiceTransport: publication_state_
    cb,           \* where the room's callback thread is
    cbState,      \* the state it reports
    drops,        \* how often the room connection was lost
    live,         \* control plane: the active transmissions
    failures,     \* answers that did not arrive
    unanswered,   \* transmissions whose start answer did not arrive
    confirmed,    \* transmissions whose end the server confirmed to the client
    pc,           \* where each thread is
    op,           \* the call a thread is in
    myGen,        \* local variable generation of AuthorizedVoiceClient's calls
    myVgen,       \* local variable generation of VoiceClient's calls
    id,           \* the transmission a thread works for
    ret,          \* where VoiceClient::releasePushToTalk returns to
    vres,         \* result of the last VoiceClient call: ok, invalid or fail
    endOk         \* result of the last endTransmission

avcVars == <<pub, gen, voiceStart, txn, lastOk, enabled, member, asleep>>
vcVars == <<vstate, vpub, vgen, vlast, vasleep>>
roomVars == <<tstate, joined, mic>>
callbackVars == <<cb, cbState, drops>>
serverVars == <<live, failures, unanswered, confirmed>>
localVars == <<myGen, myVgen, id, ret, vres, endOk>>
vars == <<avcVars, vcVars, roomVars, callbackVars, serverVars, pc, op, localVars>>

PublicationStates == {"idle", "starting", "active", "stopping"}
TransportStates == {"disconnected", "connected", "reconnecting"}
Results == {"ok", "invalid", "fail"}
Ops == {"none", "press", "release", "connect", "refresh", "disconnect"}
PCs == {"idle", "p_start", "p_adopt", "p_voice_done", "p_activate", "p_end", "p_settle",
        "v_press", "v_mic", "v_published", "v_activate", "v_cancel", "v_unpublish", "v_settle",
        "r_enter", "r_wait", "r_end", "r_settle",
        "vr_enter", "vr_wait", "vr_stop", "vr_unpublish", "vr_settle",
        "c_connect", "f_server", "d_enter", "d_interrupted", "d_voice", "d_released",
        "d_unpublish", "d_store", "d_leave", "d_finish", "f_connect", "f_finish"}

AuthorizedTypeOK ==
    /\ pub \in PublicationStates
    /\ gen \in 0..MaxPresses
    /\ voiceStart \in BOOLEAN
    /\ txn \in Ids \cup {NoId}
    /\ lastOk \in BOOLEAN
    /\ enabled \in BOOLEAN
    /\ member \in BOOLEAN
    /\ asleep \in SUBSET Threads

VoiceTypeOK ==
    /\ vstate \in TransportStates
    /\ vpub \in PublicationStates
    /\ vgen \in 0..MaxPresses
    /\ vlast \in Results
    /\ vasleep \in SUBSET Threads

RoomTypeOK ==
    /\ tstate \in TransportStates
    /\ joined \in BOOLEAN
    /\ mic \in PublicationStates
    /\ cb \in {"idle", "unpublish", "store", "notify"}
    /\ cbState \in TransportStates
    /\ drops \in 0..MaxDrops

ServerTypeOK ==
    /\ live \in SUBSET Ids
    /\ failures \in 0..MaxFailures
    /\ unanswered \in SUBSET Ids
    /\ confirmed \in SUBSET Ids

ThreadTypeOK ==
    /\ pc \in [Threads -> PCs]
    /\ op \in [Threads -> Ops]
    /\ myGen \in [Threads -> 0..MaxPresses]
    /\ myVgen \in [Threads -> 0..MaxPresses]
    /\ id \in [Threads -> Ids \cup {NoId}]
    /\ ret \in [Threads -> PCs]
    /\ vres \in [Threads -> Results]
    /\ endOk \in [Threads -> BOOLEAN]

\* Type invariant of the three layers, the external state and the threads; a
\* voice start is in progress only while a publication is starting or stopping.
TypeOK ==
    /\ AuthorizedTypeOK /\ VoiceTypeOK /\ RoomTypeOK /\ ServerTypeOK /\ ThreadTypeOK
    /\ voiceStart => pub \in {"starting", "stopping"}

Init ==
    /\ pub = "idle" /\ gen = 0 /\ voiceStart = FALSE /\ txn = NoId /\ lastOk = TRUE
    /\ enabled = FALSE /\ member = FALSE /\ asleep = {}
    /\ vstate = "disconnected" /\ vpub = "idle" /\ vgen = 0 /\ vlast = "ok" /\ vasleep = {}
    /\ tstate = "disconnected" /\ joined = FALSE /\ mic = "idle"
    /\ cb = "idle" /\ cbState = "disconnected" /\ drops = 0
    /\ live = {} /\ failures = 0 /\ unanswered = {} /\ confirmed = {}
    /\ pc = [t \in Threads |-> "idle"]
    /\ op = [t \in Threads |-> "none"]
    /\ myGen = [t \in Threads |-> 0]
    /\ myVgen = [t \in Threads |-> 0]
    /\ id = [t \in Threads |-> NoId]
    /\ ret = [t \in Threads |-> "idle"]
    /\ vres = [t \in Threads |-> "ok"]
    /\ endOk = [t \in Threads |-> FALSE]

-----------------------------------------------------------------------------
At(t, l) == pc[t] = l
Goto(t, l) == pc' = [pc EXCEPT ![t] = l]

(* The call returns to the application. *)
Done(t) ==
    /\ Goto(t, "idle")
    /\ op' = [op EXCEPT ![t] = "none"]
    /\ myGen' = [myGen EXCEPT ![t] = 0]
    /\ myVgen' = [myVgen EXCEPT ![t] = 0]
    /\ id' = [id EXCEPT ![t] = NoId]
    /\ ret' = [ret EXCEPT ![t] = "idle"]
    /\ vres' = [vres EXCEPT ![t] = "ok"]
    /\ endOk' = [endOk EXCEPT ![t] = FALSE]

(* A release that a disconnect or refresh made for itself returns to it. *)
ReleaseReturns(t, ok) ==
    IF op[t] # "release" /\ ok
    THEN Goto(t, "d_interrupted") /\ UNCHANGED <<op, localVars>>
    ELSE Done(t)

NotifyAll == asleep' = {}

SlipVoiceNotifyAll == UNCHANGED vasleep

VoiceNotifyAll == vasleep' = {}

(* control_plane_.endTransmission: the server knows the transmission or
   answers 404; or the answer is lost, with or without effect. *)
EndCall(i, ok) ==
    \/ /\ ok = (i \in live)
       /\ live' = live \ {i}
       /\ confirmed' = IF ok THEN confirmed \cup {i} ELSE confirmed
       /\ UNCHANGED <<failures, unanswered>>
    \/ /\ ~ok
       /\ failures < MaxFailures
       /\ failures' = failures + 1
       /\ live' \in {live, live \ {i}}
       /\ UNCHANGED <<unanswered, confirmed>>

(* stopMicrophoneIfActive up to the unpublish; skip is where the thread goes
   when there is nothing to stop, next where it unpublishes. *)
BeginStop(t, next, skip, skipped) ==
    \/ /\ mic \in {"starting", "active"}
       /\ mic' = "stopping"
       /\ Goto(t, next)
       /\ UNCHANGED vres
    \/ /\ mic \in {"idle", "stopping"}
       /\ Goto(t, skip)
       /\ vres' = [vres EXCEPT ![t] = skipped]
       /\ UNCHANGED mic

(* finishPublicationStop: the transport is idle again even if the unpublish
   failed. *)
FinishStop(t, next) ==
    /\ mic' = "idle"
    /\ \E r \in {"ok", "fail"} : vres' = [vres EXCEPT ![t] = r]
    /\ Goto(t, next)

(* VoiceClient::onTransportStateChanged *)
OnTransportStateChanged(s) ==
    /\ vstate' = s
    /\ \/ /\ s # "connected" /\ vpub = "active"
          /\ vpub' = "idle"
          /\ vlast' = "ok"
          /\ VoiceNotifyAll
       \/ /\ s # "connected" /\ vpub = "starting"
          /\ vpub' = "stopping"
          /\ UNCHANGED <<vlast, vasleep>>
       \/ /\ s = "connected" \/ vpub \in {"idle", "stopping"}
          /\ UNCHANGED <<vpub, vlast, vasleep>>

-----------------------------------------------------------------------------
(* AuthorizedVoiceClient::pressPushToTalk *)
MayPress == enabled /\ member /\ vstate = "connected" /\ pub = "idle" /\ txn = NoId

Press(t) ==
    /\ At(t, "idle")
    /\ gen < MaxPresses
    /\ MayPress
    /\ gen' = gen + 1
    /\ pub' = "starting"
    /\ lastOk' = TRUE
    /\ op' = [op EXCEPT ![t] = "press"]
    /\ myGen' = [myGen EXCEPT ![t] = gen + 1]
    /\ Goto(t, "p_start")
    /\ UNCHANGED <<voiceStart, txn, enabled, member, asleep, vcVars, roomVars, callbackVars,
                   serverVars, myVgen, id, ret, vres, endOk>>

(* control_plane_.startTransmission *)
PressStarted(t) ==
    /\ At(t, "p_start")
    /\ live' = live \cup {myGen[t]}
    /\ id' = [id EXCEPT ![t] = myGen[t]]
    /\ Goto(t, "p_adopt")
    /\ UNCHANGED <<avcVars, vcVars, roomVars, callbackVars, failures, unanswered, confirmed, op,
                   myGen, myVgen, ret, vres, endOk>>

(* The server refuses, or its answer is lost after it started or did not. *)
PressRefused(t) ==
    /\ At(t, "p_start")
    /\ \/ UNCHANGED serverVars
       \/ /\ failures < MaxFailures
          /\ failures' = failures + 1
          /\ live' = live \cup {myGen[t]}
          /\ unanswered' = unanswered \cup {myGen[t]}
          /\ UNCHANGED confirmed
    /\ IF myGen[t] = gen
       THEN pub' = "idle" /\ NotifyAll
       ELSE UNCHANGED <<pub, asleep>>
    /\ Done(t)
    /\ UNCHANGED <<gen, voiceStart, txn, lastOk, enabled, member, vcVars, roomVars, callbackVars>>

Adopts(t) == myGen[t] = gen

PressAdopt(t) ==
    /\ At(t, "p_adopt")
    /\ txn' = IF Adopts(t) THEN id[t] ELSE txn
    /\ IF Adopts(t) /\ pub # "stopping"
       THEN voiceStart' = TRUE /\ Goto(t, "v_press")
       ELSE voiceStart' = (voiceStart /\ ~Adopts(t)) /\ Goto(t, "p_end")
    /\ UNCHANGED <<pub, gen, lastOk, enabled, member, asleep, vcVars, roomVars, callbackVars,
                   serverVars, op, localVars>>

VoiceStartOver == voiceStart' = FALSE

PressVoiceDone(t) ==
    /\ At(t, "p_voice_done")
    /\ VoiceStartOver
    /\ Goto(t, IF vres[t] = "ok" THEN "p_activate" ELSE "p_end")
    /\ UNCHANGED <<pub, gen, txn, lastOk, enabled, member, asleep, vcVars, roomVars, callbackVars,
                   serverVars, op, localVars>>

PressActivate(t) ==
    /\ At(t, "p_activate")
    /\ \/ /\ myGen[t] = gen /\ pub = "starting"
          /\ pub' = "active"
          /\ NotifyAll
          /\ Done(t)
       \/ /\ ~(myGen[t] = gen /\ pub = "starting")
          /\ Goto(t, "vr_enter")
          /\ ret' = [ret EXCEPT ![t] = "p_end"]
          /\ UNCHANGED <<pub, asleep, op, myGen, myVgen, id, vres, endOk>>
    /\ UNCHANGED <<gen, voiceStart, txn, lastOk, enabled, member, vcVars, roomVars, callbackVars,
                   serverVars>>

(* endTransmission of a cancelled start, of a failed voice start and of a start
   that was cancelled after the microphone was on. *)
PressEnd(t) ==
    /\ At(t, "p_end")
    /\ \E ok \in BOOLEAN :
            EndCall(id[t], ok) /\ endOk' = [endOk EXCEPT ![t] = ok]
    /\ Goto(t, "p_settle")
    /\ UNCHANGED <<avcVars, vcVars, roomVars, callbackVars, op, myGen, myVgen, id, ret, vres>>

SlipKeptAfterEnd(ok) == NoId

(* What active_transmission_ is after an endTransmission. *)
KeptAfterEnd(ok) == IF ok THEN NoId ELSE txn

PressSettle(t) ==
    /\ At(t, "p_settle")
    /\ IF myGen[t] = gen
       THEN /\ txn' = KeptAfterEnd(endOk[t])
            /\ lastOk' = endOk[t]
            /\ pub' = "idle"
            /\ NotifyAll
       ELSE UNCHANGED <<txn, lastOk, pub, asleep>>
    /\ Done(t)
    /\ UNCHANGED <<gen, voiceStart, enabled, member, vcVars, roomVars, callbackVars, serverVars>>

-----------------------------------------------------------------------------
(* VoiceClient::pressPushToTalk *)
VoicePress(t) ==
    /\ At(t, "v_press")
    /\ \/ /\ vstate = "connected" /\ vpub = "idle"
          /\ vgen' = vgen + 1
          /\ vpub' = "starting"
          /\ vlast' = "ok"
          /\ myVgen' = [myVgen EXCEPT ![t] = vgen + 1]
          /\ Goto(t, "v_mic")
          /\ UNCHANGED vres
       \/ /\ ~(vstate = "connected" /\ vpub = "idle")
          /\ vres' = [vres EXCEPT ![t] = "invalid"]
          /\ Goto(t, "p_voice_done")
          /\ UNCHANGED <<vgen, vpub, vlast, myVgen>>
    /\ UNCHANGED <<avcVars, vstate, vasleep, roomVars, callbackVars, serverVars, op, myGen, id,
                   ret, endOk>>

(* startMicrophone: begins to publish; LiveKit confirms with a SID, or the
   confirmation times out, or somebody else has stopped the publication. *)
StartMicrophone(t) ==
    /\ At(t, "v_mic")
    /\ \/ /\ tstate = "connected" /\ mic = "idle"
          /\ mic' = "starting"
          /\ Goto(t, "v_published")
          /\ UNCHANGED vres
       \/ /\ vres' = [vres EXCEPT ![t] = "fail"]
          /\ Goto(t, "v_activate")
          /\ UNCHANGED mic
    /\ UNCHANGED <<avcVars, vcVars, tstate, joined, callbackVars, serverVars, op, myGen, myVgen, id, ret,
                   endOk>>

Confirmed ==
    /\ mic = "starting"
    /\ mic' = "active"
    /\ UNCHANGED <<avcVars, vcVars, tstate, joined, callbackVars, serverVars, pc, op, localVars>>

MicrophoneReturns(t) ==
    /\ At(t, "v_published")
    /\ vres' = [vres EXCEPT ![t] = IF mic = "active" THEN "ok" ELSE "fail"]
    /\ mic' = IF mic = "starting" THEN "idle" ELSE mic
    /\ Goto(t, "v_activate")
    /\ UNCHANGED <<avcVars, vcVars, tstate, joined, callbackVars, serverVars, op, myGen, myVgen, id, ret,
                   endOk>>

MayActivate(t) ==
    vres[t] = "ok" /\ myVgen[t] = vgen /\ vpub = "starting" /\ vstate = "connected"

VoiceActivate(t) ==
    /\ At(t, "v_activate")
    /\ \/ /\ MayActivate(t)
          /\ vpub' = "active"
          /\ VoiceNotifyAll
          /\ Goto(t, "p_voice_done")
       \/ /\ ~MayActivate(t)
          /\ Goto(t, "v_cancel")
          /\ UNCHANGED <<vpub, vasleep>>
    /\ UNCHANGED <<avcVars, vstate, vgen, vlast, roomVars, callbackVars, serverVars, op, localVars>>

SlipMustUnpublish(t) == vres[t] # "ok" /\ mic = "active"

(* The cancelled start stops the microphone if it is on. *)
MustUnpublish(t) == vres[t] = "ok" \/ mic = "active"

VoiceCancel(t) ==
    /\ At(t, "v_cancel")
    /\ \/ /\ MustUnpublish(t)
          /\ BeginStop(t, "v_unpublish", "v_settle", "ok")
       \/ /\ ~MustUnpublish(t)
          /\ Goto(t, "v_settle")
          /\ vres' = [vres EXCEPT ![t] = "ok"]
          /\ UNCHANGED mic
    /\ UNCHANGED <<avcVars, vcVars, tstate, joined, callbackVars, serverVars, op, myGen, myVgen, id, ret,
                   endOk>>

VoiceUnpublish(t) ==
    /\ At(t, "v_unpublish")
    /\ FinishStop(t, "v_settle")
    /\ UNCHANGED <<avcVars, vcVars, tstate, joined, callbackVars, serverVars, op, myGen, myVgen, id, ret,
                   endOk>>

(* vres holds stop_result here; the press itself has failed. *)
VoiceSettle(t) ==
    /\ At(t, "v_settle")
    /\ IF myVgen[t] = vgen
       THEN vpub' = "idle" /\ vlast' = vres[t] /\ VoiceNotifyAll
       ELSE UNCHANGED <<vpub, vlast, vasleep>>
    /\ vres' = [vres EXCEPT ![t] = "fail"]
    /\ Goto(t, "p_voice_done")
    /\ UNCHANGED <<avcVars, vstate, vgen, roomVars, callbackVars, serverVars, op, myGen, myVgen, id,
                   ret, endOk>>

-----------------------------------------------------------------------------
(* AuthorizedVoiceClient::releasePushToTalk *)
Release(t) ==
    /\ At(t, "idle")
    /\ pub # "idle"
    /\ op' = [op EXCEPT ![t] = "release"]
    /\ Goto(t, "r_enter")
    /\ UNCHANGED <<avcVars, vcVars, roomVars, callbackVars, serverVars, localVars>>

(* publication_changed_.wait: the step that finds the predicate false. *)
Sleep(t) == asleep' = asleep \cup {t}

SlipStopsFrom == {"active", "stopping"}

StopsFrom == {"active"}

ReleaseEnter(t) ==
    /\ At(t, "r_enter")
    /\ \/ /\ pub = "idle"
          /\ ReleaseReturns(t, FALSE)
          /\ UNCHANGED <<pub, asleep>>
       \/ /\ pub \in StopsFrom /\ txn # NoId
          /\ pub' = "stopping"
          /\ myGen' = [myGen EXCEPT ![t] = gen]
          /\ id' = [id EXCEPT ![t] = txn]
          /\ ret' = [ret EXCEPT ![t] = "r_end"]
          /\ Goto(t, "vr_enter")
          /\ UNCHANGED <<asleep, op, myVgen, vres, endOk>>
       \/ /\ pub = "starting" /\ voiceStart
          /\ pub' = "stopping"
          /\ myGen' = [myGen EXCEPT ![t] = gen]
          /\ ret' = [ret EXCEPT ![t] = "r_wait"]
          /\ Goto(t, "vr_enter")
          /\ UNCHANGED <<asleep, op, myVgen, id, vres, endOk>>
       \/ /\ \/ pub = "starting" /\ ~voiceStart
             \/ pub \in StopsFrom /\ txn = NoId
             \/ pub = "stopping" /\ pub \notin StopsFrom
          /\ pub' = "stopping"
          /\ myGen' = [myGen EXCEPT ![t] = gen]
          /\ Sleep(t)
          /\ Goto(t, "r_wait")
          /\ UNCHANGED <<op, myVgen, id, ret, vres, endOk>>
    /\ UNCHANGED <<gen, voiceStart, txn, lastOk, enabled, member, vcVars, roomVars, callbackVars,
                   serverVars>>

(* The wait for the thread that cleans up: awake, it evaluates the predicate
   and sleeps again or returns. *)
ReleaseWait(t) ==
    LET over == gen # myGen[t] \/ pub = "idle"
    IN /\ At(t, "r_wait")
       /\ t \notin asleep
       /\ \/ over /\ ReleaseReturns(t, lastOk /\ vres[t] = "ok") /\ UNCHANGED asleep
          \/ ~over /\ Sleep(t) /\ UNCHANGED <<pc, op, localVars>>
       /\ UNCHANGED <<pub, gen, voiceStart, txn, lastOk, enabled, member, vcVars, roomVars,
                      callbackVars, serverVars>>

ReleaseEnd(t) ==
    /\ At(t, "r_end")
    /\ \E ok \in BOOLEAN :
            EndCall(id[t], ok) /\ endOk' = [endOk EXCEPT ![t] = ok]
    /\ Goto(t, "r_settle")
    /\ UNCHANGED <<avcVars, vcVars, roomVars, callbackVars, op, myGen, myVgen, id, ret, vres>>

ReleaseSettle(t) ==
    LET ok == endOk[t] /\ vres[t] = "ok"
    IN /\ At(t, "r_settle")
       /\ IF myGen[t] = gen
          THEN /\ txn' = KeptAfterEnd(endOk[t])
               /\ pub' = "idle"
               /\ lastOk' = ok
               /\ NotifyAll
          ELSE UNCHANGED <<txn, pub, lastOk, asleep>>
       /\ ReleaseReturns(t, ok)
       /\ UNCHANGED <<gen, voiceStart, enabled, member, vcVars, roomVars, callbackVars, serverVars>>

-----------------------------------------------------------------------------
(* VoiceClient::releasePushToTalk *)
VoiceReleaseEnter(t) ==
    /\ At(t, "vr_enter")
    /\ \/ /\ vpub = "idle"
          /\ vres' = [vres EXCEPT ![t] = "invalid"]
          /\ Goto(t, ret[t])
          /\ UNCHANGED <<vpub, vasleep, myVgen>>
       \/ /\ vpub \in {"starting", "stopping"}
          /\ vpub' = "stopping"
          /\ myVgen' = [myVgen EXCEPT ![t] = vgen]
          /\ vasleep' = vasleep \cup {t}
          /\ Goto(t, "vr_wait")
          /\ UNCHANGED vres
       \/ /\ vpub = "active"
          /\ vpub' = "stopping"
          /\ myVgen' = [myVgen EXCEPT ![t] = vgen]
          /\ Goto(t, "vr_stop")
          /\ UNCHANGED <<vasleep, vres>>
    /\ UNCHANGED <<avcVars, vstate, vgen, vlast, roomVars, callbackVars, serverVars, op, myGen, id,
                   ret, endOk>>

VoiceReleaseWait(t) ==
    LET over == vgen # myVgen[t] \/ vpub = "idle"
    IN /\ At(t, "vr_wait")
       /\ t \notin vasleep
       /\ \/ /\ over
             /\ vres' = [vres EXCEPT ![t] = vlast]
             /\ Goto(t, ret[t])
             /\ UNCHANGED vasleep
          \/ /\ ~over
             /\ vasleep' = vasleep \cup {t}
             /\ UNCHANGED <<vres, pc>>
       /\ UNCHANGED <<avcVars, vstate, vpub, vgen, vlast, roomVars, callbackVars, serverVars, op,
                      myGen, myVgen, id, ret, endOk>>

VoiceReleaseStop(t) ==
    /\ At(t, "vr_stop")
    /\ BeginStop(t, "vr_unpublish", "vr_settle", "invalid")
    /\ UNCHANGED <<avcVars, vcVars, tstate, joined, callbackVars, serverVars, op, myGen, myVgen, id, ret,
                   endOk>>

VoiceReleaseUnpublish(t) ==
    /\ At(t, "vr_unpublish")
    /\ FinishStop(t, "vr_settle")
    /\ UNCHANGED <<avcVars, vcVars, tstate, joined, callbackVars, serverVars, op, myGen, myVgen, id, ret,
                   endOk>>

VoiceReleaseSettle(t) ==
    /\ At(t, "vr_settle")
    /\ IF myVgen[t] = vgen
       THEN vpub' = "idle" /\ vlast' = vres[t] /\ VoiceNotifyAll
       ELSE UNCHANGED <<vpub, vlast, vasleep>>
    /\ Goto(t, ret[t])
    /\ UNCHANGED <<avcVars, vstate, vgen, roomVars, callbackVars, serverVars, op, localVars>>

-----------------------------------------------------------------------------
(* LiveKitVoiceTransport::connect; a failed one leaves no room behind. *)
TransportConnect ==
    /\ tstate = "disconnected"
    /\ tstate' = "connected"
    /\ joined' = TRUE

(* VoiceClient::connect, whose state the transport's notifications set. *)
VoiceConnect ==
    /\ vstate = "disconnected"
    /\ TransportConnect
    /\ vstate' = "connected"

(* AuthorizedVoiceClient::connect, which holds the mutex to its end. *)
Connect(t) ==
    /\ At(t, "idle")
    /\ ~member
    /\ VoiceConnect
    /\ member' = TRUE
    /\ enabled' = TRUE
    /\ UNCHANGED <<pub, gen, voiceStart, txn, lastOk, asleep, vpub, vgen, vlast, vasleep, mic,
                   callbackVars, serverVars, pc, op, localVars>>

(* refreshAuthorization: the membership it knows, then the server's. *)
Refresh(t) ==
    /\ At(t, "idle")
    /\ member /\ vstate # "disconnected"
    /\ op' = [op EXCEPT ![t] = "refresh"]
    /\ Goto(t, "f_server")
    /\ UNCHANGED <<avcVars, vcVars, roomVars, callbackVars, serverVars, localVars>>

(* No answer, no newer version, or grants of another version; or a change. *)
RefreshAnswer(t) ==
    /\ At(t, "f_server")
    /\ \/ Done(t)
       \/ Goto(t, "d_enter") /\ UNCHANGED <<op, localVars>>
    /\ UNCHANGED <<avcVars, vcVars, roomVars, callbackVars, serverVars>>

Disconnect(t) ==
    /\ At(t, "idle")
    /\ op' = [op EXCEPT ![t] = "disconnect"]
    /\ Goto(t, "d_enter")
    /\ UNCHANGED <<avcVars, vcVars, roomVars, callbackVars, serverVars, localVars>>

DisableAndRelease(t) ==
    /\ At(t, "d_enter")
    /\ enabled' = FALSE
    /\ Goto(t, IF pub # "idle" THEN "r_enter" ELSE "d_interrupted")
    /\ UNCHANGED <<pub, gen, voiceStart, txn, lastOk, member, asleep, vcVars, roomVars,
                   callbackVars, serverVars, op, localVars>>

(* endInterruptedTransmission *)
EndInterrupted(t) ==
    /\ At(t, "d_interrupted")
    /\ \/ /\ txn = NoId
          /\ Goto(t, "d_voice")
          /\ UNCHANGED <<txn, serverVars, op, localVars>>
       \/ /\ txn # NoId
          /\ \E ok \in BOOLEAN :
                /\ EndCall(txn, ok)
                /\ txn' = KeptAfterEnd(ok)
                /\ IF ok THEN Goto(t, "d_voice") /\ UNCHANGED <<op, localVars>> ELSE Done(t)
    /\ UNCHANGED <<pub, gen, voiceStart, lastOk, enabled, member, asleep, vcVars, roomVars,
                   callbackVars>>

(* VoiceClient::disconnect *)
VoiceDisconnect(t) ==
    /\ At(t, "d_voice")
    /\ \/ /\ vstate = "disconnected"
          /\ Goto(t, "d_finish")
          /\ UNCHANGED ret
       \/ /\ vstate # "disconnected"
          /\ ret' = [ret EXCEPT ![t] = "d_released"]
          /\ Goto(t, "vr_enter")
    /\ UNCHANGED <<avcVars, vcVars, roomVars, callbackVars, serverVars, op, myGen, myVgen, id, vres,
                   endOk>>

(* LiveKitVoiceTransport::disconnect, first half. *)
TransportDisconnect(t) ==
    /\ At(t, "d_released")
    /\ \/ /\ vres[t] = "fail" \/ tstate = "disconnected"
          /\ Done(t)
          /\ UNCHANGED mic
       \/ /\ vres[t] # "fail" /\ tstate # "disconnected"
          /\ BeginStop(t, "d_unpublish", "d_store", "ok")
          /\ UNCHANGED <<op, myGen, myVgen, id, ret, endOk>>
    /\ UNCHANGED <<avcVars, vcVars, tstate, joined, callbackVars, serverVars>>

TransportUnpublish(t) ==
    /\ At(t, "d_unpublish")
    /\ FinishStop(t, "d_store")
    /\ UNCHANGED <<avcVars, vcVars, tstate, joined, callbackVars, serverVars, op, myGen, myVgen, id, ret,
                   endOk>>

(* The state is stored before the rooms are left: a callback that is already
   running can still store its own over it. *)
TransportStore(t) ==
    /\ At(t, "d_store")
    /\ tstate' = "disconnected"
    /\ joined' = FALSE
    /\ Goto(t, "d_leave")
    /\ UNCHANGED <<avcVars, vcVars, mic, callbackVars, serverVars, op, localVars>>

(* Leaves the rooms, which waits for a callback that is running, forgets the
   publication and reports the state. *)
TransportLeave(t) ==
    /\ At(t, "d_leave")
    /\ cb = "idle"
    /\ mic' = "idle"
    /\ OnTransportStateChanged("disconnected")
    /\ Goto(t, "d_finish")
    /\ UNCHANGED <<avcVars, vgen, tstate, joined, callbackVars, serverVars, op, localVars>>

FinishDisconnect(t) ==
    /\ At(t, "d_finish")
    /\ \/ /\ op[t] = "disconnect"
          /\ member' = FALSE
          /\ Done(t)
       \/ /\ op[t] = "refresh"
          /\ Goto(t, "f_connect")
          /\ UNCHANGED <<member, op, localVars>>
    /\ UNCHANGED <<pub, gen, voiceStart, txn, lastOk, enabled, asleep, vcVars, roomVars,
                   callbackVars, serverVars>>

(* VoiceClient::connect with the new grants, and its failure. *)
RefreshConnect(t) ==
    /\ At(t, "f_connect")
    /\ \/ /\ VoiceConnect
          /\ Goto(t, "f_finish")
          /\ UNCHANGED <<member, op, localVars>>
       \/ /\ member' = FALSE
          /\ Done(t)
          /\ UNCHANGED <<vstate, tstate, joined>>
    /\ UNCHANGED <<pub, gen, voiceStart, txn, lastOk, enabled, asleep, vpub, vgen, vlast, vasleep,
                   mic, callbackVars, serverVars>>

RefreshFinish(t) ==
    /\ At(t, "f_finish")
    /\ member' = TRUE
    /\ enabled' = TRUE
    /\ Done(t)
    /\ UNCHANGED <<pub, gen, voiceStart, txn, lastOk, asleep, vcVars, roomVars, callbackVars,
                   serverVars>>

-----------------------------------------------------------------------------
(* The room's callbacks: reconnecting, roomDisconnected, reconnected.  Those of a
   room the transport no longer counts as its own are ignored. *)
ConnectionDrops(s) ==
    /\ cb = "idle" /\ joined
    /\ drops < MaxDrops
    /\ tstate # "disconnected" /\ tstate # s
    /\ s \in {"reconnecting", "disconnected"}
    /\ drops' = drops + 1
    /\ cbState' = s
    /\ IF mic = "active"
       THEN mic' = "stopping" /\ cb' = "unpublish"
       ELSE UNCHANGED mic /\ cb' = "store"
    /\ UNCHANGED <<avcVars, vcVars, tstate, joined, serverVars, pc, op, localVars>>

CallbackUnpublish ==
    /\ cb = "unpublish"
    /\ mic' = "idle"
    /\ cb' = "store"
    /\ UNCHANGED <<avcVars, vcVars, tstate, joined, cbState, drops, serverVars, pc, op, localVars>>

Reconnected ==
    /\ cb = "idle" /\ joined
    /\ tstate = "reconnecting"
    /\ cb' = "store"
    /\ cbState' = "connected"
    /\ UNCHANGED <<avcVars, vcVars, roomVars, drops, serverVars, pc, op, localVars>>

CallbackStore ==
    /\ cb = "store"
    /\ tstate' = cbState
    /\ cb' = "notify"
    /\ UNCHANGED <<avcVars, vcVars, joined, mic, cbState, drops, serverVars, pc, op, localVars>>

CallbackNotify ==
    /\ cb = "notify"
    /\ OnTransportStateChanged(cbState)
    /\ cb' = "idle"
    /\ cbState' = "disconnected"
    /\ UNCHANGED <<avcVars, vgen, roomVars, drops, serverVars, pc, op, localVars>>

(* The server ends a transmission: time, membership, moderation. *)
ForcedEnd(i) ==
    /\ ForcedEnds
    /\ i \in live
    /\ live' = live \ {i}
    /\ UNCHANGED <<avcVars, vcVars, roomVars, callbackVars, failures, unanswered, confirmed, pc,
                   op, localVars>>

-----------------------------------------------------------------------------
PressStep(t) ==
    \/ PressStarted(t) \/ PressRefused(t) \/ PressAdopt(t) \/ PressVoiceDone(t)
    \/ PressActivate(t) \/ PressEnd(t) \/ PressSettle(t)

VoicePressStep(t) ==
    \/ VoicePress(t) \/ StartMicrophone(t) \/ MicrophoneReturns(t) \/ VoiceActivate(t)
    \/ VoiceCancel(t) \/ VoiceUnpublish(t) \/ VoiceSettle(t)

ReleaseStep(t) == ReleaseEnter(t) \/ ReleaseWait(t) \/ ReleaseEnd(t) \/ ReleaseSettle(t)

VoiceReleaseStep(t) ==
    \/ VoiceReleaseEnter(t) \/ VoiceReleaseWait(t) \/ VoiceReleaseStop(t)
    \/ VoiceReleaseUnpublish(t) \/ VoiceReleaseSettle(t)

DisconnectStep(t) ==
    \/ RefreshAnswer(t) \/ DisableAndRelease(t) \/ EndInterrupted(t) \/ VoiceDisconnect(t)
    \/ TransportDisconnect(t) \/ TransportUnpublish(t) \/ TransportStore(t)
    \/ TransportLeave(t) \/ FinishDisconnect(t) \/ RefreshConnect(t) \/ RefreshFinish(t)

ThreadStep(t) ==
    PressStep(t) \/ VoicePressStep(t) \/ ReleaseStep(t) \/ VoiceReleaseStep(t) \/ DisconnectStep(t)

InputCall(t) == Press(t) \/ Release(t)
ControlCall(t) == Connect(t) \/ Refresh(t) \/ Disconnect(t)

CallbackStep == CallbackUnpublish \/ CallbackStore \/ CallbackNotify

Next ==
    \/ \E t \in InputThreads : InputCall(t)
    \/ \E t \in ControlThreads : ControlCall(t)
    \/ \E t \in Threads : ThreadStep(t)
    \/ Confirmed
    \/ \E s \in TransportStates : ConnectionDrops(s)
    \/ Reconnected
    \/ CallbackStep
    \/ \E i \in Ids : ForcedEnd(i)

Spec == Init /\ [][Next]_vars

(* A call in progress and a callback in progress are run on; server and LiveKit
   calls return because both have time limits.  Nobody has to call anything. *)
Fairness == (\A t \in Threads : WF_vars(ThreadStep(t))) /\ WF_vars(CallbackStep)

FairSpec == Spec /\ Fairness

-----------------------------------------------------------------------------
(* Safety. *)

\* A transmission that is active on the server is the one the client holds, or
\* is about to adopt, unless the answer to its start never arrived: whatever
\* cancels a press, and whether or not ending it fails, the client does not
\* forget a transmission (pressPushToTalk, releasePushToTalk).
NoOrphanedTransmission ==
    \A i \in live \ unanswered :
        txn = i \/ \E t \in Threads : At(t, "p_adopt") /\ id[t] = i

Ending(i) == {t \in Threads : pc[t] \in {"p_end", "r_end"} /\ id[t] = i}
Cleaning(i) == {t \in Threads : At(t, "d_interrupted") /\ txn = i}

\* Cancelling paths that race (release, disconnect, refresh, a failed start)
\* never call the end endpoint twice for one transmission: at most one thread
\* is about to call it, and none after the server confirmed the end.
EndpointCalledOnce ==
    \A i \in Ids :
        /\ Cardinality(Ending(i) \cup Cleaning(i)) <= 1
        /\ i \in confirmed => Ending(i) \cup Cleaning(i) = {}

Quiet == cb = "idle" /\ \A t \in Threads : pc[t] = "idle"

\* While the room connection holds, the microphone is published only under a
\* transmission the server authorized, and when no call is in progress only if
\* the client is transmitting: no race of press, release, refresh and disconnect
\* leaves it open.  (The converse fails: a release that was delayed after it
\* decided to cancel one start can switch off the microphone of the next.)
MicrophoneFollowsTransmission ==
    drops = 0 =>
        /\ mic \in {"starting", "active"} => txn # NoId
        /\ Quiet /\ mic = "active" => pub = "active" /\ vpub = "active"

-----------------------------------------------------------------------------
(* Liveness. *)

\* Every call returns: the threads that wait for another thread's cleanup are
\* always woken and never wait for each other.
CallsReturn == \A t \in Threads : pc[t] # "idle" ~> pc[t] = "idle"

-----------------------------------------------------------------------------
(* What the documentation says and the code does not do. *)

\* VoiceClient "discards its active push-to-talk state at every reconnect or
\* disconnect" (voice-client.md): once it is idle, the connection is back and
\* nothing is in progress, the microphone is not published.
DropDiscardsPublication ==
    Quiet /\ vpub = "idle" /\ tstate = "connected" => mic # "active"
=============================================================================
